------------------------- MODULE SocketServer_proofs -------------------------
(***************************************************************************)
(* SocketServer for all sets of connections, descriptors, workers and      *)
(* bounds, and both servers: types, the map of clients and the callbacks.  *)
(*                                                                         *)
(* The argument follows an entry of clients: it is made with its           *)
(* descriptor; the end of its connection is told when closeClient looks it *)
(* up; from there on a thread is its closer, until the entry is erased.    *)
(* Only a connection that two closers touch (raced) can escape this.       *)
(*                                                                         *)
(* The last parts are about StringIpc: where the names of its server lead, *)
(* and that messages are handed over whole.  The second follows a message  *)
(* from the connection it is sent on, through the hands of the server's    *)
(* readers, to the queue of a receiver: its end is in one place at a time, *)
(* finds its head there, and overtakes no other end of its connection.     *)
(* Only a connection that two readers were busy with (mixed) escapes this. *)
(***************************************************************************)
EXTENDS MCSocketServer, FiniteSetTheorems, SequenceTheorems, TLAPS

-----------------------------------------------------------------------------
(* The inductive invariant *)

Closing == {"lookup", "close", "erase"}

\* What a thread has in hand where it is, and who may be there.
ThreadsFit ==
  /\ \A t \in Thread :
       /\ pc[t] \in Closing => arg[t].fd \in FD
       /\ pc[t] \in {"close", "erase"} => arg[t].des \in Conn
       /\ pc[t] = "accepted" => t = Listener /\ arg[t].des \in Conn
       /\ pc[t] \in {"recv", "hand"} => t \in Readers /\ arg[t].fd \in FD /\ arg[t].des \in Conn
       /\ pc[t] \in {"join", "joinRest", "stopped"} => t = App
       /\ kind = "unix" /\ pc[t] \in Closing => t = Listener
  /\ \A w \in Reader \ Readers : pc[w] = "idle"
  /\ pc[App] = "stopped" => pc[Listener] = "ended" /\ ReadersEnded
  /\ pc[App] # "ended"

\* epoll watches open descriptors; what it reports of the listening socket is a
\* connection to accept, and what the Unix server is told of an end is true until
\* it has closed the client.
EventsHold ==
  /\ \A fd \in watched : sock[fd] # None
  /\ \A e \in batch : e.fd = Server => ~e.quit /\ backlog # <<>>
  /\ pc[Listener] \in Closing \cup {"ended"} => batch = {}
  /\ kind = "unix" =>
       /\ \A e \in batch : e.quit => sock[e.fd] # None /\ Gone(sock[e.fd])
       /\ pc[Listener] = "lookup" =>
            sock[arg[Listener].fd] # None /\ Gone(sock[arg[Listener].fd])

\* A connection that the server has not accepted is known to nobody.
Waiting(c) == peer[c] = "new" \/ InBacklog(c)
Fresh ==
  /\ \A i, j \in 1 .. Len(backlog) : backlog[i] = backlog[j] => i = j
  /\ \A c \in Conn :
       /\ peer[c] = "new" => ~InBacklog(c)
       /\ Waiting(c) => /\ \A fd \in FD : clients[fd] # c /\ sock[fd] # c
                        /\ \A t \in Thread : pc[t] \in {"close", "erase", "accepted"}
                                               => arg[t].des # c
                        /\ told[c] = <<>>

\* The entries: one for each connection, the closer's is the one it looked up, and
\* an entry without an open descriptor is about to be erased.
OneEntry == \A f, g \in FD : clients[f] = clients[g] /\ clients[f] # None => f = g
CloserKnows(t) ==
  pc[t] \in {"close", "erase"} =>
    /\ clients[arg[t].fd] \notin raced \cup {None} => arg[t].des = clients[arg[t].fd]
    /\ arg[t].des \notin raced =>
         \A fd \in FD : clients[fd] = arg[t].des => arg[t].fd = fd
Erased(t, c, fd) == pc[t] = "erase" /\ arg[t] = [fd |-> fd, des |-> c]
EntryFits(c, fd) ==
  /\ sock[fd] = c => clients[fd] = c
  /\ clients[fd] = c => sock[fd] = c \/ \E t \in Thread : Erased(t, c, fd)
  /\ \A t \in Thread : Erased(t, c, fd) => sock[fd] # c
Entries ==
  /\ kind = "unix" => raced = {}
  /\ OneEntry
  /\ \A t \in Thread : CloserKnows(t)
  /\ pc[App] # "stopped" => \A c \in Conn \ raced, fd \in FD : EntryFits(c, fd)

\* The end of a connection is told by its closers, the first time by the only one.
HasOff(s) == \E i \in 1 .. Len(s) : s[i] = "off"
OneOff(s) == \A i, j \in 1 .. Len(s) : s[i] = "off" /\ s[j] = "off" => i = j
OffTold(c) == HasOff(told[c])
ToldOf(c) ==
  /\ Closers(c) # {} => OffTold(c)
  /\ c \notin raced =>
       /\ OneOff(told[c])
       /\ OffTold(c) => \A fd \in FD : clients[fd] = c => Closers(c) # {}
       /\ ~Waiting(c) /\ pc[App] # "stopped" => DescriptorsOf(c) # {} \/ OffTold(c)
Told == \A c \in Conn : ToldOf(c)

\* The Unix server has one thread for all of this, so its calls come in order.
Announced(c) == pc[Listener] = "accepted" /\ arg[Listener].des = c
UnixToldOf(c) ==
  /\ told[c] \in {<<>>, <<"on">>, <<"on", "off">>}
  /\ told[c] = <<"on", "off">> => Gone(c)
  /\ Announced(c) => told[c] = <<>>
  /\ \A fd \in FD : clients[fd] = c => told[c] # <<>> \/ Announced(c)
UnixTold == kind = "unix" => \A c \in Conn : UnixToldOf(c)

\* Pieces: a reader's is new, one of those received, and no other reader's; the
\* Unix server's is the next.
Handing(w) == pc[w] = "hand"
PieceFits(w) ==
  Handing(w) =>
    /\ piece[w][1] \in Conn
    /\ piece[w][2] \in 1 .. rcvd[piece[w][1]]
    /\ \A v \in Reader : Handing(v) /\ piece[v] = piece[w] => v = w
    /\ \A i \in 1 .. Len(handed[piece[w][1]]) : handed[piece[w][1]][i][1] # piece[w][2]
    /\ kind = "unix" => Len(handed[piece[w][1]]) + 1 = rcvd[piece[w][1]]
                        /\ piece[w][2] = rcvd[piece[w][1]]
PiecesOf(c) ==
  /\ rcvd[c] <= sent[c]
  /\ \A i \in 1 .. Len(handed[c]) : handed[c][i][1] <= rcvd[c]
  /\ \A i, j \in 1 .. Len(handed[c]) : handed[c][i][1] = handed[c][j][1] => i = j
  /\ kind = "unix" =>
       /\ \A i \in 1 .. Len(handed[c]) : handed[c][i][1] = i
       /\ (\A w \in Reader : Handing(w) => piece[w][1] # c) => Len(handed[c]) = rcvd[c]
PiecesFit == (\A w \in Reader : PieceFits(w)) /\ (\A c \in Conn : PiecesOf(c))

\* Addresses: the connection a job was made for still has its descriptor, or its end
\* was told.
Known(c, d) == d = c \/ OffTold(d) \/ d \in raced
Addressed(j) == Known(sock[j.fd], j.des)
Addresses ==
  /\ pc[App] # "stopped" =>
       /\ \A i \in 1 .. Len(jobs) : Addressed(jobs[i])
       /\ \A w \in Reader : pc[w] \in {"recv", "hand"} => Addressed(arg[w])
  /\ \A w \in Reader : Handing(w) => Known(piece[w][1], arg[w].des)
  /\ \A c \in Conn : \A i \in 1 .. Len(handed[c]) : Known(c, handed[c][i][2])

IInv ==
  /\ TypeOK /\ ThreadsFit /\ EventsHold /\ Fresh
  /\ Entries /\ Told /\ UnixTold /\ PiecesFit /\ Addresses

-----------------------------------------------------------------------------
(* The steps *)

\* Who is who.
LEMMA Cast ==
  /\ Listener \in Thread /\ App \in Thread /\ Listener # App
  /\ Reader \subseteq Thread /\ Readers \subseteq Reader
  /\ Listener \notin Reader /\ App \notin Reader
  /\ Server \notin FD /\ None \notin Conn
BY ServerAssumption DEF Thread, Reader, Readers, Listener, App, Server

\* acceptClient for the connection c and the descriptor fd.
acceptAt(e, c, fd) ==
  /\ pc[Listener] = "idle"
  /\ e.fd = Server /\ backlog # <<>> /\ c = Head(backlog)
  /\ sock[fd] = None
  /\ sock' = [sock EXCEPT ![fd] = c]
  /\ clients' = [clients EXCEPT ![fd] = c]
  /\ watched' = watched \cup {fd}
  /\ edge' = edge \cup (IF Unread(c) \/ Gone(c) THEN {fd} ELSE {})
  /\ arg' = [arg EXCEPT ![Listener] = [fd |-> fd, des |-> c]]
  /\ raced' = IF \E t \in Thread : pc[t] \in {"close", "erase"} /\ arg[t].fd = fd
              THEN raced \cup {c} ELSE raced
  /\ backlog' = Tail(backlog)
  /\ batch' = batch \ {e}
  /\ Goto(Listener, "accepted")
  /\ UNCHANGED <<kind, peer, sent, rcvd, jobs, piece, listening, receiving, told, handed,
                 lost>>

\* closeLookup without an entry, and with the entry of c.
closeNothing(t) ==
  /\ pc[t] = "lookup"
  /\ Return(t)
  /\ UNCHANGED <<kind, kernelVars, clients, jobs, batch, piece, listening, receiving,
                 historyVars>>

closeTell(t, c) ==
  /\ pc[t] = "lookup" /\ arg[t].fd \in FD /\ c = clients[arg[t].fd]
  /\ arg' = [arg EXCEPT ![t] = [fd |-> arg[t].fd, des |-> c]]
  /\ told' = [told EXCEPT ![c] = Append(@, "off")]
  /\ raced' = IF Closers(c) # {} THEN raced \cup {c} ELSE raced
  /\ Goto(t, "close")
  /\ UNCHANGED <<kind, kernelVars, clients, jobs, batch, piece, listening, receiving,
                 handed, lost>>

\* recvError of the TCP server and of the Unix server.
recvErrorOf(w) ==
  /\ pc[w] = "recv"
  /\ Current(w) # None => peer[Current(w)] = "reset"
  /\ peer' = IF Current(w) = None THEN peer ELSE [peer EXCEPT ![Current(w)] = "shut"]
  /\ UNCHANGED <<kind, backlog, sock, sent, rcvd, clients, jobs, batch, piece, listening,
                 receiving, historyVars>>
recvErrorTcp(w) == recvErrorOf(w) /\ kind = "tcp" /\ beginClose(w, arg[w].fd)
recvErrorUnix(w) ==
  recvErrorOf(w) /\ kind # "tcp" /\ Return(w) /\ UNCHANGED <<watched, edge>>

\* The steps of Next, with the choices inside them made.
Step ==
  \/ \E c \in Conn : Connect(c) \/ Send(c) \/ HangUp(c)
  \/ epollWait \/ callConnected \/ endListener
  \/ \E e \in batch : handleQuit(e) \/ pushJob(e)
  \/ \E e \in batch, c \in Conn, fd \in FD : acceptAt(e, c, fd)
  \/ \E w \in Readers : \/ takeJob(w) \/ recvPiece(w) \/ onRecv(w) \/ recvNothing(w)
                         \/ recvErrorTcp(w) \/ recvErrorUnix(w) \/ endReader(w)
  \/ \E t \in Thread : closeNothing(t) \/ closeFd(t) \/ closeErase(t)
  \/ \E t \in Thread, c \in Conn : closeTell(t, c)
  \/ \E fd \in FD : appClose(fd)
  \/ stopBegin \/ stopRest \/ stopClose

LEMMA Steps == IInv /\ Next => Step
<1> SUFFICES ASSUME IInv, Next
             PROVE  Step
    OBVIOUS
<1> USE Cast
<1>1. ASSUME NEW e \in batch, acceptClient(e)
      PROVE  \E c \in Conn, fd \in FD : acceptAt(e, c, fd)
  <2>1. backlog # <<>> /\ Head(backlog) \in Conn
        BY <1>1, HeadTailProperties
        DEF IInv, TypeOK, EventsHold, acceptClient, acceptAdding
  <2>2. PICK fd \in FD :
          /\ sock[fd] = None
          /\ sock' = [sock EXCEPT ![fd] = Head(backlog)]
          /\ clients' = [clients EXCEPT ![fd] = Head(backlog)]
          /\ watched' = watched \cup {fd}
          /\ edge' = edge \cup (IF Head(backlog) \in {c \in Conn : Unread(c) \/ Gone(c)}
                               THEN {fd} ELSE {})
          /\ arg' = [arg EXCEPT ![Listener] = [fd |-> fd, des |-> Head(backlog)]]
          /\ raced' = IF \E t \in Thread : pc[t] \in {"close", "erase"} /\ arg[t].fd = fd
                      THEN raced \cup {Head(backlog)} ELSE raced
        BY <1>1 DEF acceptClient, acceptAdding
  <2> QED
    BY <1>1, <2>1, <2>2 DEF acceptClient, acceptAdding, acceptAt
<1>2. ASSUME NEW t \in Thread, closeLookup(t)
      PROVE  closeNothing(t) \/ \E c \in Conn : closeTell(t, c)
  <2>1. CASE clients[arg[t].fd] = None
        BY <1>2, <2>1 DEF closeLookup, closeNothing, historyVars
  <2>2. CASE clients[arg[t].fd] # None
    <3>1. arg[t].fd \in FD /\ clients[arg[t].fd] \in Conn
          BY <1>2, <2>2 DEF IInv, TypeOK, ThreadsFit, Closing, closeLookup
    <3>2. arg' = [arg EXCEPT ![t].des = clients[arg[t].fd]]
          BY <1>2, <2>2 DEF closeLookup
    <3>3. [arg[t] EXCEPT !.des = clients[arg[t].fd]]
            = [fd |-> arg[t].fd, des |-> clients[arg[t].fd]]
          BY DEF IInv, TypeOK
    <3>4. arg' = [arg EXCEPT ![t] = [fd |-> arg[t].fd, des |-> clients[arg[t].fd]]]
          BY <3>2, <3>3
    <3> QED
      BY <1>2, <2>2, <3>1, <3>4 DEF closeLookup, closeTell
  <2> QED
    BY <2>1, <2>2
<1>3. ASSUME NEW w \in Readers, recvError(w)
      PROVE  recvErrorTcp(w) \/ recvErrorUnix(w)
      BY <1>3 DEF recvError, recvErrorTcp, recvErrorUnix, recvErrorOf
<1>4. CASE Listen
      BY <1>1, <1>2, <1>4 DEF Listen, closeClient, Step
<1>5. ASSUME NEW w \in Readers, Read(w)
      PROVE  Step
      BY <1>2, <1>3, <1>5 DEF Read, closeClient, Step
<1>6. CASE closeClient(App)
      BY <1>2, <1>6 DEF closeClient, Step
<1> QED
  BY <1>4, <1>5, <1>6 DEF Next, Step

LEMMA TypesHold ==
  ASSUME IInv, Next
  PROVE  TypeOK'
<1> USE Cast
<1>1. ASSUME NEW c \in Conn, Connect(c)
      PROVE  TypeOK'
  <2>1. backlog' \in Seq(Conn)
       BY <1>1 DEF IInv, TypeOK, Connect
  <2> QED
    BY <2>1, <1>1 DEF IInv, TypeOK, Connect, peerFrame
<1>2. ASSUME NEW c \in Conn, Send(c)
      PROVE  TypeOK'
  <2>1. sent' \in [Conn -> 0 .. MaxPieces[kind]]
       BY <1>2, ServerAssumption DEF IInv, TypeOK, Send
  <2> QED
    BY <2>1, <1>2 DEF IInv, TypeOK, Send, Raise, peerFrame
<1>3. ASSUME NEW c \in Conn, HangUp(c)
      PROVE  TypeOK'
  <2>1. sent' \in [Conn -> 0 .. MaxPieces[kind]]
       BY <1>3 DEF IInv, TypeOK, HangUp
  <2>2. peer' \in [Conn -> {"new", "up", "shut", "reset"}]
       BY <1>3, ServerAssumption DEF IInv, TypeOK, HangUp
  <2>3. edge' \subseteq watched' /\ lost' \subseteq Conn /\ backlog' = backlog
       BY <1>3 DEF IInv, TypeOK, HangUp, Raise, peerFrame
  <2> QED
    BY <2>1, <2>2, <2>3, <1>3 DEF IInv, TypeOK, HangUp, peerFrame
<1>4. CASE epollWait
  <2>1. Events \subseteq Events_
    <3>1. edge \subseteq FD
          BY DEF IInv, TypeOK
    <3>2. SUFFICES ASSUME NEW x \in Events
                   PROVE  x \in Events_
          OBVIOUS
    <3>3. CASE x = [fd |-> Server, quit |-> FALSE]
          BY <3>3 DEF Events_
    <3>4. CASE \E d \in edge : x = [fd |-> d, quit |-> Gone(sock[d])]
          BY <3>1, <3>4 DEF Events_, Gone
    <3> QED
      BY <3>2, <3>3, <3>4 DEF Events
  <2> QED
    BY <2>1, <1>4 DEF IInv, TypeOK, epollWait, kernelVars, historyVars
<1>5. CASE callConnected
  <2>1. arg[Listener].des \in Conn
       BY <1>5 DEF IInv, ThreadsFit, callConnected
  <2>2. told' \in [Conn -> Seq({"on", "off"})]
       BY <1>5, <2>1 DEF IInv, TypeOK, callConnected
  <2> QED
    BY <2>1, <2>2, <1>5 DEF IInv, TypeOK, callConnected, kernelVars, Return, Goto, Idle
<1>6. CASE endListener
      BY <1>6 DEF IInv, TypeOK, endListener, kernelVars, historyVars, Goto
<1>7. ASSUME NEW e \in batch, handleQuit(e)
      PROVE  TypeOK'
      BY <1>7 DEF IInv, TypeOK, handleQuit, beginClose, EventsHold, Events_, Goto
<1>8. ASSUME NEW e \in batch, NEW c \in Conn, NEW fd \in FD, acceptAt(e, c, fd)
      PROVE  TypeOK'
  <2>1. backlog' \in Seq(Conn)
        BY <1>8, HeadTailProperties DEF IInv, TypeOK, acceptAt
  <2> QED
    BY <2>1, <1>8 DEF IInv, TypeOK, acceptAt, Goto
<1>9. ASSUME NEW e \in batch, pushJob(e)
      PROVE  TypeOK'
  <2>1. e.fd \in FD
       BY <1>9 DEF IInv, TypeOK, Events_, pushJob
  <2>2. jobs' \in Seq([fd : FD, des : Conn])
    <3>1. clients[e.fd] \in Conn \cup {None}
          BY <2>1 DEF IInv, TypeOK
    <3>2. clients[e.fd] # None => [fd |-> e.fd, des |-> clients[e.fd]] \in [fd : FD, des : Conn]
          BY <2>1, <3>1
    <3> QED
      BY <1>9, <3>2, AppendProperties DEF IInv, TypeOK, pushJob
  <2> QED
    BY <2>1, <2>2, <1>9 DEF IInv, TypeOK, pushJob, kernelVars, historyVars
<1>10. ASSUME NEW w \in Readers, takeJob(w)
       PROVE  TypeOK'
  <2>1. Head(jobs) \in [fd : FD, des : Conn] /\ jobs' \in Seq([fd : FD, des : Conn])
       BY <1>10, HeadTailProperties DEF IInv, TypeOK, takeJob
  <2> QED
    BY <2>1, <1>10 DEF IInv, TypeOK, takeJob, kernelVars, historyVars, Goto
<1>11. ASSUME NEW w \in Readers, recvPiece(w)
       PROVE  TypeOK'
  <2>1. Current(w) \in Conn
       BY <1>11 DEF IInv, TypeOK, ThreadsFit, recvPiece, Current
  <2>2. rcvd[Current(w)] + 1 \in 0 .. MaxPieces[kind]
       BY <1>11, <2>1, ServerAssumption DEF IInv, TypeOK, recvPiece, Unread
  <2>3. rcvd' \in [Conn -> 0 .. MaxPieces[kind]] /\ piece' \in [Reader -> (Conn \cup {None}) \X (0 .. MaxPieces[kind])]
       BY <1>11, <2>1, <2>2 DEF IInv, TypeOK, recvPiece
  <2> QED
    BY <2>1, <2>2, <2>3, <1>11 DEF IInv, TypeOK, recvPiece, historyVars, Goto
<1>12. ASSUME NEW w \in Readers, onRecv(w)
       PROVE  TypeOK'
  <2>1. piece[w][1] \in Conn /\ arg[w].des \in Conn
       BY <1>12 DEF IInv, ThreadsFit, PiecesFit, PieceFits, Handing, onRecv
  <2>2. piece[w][2] \in 1 .. MaxPieces[kind]
       BY <1>12, <2>1, ServerAssumption
       DEF IInv, TypeOK, PiecesFit, PieceFits, Handing, onRecv
  <2>3. handed' \in [Conn -> Seq((1 .. MaxPieces[kind]) \X Conn)]
    <3>1. PICK D, c, p : /\ D = (1 .. MaxPieces[kind]) \X Conn /\ c = piece[w][1]
                         /\ p = <<piece[w][2], arg[w].des>>
          OBVIOUS
    <3>2. p \in D /\ c \in Conn
          BY <2>1, <2>2, <3>1
    <3>3. handed \in [Conn -> Seq(D)] /\ handed' = [handed EXCEPT ![c] = Append(@, p)]
          BY <1>12, <3>1 DEF IInv, TypeOK, onRecv
    <3>4. Append(handed[c], p) \in Seq(D)
          BY <3>2, <3>3
    <3>5. handed' \in [Conn -> Seq(D)]
          BY <3>2, <3>3, <3>4
    <3> QED
      BY <3>1, <3>5
  <2>4. piece' \in [Reader -> (Conn \cup {None}) \X (0 .. MaxPieces[kind])]
       BY <1>12, ServerAssumption DEF IInv, TypeOK, onRecv
  <2> QED
    BY <2>1, <2>2, <2>3, <2>4, <1>12 DEF IInv, TypeOK, onRecv, kernelVars, Goto
<1>13. ASSUME NEW w \in Readers, recvNothing(w)
       PROVE  TypeOK'
       BY <1>13 DEF IInv, TypeOK, recvNothing, kernelVars, historyVars, Return, Goto, Idle
<1>14. ASSUME NEW w \in Readers, recvErrorTcp(w)
       PROVE  TypeOK'
  <2>1. Current(w) \in Conn \cup {None} /\ arg[w].fd \in FD
        BY <1>14 DEF IInv, TypeOK, ThreadsFit, recvErrorTcp, recvErrorOf, Current
  <2>2. peer' \in [Conn -> {"new", "up", "shut", "reset"}]
        BY <1>14, <2>1 DEF IInv, TypeOK, recvErrorTcp, recvErrorOf
  <2>3. arg' \in [Thread -> [fd : FD \cup {Server}, des : Conn \cup {None}]]
        BY <1>14, <2>1 DEF IInv, TypeOK, recvErrorTcp, beginClose
  <2> QED
    BY <1>14, <2>2, <2>3 DEF IInv, TypeOK, recvErrorTcp, recvErrorOf, historyVars, Goto,
                             beginClose
<1>23. ASSUME NEW w \in Readers, recvErrorUnix(w)
       PROVE  TypeOK'
  <2>1. Current(w) \in Conn \cup {None} /\ arg[w].fd \in FD
        BY <1>23 DEF IInv, TypeOK, ThreadsFit, recvErrorUnix, recvErrorOf, Current
  <2>2. peer' \in [Conn -> {"new", "up", "shut", "reset"}]
        BY <1>23, <2>1 DEF IInv, TypeOK, recvErrorUnix, recvErrorOf
  <2>3. arg' \in [Thread -> [fd : FD \cup {Server}, des : Conn \cup {None}]]
        BY <1>23, <2>1 DEF IInv, TypeOK, recvErrorUnix, Return, Idle
  <2> QED
    BY <1>23, <2>2, <2>3 DEF IInv, TypeOK, recvErrorUnix, recvErrorOf, historyVars, Goto,
                             Return
<1>15. ASSUME NEW w \in Readers, endReader(w)
       PROVE  TypeOK'
       BY <1>15 DEF IInv, TypeOK, endReader, kernelVars, historyVars, Goto
<1>16. ASSUME NEW t \in Thread, closeNothing(t)
       PROVE  TypeOK'
       BY <1>16 DEF IInv, TypeOK, closeNothing, kernelVars, historyVars, Return, Goto, Idle
<1>22. ASSUME NEW t \in Thread, NEW c \in Conn, closeTell(t, c)
       PROVE  TypeOK'
  <2>1. told' \in [Conn -> Seq({"on", "off"})]
        BY <1>22, AppendProperties DEF IInv, TypeOK, closeTell
  <2>2. arg' \in [Thread -> [fd : FD \cup {Server}, des : Conn \cup {None}]]
        BY <1>22 DEF IInv, TypeOK, closeTell
  <2> QED
    BY <1>22, <2>1, <2>2 DEF IInv, TypeOK, closeTell, kernelVars, Goto
<1>17. ASSUME NEW t \in Thread, closeFd(t)
       PROVE  TypeOK'
       BY <1>17 DEF IInv, TypeOK, closeFd, ThreadsFit, Closing, historyVars, Goto
<1>18. ASSUME NEW t \in Thread, closeErase(t)
       PROVE  TypeOK'
       BY <1>18 DEF IInv, TypeOK, closeErase, ThreadsFit, Closing, kernelVars, historyVars,
                    Return, Goto, Idle
<1>19. ASSUME NEW fd \in FD, appClose(fd)
       PROVE  TypeOK'
       BY <1>19 DEF IInv, TypeOK, appClose, beginClose, historyVars, Goto
<1>20. CASE stopBegin \/ stopRest
       BY <1>20 DEF IInv, TypeOK, stopBegin, stopRest, kernelVars, historyVars, Goto
<1>21. CASE stopClose
       BY <1>21 DEF IInv, TypeOK, stopClose, historyVars, Goto
<1> QED
  BY <1>1, <1>2, <1>3, <1>4, <1>5, <1>6, <1>7, <1>8, <1>9, <1>10, <1>11, <1>12, <1>13,
     <1>14, <1>15, <1>16, <1>17, <1>18, <1>19, <1>20, <1>21, <1>22, <1>23,
     Steps
  DEF Step

\* Where the threads may be, and what they have in hand.
LEMMA ThreadsFitHolds ==
  ASSUME IInv, Next, TypeOK'
  PROVE  ThreadsFit'
<1> USE Cast
<1>1. CASE UNCHANGED <<kind, pc, arg>>
      BY <1>1 DEF IInv, TypeOK, ThreadsFit, Closing, Readers, ReadersEnded
<1>2. CASE callConnected
      BY <1>2 DEF IInv, TypeOK, ThreadsFit, Closing, Readers, ReadersEnded, callConnected,
          kernelVars, Return, Goto, Idle
<1>3. CASE endListener
      BY <1>3 DEF IInv, TypeOK, ThreadsFit, Closing, Readers, ReadersEnded, endListener,
          kernelVars, historyVars, Goto
<1>4. ASSUME NEW e \in batch, handleQuit(e)
      PROVE  ThreadsFit'
      BY <1>4 DEF IInv, TypeOK, ThreadsFit, Closing, Readers, ReadersEnded, handleQuit,
          beginClose, Goto, EventsHold, Events_
<1>5. ASSUME NEW e \in batch, NEW c \in Conn, NEW fd \in FD, acceptAt(e, c, fd)
      PROVE  ThreadsFit'
  <2>1. /\ pc[Listener] = "idle" /\ UNCHANGED kind
        /\ pc' = [pc EXCEPT ![Listener] = "accepted"]
        /\ arg' = [arg EXCEPT ![Listener] = [fd |-> fd, des |-> c]]
        BY <1>5 DEF acceptAt, Goto
  <2>2. ThreadsFit /\ DOMAIN pc = Thread /\ DOMAIN arg = Thread
        BY DEF IInv, TypeOK
  <2> QED
    BY <2>1, <2>2 DEF ThreadsFit, Closing, Readers, ReadersEnded
<1>6. ASSUME NEW w \in Readers, takeJob(w)
      PROVE  ThreadsFit'
  <2>1. /\ pc[w] = "idle" /\ UNCHANGED kind /\ w \in Thread
        /\ pc' = [pc EXCEPT ![w] = "recv"]
        /\ arg' = [arg EXCEPT ![w] = Head(jobs)]
        BY <1>6 DEF takeJob, Goto
  <2>2. ThreadsFit /\ DOMAIN pc = Thread /\ DOMAIN arg = Thread
        BY DEF IInv, TypeOK
  <2>3. Head(jobs).fd \in FD /\ Head(jobs).des \in Conn
    <3>1. jobs \in Seq([fd : FD, des : Conn]) /\ jobs # <<>>
          BY <1>6 DEF takeJob, IInv, TypeOK
    <3>2. Head(jobs) \in [fd : FD, des : Conn]
          BY <3>1, HeadTailProperties
    <3> QED
      BY <3>2
  <2> QED
    BY <2>1, <2>2, <2>3 DEF ThreadsFit, Closing, Readers, ReadersEnded
<1>7. ASSUME NEW w \in Readers, recvPiece(w)
      PROVE  ThreadsFit'
      BY <1>7 DEF IInv, TypeOK, ThreadsFit, Closing, Readers, ReadersEnded, recvPiece,
          historyVars, Goto
<1>8. ASSUME NEW w \in Readers, onRecv(w)
      PROVE  ThreadsFit'
      BY <1>8 DEF IInv, TypeOK, ThreadsFit, Closing, Readers, ReadersEnded, onRecv,
          kernelVars, Goto
<1>9. ASSUME NEW w \in Readers, recvNothing(w)
      PROVE  ThreadsFit'
      BY <1>9 DEF IInv, TypeOK, ThreadsFit, Closing, Readers, ReadersEnded, recvNothing,
          kernelVars, historyVars, Return, Goto, Idle
<1>10. ASSUME NEW w \in Readers, recvErrorTcp(w)
      PROVE  ThreadsFit'
      BY <1>10 DEF IInv, TypeOK, ThreadsFit, Closing, Readers, ReadersEnded, recvErrorTcp,
          recvErrorOf, beginClose, historyVars, Goto
<1>11. ASSUME NEW w \in Readers, recvErrorUnix(w)
      PROVE  ThreadsFit'
      BY <1>11 DEF IInv, TypeOK, ThreadsFit, Closing, Readers, ReadersEnded, recvErrorUnix,
          recvErrorOf, historyVars, Return, Goto, Idle
<1>12. ASSUME NEW w \in Readers, endReader(w)
      PROVE  ThreadsFit'
      BY <1>12 DEF IInv, TypeOK, ThreadsFit, Closing, Readers, ReadersEnded, endReader,
          kernelVars, historyVars, Goto
<1>13. ASSUME NEW t \in Thread, closeNothing(t)
      PROVE  ThreadsFit'
      BY <1>13 DEF IInv, TypeOK, ThreadsFit, Closing, Readers, ReadersEnded, closeNothing,
          kernelVars, historyVars, Return, Goto, Idle
<1>14. ASSUME NEW t \in Thread, NEW c \in Conn, closeTell(t, c)
      PROVE  ThreadsFit'
  <2>1. /\ pc[t] = "lookup" /\ arg[t].fd \in FD /\ UNCHANGED kind
        /\ pc' = [pc EXCEPT ![t] = "close"]
        /\ arg' = [arg EXCEPT ![t] = [fd |-> arg[t].fd, des |-> c]]
        BY <1>14 DEF closeTell, Goto
  <2>2. ThreadsFit /\ DOMAIN pc = Thread /\ DOMAIN arg = Thread
        BY DEF IInv, TypeOK
  <2> QED
    BY <2>1, <2>2 DEF ThreadsFit, Closing, Readers, ReadersEnded
<1>15. ASSUME NEW t \in Thread, closeFd(t)
      PROVE  ThreadsFit'
      BY <1>15 DEF IInv, TypeOK, ThreadsFit, Closing, Readers, ReadersEnded, closeFd,
          historyVars, Goto
<1>16. ASSUME NEW t \in Thread, closeErase(t)
      PROVE  ThreadsFit'
      BY <1>16 DEF IInv, TypeOK, ThreadsFit, Closing, Readers, ReadersEnded, closeErase,
          kernelVars, historyVars, Return, Goto, Idle
<1>17. ASSUME NEW fd \in FD, appClose(fd)
      PROVE  ThreadsFit'
      BY <1>17 DEF IInv, TypeOK, ThreadsFit, Closing, Readers, ReadersEnded, appClose,
          beginClose, historyVars, Goto
<1>18. CASE stopBegin
      BY <1>18 DEF IInv, TypeOK, ThreadsFit, Closing, Readers, ReadersEnded, stopBegin,
          kernelVars, historyVars, Goto
<1>19. CASE stopRest
      BY <1>19 DEF IInv, TypeOK, ThreadsFit, Closing, Readers, ReadersEnded, stopRest,
          kernelVars, historyVars, Goto
<1>20. CASE stopClose
      BY <1>20 DEF IInv, TypeOK, ThreadsFit, Closing, Readers, ReadersEnded, stopClose,
          historyVars, Goto
<1> QED
  BY <1>1, <1>2, <1>3, <1>4, <1>5, <1>6, <1>7, <1>8, <1>9, <1>10, <1>11, <1>12, <1>13,
      <1>14, <1>15, <1>16, <1>17, <1>18, <1>19, <1>20, Steps DEF Step, Connect, peerFrame,
      Send, HangUp, epollWait, historyVars, pushJob, kernelVars

\* What epoll watches and what it reported.
LEMMA EventsHoldHolds ==
  ASSUME IInv, Next, TypeOK'
  PROVE  EventsHold'
<1> USE Cast
<1>1. ASSUME NEW c \in Conn, Connect(c)
      PROVE  EventsHold'
  <2>1. backlog' # <<>>
    <3>1. backlog' = Append(backlog, c) /\ backlog \in Seq(Conn)
          BY <1>1 DEF IInv, TypeOK, Connect
    <3> QED
      BY <3>1, AppendProperties
  <2>2. \A d \in Conn : Gone(d) => peer'[d] = peer[d]
        BY <1>1 DEF IInv, TypeOK, Connect, Gone
  <2>3. \A e \in batch : e.fd # Server => sock[e.fd] \in Conn \cup {None}
        BY DEF IInv, TypeOK, Events_
  <2>4. pc[Listener] = "lookup" => sock[arg[Listener].fd] \in Conn \cup {None}
        BY DEF IInv, TypeOK, ThreadsFit, Closing
  <2>5. UNCHANGED <<kind, sock, watched, batch, pc, arg>>
        BY <1>1 DEF Connect, peerFrame
  <2> QED
    BY <2>1, <2>2, <2>3, <2>4, <2>5 DEF IInv, EventsHold, Gone
<1>2. ASSUME NEW c \in Conn, Send(c)
      PROVE  EventsHold'
      BY <1>2 DEF IInv, TypeOK, EventsHold, ThreadsFit, Closing, Gone, Send, Raise,
          peerFrame
<1>3. ASSUME NEW c \in Conn, HangUp(c)
      PROVE  EventsHold'
      BY <1>3 DEF IInv, TypeOK, EventsHold, ThreadsFit, Closing, Gone, HangUp, Raise,
          peerFrame
<1>4. CASE epollWait
  <2>1. ASSUME NEW x \in Events
        PROVE  \/ x.fd = Server /\ ~x.quit /\ backlog # <<>>
               \/ x.fd \in FD /\ (x.quit => Gone(sock[x.fd])) /\ sock[x.fd] # None
    <3>1. CASE backlog # <<>> /\ x = [fd |-> Server, quit |-> FALSE]
          BY <3>1
    <3>2. CASE \E d \in edge : x = [fd |-> d, quit |-> Gone(sock[d])]
          BY <3>2 DEF IInv, TypeOK, EventsHold
    <3> QED
      BY <3>1, <3>2 DEF Events
  <2> QED
    BY <1>4, <2>1 DEF IInv, TypeOK, EventsHold, Closing, Gone, epollWait, historyVars
<1>5. CASE callConnected
      BY <1>5 DEF IInv, TypeOK, EventsHold, ThreadsFit, Closing, Gone, callConnected,
          kernelVars, Return, Goto, Idle
<1>6. CASE endListener
      BY <1>6 DEF IInv, TypeOK, EventsHold, ThreadsFit, Closing, Gone, endListener,
          kernelVars, historyVars, Goto
<1>7. ASSUME NEW e \in batch, handleQuit(e)
      PROVE  EventsHold'
      BY <1>7 DEF IInv, TypeOK, EventsHold, ThreadsFit, Closing, Gone, handleQuit,
          beginClose, Goto
<1>8. ASSUME NEW e \in batch, NEW c \in Conn, NEW fd \in FD, acceptAt(e, c, fd)
      PROVE  EventsHold'
  <2>1. \A d \in FD : d # fd => sock'[d] = sock[d]
        BY <1>8 DEF IInv, TypeOK, acceptAt
  <2>2. sock'[fd] = c /\ c # None
        BY <1>8 DEF IInv, TypeOK, acceptAt
  <2>3. ASSUME NEW x \in batch', x.fd = Server
        PROVE  FALSE
    <3>1. x \in Events_ /\ e \in Events_ /\ ~x.quit /\ ~e.quit /\ x # e
          BY <1>8, <2>3 DEF IInv, TypeOK, EventsHold, acceptAt
    <3> QED
      BY <1>8, <2>3, <3>1 DEF Events_, acceptAt
  <2> QED
    BY <1>8, <2>1, <2>2, <2>3 DEF IInv, TypeOK, EventsHold, Events_, Closing, Gone, acceptAt, Goto
<1>9. ASSUME NEW e \in batch, pushJob(e)
      PROVE  EventsHold'
      BY <1>9 DEF IInv, TypeOK, EventsHold, ThreadsFit, Closing, Gone, pushJob, kernelVars,
          historyVars
<1>10. ASSUME NEW w \in Readers, takeJob(w)
      PROVE  EventsHold'
      BY <1>10 DEF IInv, TypeOK, EventsHold, ThreadsFit, Closing, Gone, takeJob, kernelVars,
          historyVars, Goto
<1>11. ASSUME NEW w \in Readers, recvPiece(w)
      PROVE  EventsHold'
      BY <1>11 DEF IInv, TypeOK, EventsHold, ThreadsFit, Closing, Gone, recvPiece,
          historyVars, Goto
<1>12. ASSUME NEW w \in Readers, onRecv(w)
      PROVE  EventsHold'
      BY <1>12 DEF IInv, TypeOK, EventsHold, ThreadsFit, Closing, Gone, onRecv, kernelVars,
          Goto
<1>13. ASSUME NEW w \in Readers, recvNothing(w)
      PROVE  EventsHold'
      BY <1>13 DEF IInv, TypeOK, EventsHold, ThreadsFit, Closing, Gone, recvNothing,
          kernelVars, historyVars, Return, Goto, Idle
<1>14. ASSUME NEW w \in Readers, recvErrorTcp(w)
      PROVE  EventsHold'
      BY <1>14 DEF IInv, TypeOK, EventsHold, ThreadsFit, Closing, Gone, recvErrorTcp,
          recvErrorOf, beginClose, historyVars, Goto
<1>15. ASSUME NEW w \in Readers, recvErrorUnix(w)
      PROVE  EventsHold'
      BY <1>15 DEF IInv, TypeOK, EventsHold, ThreadsFit, Closing, Gone, recvErrorUnix,
          recvErrorOf, historyVars, Return, Goto, Idle
<1>16. ASSUME NEW w \in Readers, endReader(w)
      PROVE  EventsHold'
      BY <1>16 DEF IInv, TypeOK, EventsHold, ThreadsFit, Closing, Gone, endReader,
          kernelVars, historyVars, Goto
<1>17. ASSUME NEW t \in Thread, closeNothing(t)
      PROVE  EventsHold'
      BY <1>17 DEF IInv, TypeOK, EventsHold, ThreadsFit, Closing, Gone, closeNothing,
          kernelVars, historyVars, Return, Goto, Idle
<1>18. ASSUME NEW t \in Thread, NEW c \in Conn, closeTell(t, c)
      PROVE  EventsHold'
  <2>1. /\ pc[t] = "lookup" /\ pc' = [pc EXCEPT ![t] = "close"]
        /\ \A x \in Thread \ {t} : arg'[x] = arg[x]
        /\ UNCHANGED <<kind, peer, backlog, sock, watched, batch>>
        BY <1>18 DEF IInv, TypeOK, closeTell, kernelVars, Goto
  <2>2. EventsHold /\ DOMAIN pc = Thread
        BY DEF IInv, TypeOK
  <2> QED
    BY <2>1, <2>2, Cast DEF EventsHold, Closing, Gone
<1>19. ASSUME NEW t \in Thread, closeFd(t)
      PROVE  EventsHold'
  <2>1. watched' = watched \ {arg[t].fd} /\ \A d \in FD : d # arg[t].fd => sock'[d] = sock[d]
        BY <1>19 DEF IInv, TypeOK, closeFd
  <2>2. kind = "unix" => t = Listener
        BY <1>19 DEF IInv, ThreadsFit, Closing, closeFd
  <2>3. /\ pc[t] = "close" /\ pc' = [pc EXCEPT ![t] = "erase"]
        /\ UNCHANGED <<kind, peer, backlog, batch, arg>>
        BY <1>19 DEF closeFd, Goto
  <2>4. kind = "unix" => batch = {} /\ pc'[Listener] = "erase"
        BY <1>19, <2>2, <2>3 DEF IInv, TypeOK, EventsHold, Closing, closeFd
  <2> QED
    BY <2>1, <2>2, <2>3, <2>4 DEF IInv, TypeOK, EventsHold, Closing, Gone
<1>20. ASSUME NEW t \in Thread, closeErase(t)
      PROVE  EventsHold'
      BY <1>20 DEF IInv, TypeOK, EventsHold, ThreadsFit, Closing, Gone, closeErase,
          kernelVars, historyVars, Return, Goto, Idle
<1>21. ASSUME NEW fd \in FD, appClose(fd)
      PROVE  EventsHold'
      BY <1>21 DEF IInv, TypeOK, EventsHold, ThreadsFit, Closing, Gone, appClose,
          beginClose, historyVars, Goto
<1>22. CASE stopBegin
      BY <1>22 DEF IInv, TypeOK, EventsHold, ThreadsFit, Closing, Gone, stopBegin,
          kernelVars, historyVars, Goto
<1>23. CASE stopRest
      BY <1>23 DEF IInv, TypeOK, EventsHold, ThreadsFit, Closing, Gone, stopRest,
          kernelVars, historyVars, Goto
<1>24. CASE stopClose
      BY <1>24 DEF IInv, TypeOK, EventsHold, ThreadsFit, Closing, Gone, stopClose,
          historyVars, Goto
<1> QED
  BY <1>1, <1>2, <1>3, <1>4, <1>5, <1>6, <1>7, <1>8, <1>9, <1>10, <1>11, <1>12, <1>13,
      <1>14, <1>15, <1>16, <1>17, <1>18, <1>19, <1>20, <1>21, <1>22, <1>23, <1>24, Steps DEF
      Step

\* A step that concerns no entry: whoever closes a client goes on closing it, and
\* what the application was told of the connections stays.
SameClosers ==
  \A t \in Thread :
    pc[t] \in {"close", "erase", "accepted"} \/ pc'[t] \in {"close", "erase", "accepted"}
      => pc'[t] = pc[t] /\ arg'[t] = arg[t]
Aside ==
  /\ SameClosers
  /\ UNCHANGED <<kind, backlog, sock, clients, told, raced>>
  /\ \A c \in Conn : (peer'[c] = "new" <=> peer[c] = "new") /\ (Gone(c) => Gone(c)')
  /\ pc'[App] = "stopped" <=> pc[App] = "stopped"

\* The steps that make, close and forget entries.
Core ==
  \/ \E c \in Conn : Connect(c)
  \/ callConnected
  \/ \E e \in batch, c \in Conn, fd \in FD : acceptAt(e, c, fd)
  \/ \E t \in Thread, c \in Conn : closeTell(t, c)
  \/ \E t \in Thread : closeFd(t) \/ closeErase(t)
  \/ stopClose

\* All other steps are aside.
LEMMA AsideOrCore ==
  ASSUME IInv, Next
  PROVE  Aside \/ Core
<1> USE Cast
<1>1. ASSUME NEW c \in Conn, Send(c)
      PROVE  Aside
      BY <1>1 DEF Aside, SameClosers, IInv, TypeOK, ThreadsFit, Gone, Current, Send, Raise,
          peerFrame
<1>2. ASSUME NEW c \in Conn, HangUp(c)
      PROVE  Aside
  <2>1. PICK how \in Ends : peer[c] = "up" /\ peer' = [peer EXCEPT ![c] = how]
        BY <1>2 DEF HangUp
  <2>2. \A d \in Conn : (peer'[d] = "new" <=> peer[d] = "new") /\ (Gone(d) => Gone(d)')
        BY <2>1, ServerAssumption DEF IInv, TypeOK, Gone
  <2> QED
    BY <1>2, <2>2 DEF Aside, SameClosers, HangUp, peerFrame
<1>3. CASE epollWait
      BY <1>3 DEF Aside, SameClosers, IInv, TypeOK, ThreadsFit, Gone, Current, epollWait,
          historyVars
<1>4. CASE endListener
      BY <1>4 DEF Aside, SameClosers, IInv, TypeOK, ThreadsFit, Gone, Current, endListener,
          kernelVars, historyVars, Goto
<1>5. ASSUME NEW e \in batch, handleQuit(e)
      PROVE  Aside
      BY <1>5 DEF Aside, SameClosers, IInv, TypeOK, ThreadsFit, Gone, Current, handleQuit,
          beginClose, Goto
<1>6. ASSUME NEW e \in batch, pushJob(e)
      PROVE  Aside
      BY <1>6 DEF Aside, SameClosers, IInv, TypeOK, ThreadsFit, Gone, Current, pushJob,
          kernelVars, historyVars
<1>7. ASSUME NEW w \in Readers, takeJob(w)
      PROVE  Aside
      BY <1>7 DEF Aside, SameClosers, IInv, TypeOK, ThreadsFit, Gone, Current, takeJob,
          kernelVars, historyVars, Goto
<1>8. ASSUME NEW w \in Readers, recvPiece(w)
      PROVE  Aside
      BY <1>8 DEF Aside, SameClosers, IInv, TypeOK, ThreadsFit, Gone, Current, recvPiece,
          historyVars, Goto
<1>9. ASSUME NEW w \in Readers, onRecv(w)
      PROVE  Aside
      BY <1>9 DEF Aside, SameClosers, IInv, TypeOK, ThreadsFit, Gone, Current, onRecv,
          kernelVars, Goto
<1>10. ASSUME NEW w \in Readers, recvNothing(w)
      PROVE  Aside
      BY <1>10 DEF Aside, SameClosers, IInv, TypeOK, ThreadsFit, Gone, Current, recvNothing,
          kernelVars, historyVars, Return, Goto, Idle
<1>11. ASSUME NEW w \in Readers, recvErrorTcp(w)
      PROVE  Aside
      BY <1>11, SMTT(20) DEF Aside, SameClosers, IInv, TypeOK, ThreadsFit, Gone, Current,
          recvErrorTcp, recvErrorOf, beginClose, historyVars, Goto
<1>12. ASSUME NEW w \in Readers, recvErrorUnix(w)
      PROVE  Aside
  <2>1. /\ pc[w] = "recv" /\ pc' = [pc EXCEPT ![w] = "idle"]
        /\ arg' = [arg EXCEPT ![w] = Idle]
        /\ peer' = IF Current(w) = None THEN peer ELSE [peer EXCEPT ![Current(w)] = "shut"]
        /\ Current(w) # None => peer[Current(w)] = "reset"
        /\ UNCHANGED <<kind, backlog, sock, clients, told, raced>>
        BY <1>12 DEF recvErrorUnix, recvErrorOf, historyVars, Return, Goto
  <2>2. SameClosers
        BY <2>1 DEF IInv, TypeOK, SameClosers
  <2>3. \A c \in Conn : (peer'[c] = "new" <=> peer[c] = "new") /\ (Gone(c) => Gone(c)')
        BY <2>1 DEF IInv, TypeOK, Gone
  <2>4. pc'[App] = "stopped" <=> pc[App] = "stopped"
        BY <2>1 DEF IInv, TypeOK
  <2> QED
    BY <2>1, <2>2, <2>3, <2>4 DEF Aside
<1>13. ASSUME NEW w \in Readers, endReader(w)
      PROVE  Aside
      BY <1>13 DEF Aside, SameClosers, IInv, TypeOK, ThreadsFit, Gone, Current, endReader,
          kernelVars, historyVars, Goto
<1>14. ASSUME NEW t \in Thread, closeNothing(t)
      PROVE  Aside
      BY <1>14 DEF Aside, SameClosers, IInv, TypeOK, ThreadsFit, Gone, Current,
          closeNothing, kernelVars, historyVars, Return, Goto, Idle
<1>15. ASSUME NEW fd \in FD, appClose(fd)
      PROVE  Aside
      BY <1>15 DEF Aside, SameClosers, IInv, TypeOK, ThreadsFit, Gone, Current, appClose,
          beginClose, historyVars, Goto
<1>16. CASE stopBegin
      BY <1>16 DEF Aside, SameClosers, IInv, TypeOK, ThreadsFit, Gone, Current, stopBegin,
          kernelVars, historyVars, Goto
<1>17. CASE stopRest
      BY <1>17 DEF Aside, SameClosers, IInv, TypeOK, ThreadsFit, Gone, Current, stopRest,
          kernelVars, historyVars, Goto
<1> QED
  BY <1>1, <1>2, <1>3, <1>4, <1>5, <1>6, <1>7, <1>8, <1>9, <1>10, <1>11, <1>12, <1>13,
      <1>14, <1>15, <1>16, <1>17, Steps DEF Step, Core

\* A connection that was not accepted is known to nobody.
LEMMA FreshHolds ==
  ASSUME IInv, Next, TypeOK'
  PROVE  Fresh'
<1> USE Cast
<1>1. CASE Aside
  <2>1. UNCHANGED <<backlog, sock, clients, told>>
        BY <1>1 DEF Aside
  <2>2. \A t \in Thread : pc'[t] \in {"close", "erase", "accepted"}
                           => pc'[t] = pc[t] /\ arg'[t] = arg[t]
        BY <1>1 DEF Aside, SameClosers
  <2>3. /\ \A c \in Conn : peer'[c] = "new" <=> peer[c] = "new"
        /\ \A c \in Conn : InBacklog(c)' <=> InBacklog(c)
        BY <1>1, <2>1 DEF Aside, InBacklog
  <2>4. Fresh
        BY DEF IInv
  <2> QED
    BY <2>1, <2>2, <2>3, <2>4 DEF Fresh, Waiting
<1>2. ASSUME NEW c \in Conn, Connect(c)
      PROVE  Fresh'
  <2>1. /\ Len(backlog) \in Nat /\ Len(backlog') = Len(backlog) + 1
        /\ \A i \in 1 .. Len(backlog) : backlog'[i] = backlog[i]
        /\ backlog'[Len(backlog) + 1] = c
    <3>1. backlog' = Append(backlog, c) /\ backlog \in Seq(Conn)
          BY <1>2 DEF IInv, TypeOK, Connect
    <3> QED
      BY <3>1, AppendProperties, LenProperties
  <2>2. \A d \in Conn : InBacklog(d)' <=> d = c \/ InBacklog(d)
        BY <2>1 DEF InBacklog
  <2>3. \A d \in Conn : Waiting(d)' => Waiting(d)
        BY <1>2, <2>2 DEF IInv, TypeOK, Connect, Waiting
  <2>4. \A i, j \in 1 .. Len(backlog') : backlog'[i] = backlog'[j] => i = j
    <3>1. \A i \in 1 .. Len(backlog) : backlog[i] # c
          BY <1>2 DEF IInv, Fresh, Connect, InBacklog
    <3> QED
      BY <2>1, <3>1 DEF IInv, Fresh
  <2>5. peer' = [peer EXCEPT ![c] = "up"] /\ UNCHANGED <<sock, clients, pc, arg, told>>
        BY <1>2 DEF Connect, peerFrame
  <2> QED
    BY <2>2, <2>3, <2>4, <2>5 DEF IInv, TypeOK, Fresh
<1>3. CASE callConnected
      BY <1>3 DEF IInv, TypeOK, Fresh, Waiting, InBacklog, callConnected, kernelVars,
          Return, Goto, Idle
<1>4. ASSUME NEW e \in batch, NEW c \in Conn, NEW fd \in FD, acceptAt(e, c, fd)
      PROVE  Fresh'
  <2>1. /\ Len(backlog) \in Nat /\ Len(backlog) > 0 /\ backlog[1] = c
        /\ Len(backlog') = Len(backlog) - 1
        /\ \A i \in 1 .. Len(backlog') : backlog'[i] = backlog[i + 1]
    <3>1. backlog' = Tail(backlog) /\ backlog \in Seq(Conn) /\ backlog # <<>> /\ c = Head(backlog)
          BY <1>4 DEF IInv, TypeOK, acceptAt
    <3> QED
      BY <3>1, HeadTailProperties, LenProperties, EmptySeq
  <2>2. \A d \in Conn : InBacklog(d)' => InBacklog(d) /\ d # c
    <3>1. ASSUME NEW i \in 1 .. Len(backlog')
          PROVE  i + 1 \in 1 .. Len(backlog) /\ backlog'[i] = backlog[i + 1] /\ backlog[i + 1] # c
          BY <2>1 DEF IInv, Fresh
    <3> QED
      BY <3>1 DEF InBacklog
  <2>3. InBacklog(c) /\ peer[c] # "new"
        BY <2>1 DEF InBacklog, IInv, Fresh
  <2>4. \A d \in Conn : Waiting(d)' => Waiting(d) /\ d # c
        BY <1>4, <2>2, <2>3 DEF acceptAt, Waiting
  <2>5. \A i, j \in 1 .. Len(backlog') : backlog'[i] = backlog'[j] => i = j
    <3>1. \A i \in 1 .. Len(backlog') : i + 1 \in 1 .. Len(backlog) /\ backlog'[i] = backlog[i + 1]
          BY <2>1
    <3> QED
      BY <3>1 DEF IInv, Fresh
  <2>6. /\ \A f \in FD, d \in Conn \ {c} :
              (clients'[f] = d => clients[f] = d) /\ (sock'[f] = d => sock[f] = d)
        /\ \A t \in Thread, d \in Conn \ {c} :
              pc'[t] \in {"close", "erase", "accepted"} /\ arg'[t].des = d
                => pc[t] \in {"close", "erase", "accepted"} /\ arg[t].des = d
        /\ UNCHANGED <<peer, told>>
        BY <1>4 DEF IInv, TypeOK, acceptAt, Goto
  <2>7. \A d \in Conn : InBacklog(d)' => peer'[d] # "new"
        BY <2>2, <2>6 DEF IInv, Fresh
  <2>8. ASSUME NEW d \in Conn, Waiting(d)'
        PROVE  /\ \A f \in FD : clients'[f] # d /\ sock'[f] # d
               /\ \A t \in Thread : pc'[t] \in {"close", "erase", "accepted"} => arg'[t].des # d
               /\ told'[d] = <<>>
    <3>1. Waiting(d) /\ d \in Conn \ {c}
          BY <2>4, <2>8
    <3>2. /\ \A f \in FD : clients[f] # d /\ sock[f] # d
          /\ \A t \in Thread : pc[t] \in {"close", "erase", "accepted"} => arg[t].des # d
          /\ told[d] = <<>>
          BY <3>1 DEF IInv, Fresh
    <3>3. ASSUME NEW f \in FD
          PROVE  clients'[f] # d /\ sock'[f] # d
          BY <2>6, <3>1, <3>2
    <3>4. ASSUME NEW t \in Thread, pc'[t] \in {"close", "erase", "accepted"}, arg'[t].des = d
          PROVE  FALSE
          BY <2>6, <3>1, <3>2, <3>4
    <3> QED
      BY <2>6, <3>2, <3>3, <3>4
  <2> QED
    BY <2>5, <2>7, <2>8 DEF Fresh
<1>5. ASSUME NEW t \in Thread, NEW c \in Conn, closeTell(t, c)
      PROVE  Fresh'
  <2>1. /\ pc[t] = "lookup" /\ clients[arg[t].fd] = c /\ arg[t].fd \in FD
        /\ told' = [told EXCEPT ![c] = Append(@, "off")]
        /\ \A x \in Thread \ {t} : pc'[x] = pc[x] /\ arg'[x] = arg[x]
        /\ arg'[t].des = c
        /\ UNCHANGED <<peer, backlog, sock, clients>>
        BY <1>5 DEF IInv, TypeOK, closeTell, kernelVars, Goto
  <2>2. \A d \in Conn : (Waiting(d)' <=> Waiting(d)) /\ (Waiting(d) => d # c)
        BY <2>1 DEF Waiting, InBacklog, IInv, Fresh
  <2>3. \A d \in Conn : d # c => told'[d] = told[d]
        BY <2>1 DEF IInv, TypeOK
  <2>4. \A d \in Conn : Waiting(d) => \A x \in Thread :
          pc'[x] \in {"close", "erase", "accepted"} => arg'[x].des # d
        BY <2>1, <2>2 DEF IInv, Fresh
  <2> QED
    BY <2>1, <2>2, <2>3, <2>4 DEF IInv, Fresh, InBacklog
<1>6. ASSUME NEW t \in Thread, closeFd(t)
      PROVE  Fresh'
  <2>1. /\ pc[t] = "close" /\ pc' = [pc EXCEPT ![t] = "erase"]
        /\ sock' = [sock EXCEPT ![arg[t].fd] = None]
        /\ UNCHANGED <<peer, backlog, clients, arg, told>>
        BY <1>6 DEF closeFd, historyVars, Goto
  <2>2. /\ \A x \in Thread : pc'[x] \in {"close", "erase", "accepted"}
                              => pc[x] \in {"close", "erase", "accepted"}
        /\ \A fd \in FD : sock'[fd] \in {sock[fd], None}
        BY <2>1 DEF IInv, TypeOK
  <2> QED
    BY <2>1, <2>2 DEF IInv, Fresh, Waiting, InBacklog
<1>7. ASSUME NEW t \in Thread, closeErase(t)
      PROVE  Fresh'
      BY <1>7 DEF IInv, TypeOK, Fresh, Waiting, InBacklog, closeErase, kernelVars,
          historyVars, Return, Goto, Idle
<1>8. CASE stopClose
      BY <1>8 DEF IInv, TypeOK, Fresh, Waiting, InBacklog, stopClose, historyVars, Goto
<1> QED
  BY <1>1, <1>2, <1>3, <1>4, <1>5, <1>6, <1>7, <1>8, AsideOrCore DEF Core

\* What acceptClient takes has been waiting.
LEMMA AcceptWaiting ==
  ASSUME IInv, NEW e \in batch, NEW c \in Conn, NEW fd \in FD, acceptAt(e, c, fd)
  PROVE  Waiting(c)
<1>1. backlog \in Seq(Conn) /\ backlog # <<>> /\ c = Head(backlog)
      BY DEF IInv, TypeOK, acceptAt
<1>2. 1 \in 1 .. Len(backlog) /\ backlog[1] = c
      BY <1>1, EmptySeq, LenProperties
<1> QED
  BY <1>2 DEF Waiting, InBacklog

\* What the invariant says of entries and closers.
LEMMA EntryFacts ==
  ASSUME IInv
  PROVE  /\ clients \in [FD -> Conn \cup {None}] /\ sock \in [FD -> Conn \cup {None}]
         /\ DOMAIN pc = Thread
         /\ \A t \in Thread : pc[t] \in {"close", "erase"} =>
              /\ arg[t].fd \in FD /\ arg[t].des \in Conn
              /\ arg[t] = [fd |-> arg[t].fd, des |-> arg[t].des]
         /\ OneEntry
         /\ \A t \in Thread : CloserKnows(t)
         /\ pc[App] # "stopped" => \A c \in Conn \ raced, fd \in FD : EntryFits(c, fd)
<1>1. \A t \in Thread : pc[t] \in {"close", "erase"} =>
        /\ arg[t].fd \in FD /\ arg[t].des \in Conn
        /\ arg[t] = [fd |-> arg[t].fd, des |-> arg[t].des]
      BY DEF IInv, TypeOK, ThreadsFit, Closing
<1> QED
  BY <1>1 DEF IInv, TypeOK, Entries

\* The entries, their descriptors and the threads that close them.
LEMMA EntriesHolds ==
  ASSUME IInv, Next, TypeOK'
  PROVE  Entries'
<1> USE Cast
<1>1. CASE Aside
  <2>1. OneEntry'
        BY <1>1, EntryFacts DEF Aside, SameClosers, OneEntry
  <2>2. ASSUME NEW x \in Thread
        PROVE  CloserKnows(x)'
        BY <1>1, EntryFacts DEF Aside, SameClosers, OneEntry, CloserKnows
  <2>3. ASSUME NEW d \in Conn \ raced', NEW g \in FD, pc'[App] # "stopped"
        PROVE  EntryFits(d, g)'
        BY <1>1, <2>3, EntryFacts DEF Aside, SameClosers, EntryFits, Erased, CloserKnows
  <2> QED
    BY <1>1, <2>1, <2>2, <2>3 DEF Aside, IInv, Entries
<1>2. ASSUME NEW c \in Conn, Connect(c)
      PROVE  Entries'
      BY <1>2 DEF IInv, TypeOK, Entries, OneEntry, CloserKnows, EntryFits, Erased, Connect,
          peerFrame
<1>3. CASE callConnected
      BY <1>3 DEF IInv, TypeOK, Entries, OneEntry, CloserKnows, EntryFits, Erased,
          callConnected, kernelVars, Return, Goto, Idle
<1>4. ASSUME NEW e \in batch, NEW c \in Conn, NEW fd \in FD, acceptAt(e, c, fd)
      PROVE  Entries'
  <2>1. /\ \A f \in FD : clients[f] # c /\ sock[f] # c
        /\ \A t \in Thread : pc[t] \in {"close", "erase"} => arg[t].des # c
        BY <1>4, AcceptWaiting DEF IInv, Fresh
  <2>2. /\ clients' = [clients EXCEPT ![fd] = c] /\ sock' = [sock EXCEPT ![fd] = c]
        /\ raced \subseteq raced' /\ raced' \subseteq raced \cup {c}
        /\ \A t \in Thread : pc[t] \in {"close", "erase"} /\ arg[t].fd = fd => c \in raced'
        /\ \A t \in Thread : pc[t] \in {"close", "erase"} \/ pc'[t] \in {"close", "erase"}
                               => pc'[t] = pc[t] /\ arg'[t] = arg[t]
        /\ kind' = kind /\ (pc'[App] = "stopped" <=> pc[App] = "stopped")
        BY <1>4 DEF IInv, TypeOK, acceptAt, Goto
  <2>3. kind = "unix" => raced' = {}
        BY <1>4 DEF IInv, Entries, ThreadsFit, Closing, acceptAt

  <2>4. OneEntry'
        BY <2>1, <2>2, <2>3, EntryFacts DEF OneEntry
  <2>5. ASSUME NEW x \in Thread
        PROVE  CloserKnows(x)'
        BY <2>1, <2>2, <2>3, EntryFacts DEF OneEntry, CloserKnows
  <2>6. ASSUME NEW d \in Conn \ raced', NEW g \in FD, pc'[App] # "stopped"
        PROVE  EntryFits(d, g)'
        BY <2>1, <2>2, <2>3, <2>6, EntryFacts DEF EntryFits, Erased, CloserKnows
  <2> QED
    BY <2>1, <2>2, <2>3, <2>4, <2>5, <2>6 DEF IInv, Entries
<1>5. ASSUME NEW t \in Thread, NEW c \in Conn, closeTell(t, c)
      PROVE  Entries'
  <2>1. /\ arg[t].fd \in FD /\ clients[arg[t].fd] = c
        /\ pc[t] = "lookup" /\ pc' = [pc EXCEPT ![t] = "close"]
        /\ arg'[t].fd = arg[t].fd /\ arg'[t].des = c
        /\ \A x \in Thread \ {t} : arg'[x] = arg[x]
        /\ raced' = IF Closers(c) # {} THEN raced \cup {c} ELSE raced
        /\ UNCHANGED <<kind, sock, clients>>
        BY <1>5 DEF IInv, TypeOK, closeTell, kernelVars, Goto
  <2>2. kind = "unix" => Closers(c) = {}
        BY <2>1 DEF IInv, ThreadsFit, Closing, Closers
  <2>3. /\ c \notin raced' => \A x \in Thread : pc[x] \in {"close", "erase"} => arg[x].des # c
        /\ raced \subseteq raced' /\ raced' \subseteq raced \cup {c}
        BY <2>1 DEF Closers

  <2>4. OneEntry'
        BY <2>1, <2>2, <2>3, EntryFacts DEF OneEntry
  <2>5. ASSUME NEW x \in Thread
        PROVE  CloserKnows(x)'
        BY <2>1, <2>2, <2>3, EntryFacts DEF OneEntry, CloserKnows
  <2>6. ASSUME NEW d \in Conn \ raced', NEW g \in FD, pc'[App] # "stopped"
        PROVE  EntryFits(d, g)'
        BY <2>1, <2>2, <2>3, <2>6, EntryFacts DEF EntryFits, Erased, CloserKnows
  <2> QED
    BY <2>1, <2>2, <2>3, <2>4, <2>5, <2>6 DEF IInv, Entries
<1>6. ASSUME NEW t \in Thread, closeFd(t)
      PROVE  Entries'
  <2>1. /\ arg[t].fd \in FD /\ arg[t].des \in Conn
        /\ arg[t] = [fd |-> arg[t].fd, des |-> arg[t].des]
        /\ pc[t] = "close" /\ pc' = [pc EXCEPT ![t] = "erase"]
        /\ sock' = [sock EXCEPT ![arg[t].fd] = None]
        /\ UNCHANGED <<kind, arg, clients, raced>>
        BY <1>6 DEF IInv, TypeOK, ThreadsFit, Closing, closeFd, historyVars, Goto

  <2>2. OneEntry'
        BY <2>1, EntryFacts DEF OneEntry
  <2>3. ASSUME NEW x \in Thread
        PROVE  CloserKnows(x)'
        BY <2>1, EntryFacts DEF OneEntry, CloserKnows
  <2>4. ASSUME NEW d \in Conn \ raced', NEW g \in FD, pc'[App] # "stopped"
        PROVE  EntryFits(d, g)'
        BY <2>1, <2>4, EntryFacts DEF EntryFits, Erased, CloserKnows
  <2> QED
    BY <2>1, <2>2, <2>3, <2>4 DEF IInv, Entries
<1>7. ASSUME NEW t \in Thread, closeErase(t)
      PROVE  Entries'
  <2>1. /\ arg[t].fd \in FD /\ arg[t].des \in Conn
        /\ arg[t] = [fd |-> arg[t].fd, des |-> arg[t].des]
        /\ pc[t] = "erase" /\ pc' = [pc EXCEPT ![t] = "idle"]
        /\ clients' = [clients EXCEPT ![arg[t].fd] = None]
        /\ \A x \in Thread \ {t} : arg'[x] = arg[x]
        /\ UNCHANGED <<kind, sock, raced>>
        BY <1>7 DEF IInv, TypeOK, ThreadsFit, Closing, closeErase, kernelVars, historyVars,
                    Return, Goto

  <2>2. OneEntry'
        BY <2>1, EntryFacts DEF OneEntry
  <2>3. ASSUME NEW x \in Thread
        PROVE  CloserKnows(x)'
    <3>1. CASE x = t
          BY <2>1, <3>1, EntryFacts DEF CloserKnows
    <3>2. CASE x # t
      <4>1. pc'[x] = pc[x] /\ arg'[x] = arg[x]
            BY <2>1, <3>2, EntryFacts
      <4>2. \A g \in FD : clients'[g] \in {None, clients[g]}
            BY <2>1, EntryFacts
      <4>3. CASE pc[x] \in {"close", "erase"}
        <5>1. /\ arg[x].fd \in FD /\ arg[x].des \in Conn
              /\ clients[arg[x].fd] \notin raced \cup {None} => arg[x].des = clients[arg[x].fd]
              /\ arg[x].des \notin raced =>
                   \A g \in FD : clients[g] = arg[x].des => arg[x].fd = g
              BY <4>3, EntryFacts DEF CloserKnows
        <5>2. clients'[arg[x].fd] \notin raced' \cup {None} => arg[x].des = clients'[arg[x].fd]
              BY <2>1, <4>2, <5>1
        <5>3. arg[x].des \notin raced' =>
                \A g \in FD : clients'[g] = arg[x].des => arg[x].fd = g
              BY <2>1, <4>2, <5>1
        <5> QED
          BY <4>1, <5>2, <5>3 DEF CloserKnows
      <4> QED
        BY <4>1, <4>3 DEF CloserKnows
    <3> QED
      BY <3>1, <3>2
  <2>4. ASSUME NEW d \in Conn \ raced', NEW g \in FD, pc'[App] # "stopped"
        PROVE  EntryFits(d, g)'
        BY <2>1, <2>4, EntryFacts DEF EntryFits, Erased, CloserKnows
  <2> QED
    BY <2>1, <2>2, <2>3, <2>4 DEF IInv, Entries
<1>8. CASE stopClose
      BY <1>8 DEF IInv, TypeOK, Entries, OneEntry, CloserKnows, EntryFits, Erased,
          stopClose, historyVars, Goto
<1> QED
  BY <1>1, <1>2, <1>3, <1>4, <1>5, <1>6, <1>7, <1>8, AsideOrCore DEF Core

\* One more call of onConnectionChanged.
LEMMA OffAppend ==
  ASSUME NEW s \in Seq({"on", "off"}), NEW x \in {"on", "off"}
  PROVE  /\ HasOff(Append(s, x)) <=> x = "off" \/ HasOff(s)
         /\ OneOff(s) /\ (x = "on" \/ ~HasOff(s)) => OneOff(Append(s, x))
<1>1. /\ Len(s) \in Nat /\ Len(Append(s, x)) = Len(s) + 1
      /\ \A i \in 1 .. Len(s) : Append(s, x)[i] = s[i]
      /\ Append(s, x)[Len(s) + 1] = x
      BY AppendProperties, LenProperties
<1> QED
  BY <1>1 DEF HasOff, OneOff

\* What the invariant says of the calls and the closers.
LEMMA ToldFacts ==
  ASSUME IInv
  PROVE  /\ told \in [Conn -> Seq({"on", "off"})]
         /\ \A c \in Conn : ToldOf(c)
BY DEF IInv, TypeOK, Told

\* Ends are told by closers, once, and before the descriptor is closed.
LEMMA ToldHolds ==
  ASSUME IInv, Next, TypeOK'
  PROVE  Told'
<1> USE Cast
<1>1. CASE Aside
  <2>1. SUFFICES ASSUME NEW d \in Conn
                 PROVE  ToldOf(d)'
        BY DEF Told
  <2>2. Waiting(d)' <=> Waiting(d)
        BY <1>1 DEF Aside, Waiting, InBacklog

  <2>3. Closers(d)' = Closers(d)
        BY <1>1 DEF Aside, SameClosers, Closers
  <2> QED
    BY <1>1, <2>2, <2>3, ToldFacts DEF ToldOf, OffTold, DescriptorsOf, Aside
<1>2. ASSUME NEW c \in Conn, Connect(c)
      PROVE  Told'
  <2>1. SUFFICES ASSUME NEW d \in Conn
                 PROVE  ToldOf(d)'
        BY DEF Told
  <2>2. Waiting(d) => Waiting(d)'
    <3>1. /\ Len(backlog) \in Nat /\ Len(backlog') = Len(backlog) + 1
          /\ \A i \in 1 .. Len(backlog) : backlog'[i] = backlog[i]
          /\ backlog'[Len(backlog) + 1] = c
      <4>1. backlog' = Append(backlog, c) /\ backlog \in Seq(Conn)
            BY <1>2 DEF IInv, TypeOK, Connect
      <4> QED
        BY <4>1, AppendProperties, LenProperties
    <3>2. InBacklog(d) => InBacklog(d)'
          BY <3>1 DEF InBacklog
    <3>3. peer'[d] = peer[d] \/ d = c
          BY <1>2 DEF IInv, TypeOK, Connect
    <3>4. InBacklog(c)'
      <4>1. Len(backlog) + 1 \in 1 .. Len(backlog')
            BY <3>1
      <4> QED
        BY <3>1, <4>1 DEF InBacklog
    <3> QED
      BY <3>2, <3>3, <3>4 DEF Waiting
  <2>3. UNCHANGED <<sock, clients, pc, arg, told, raced>>
        BY <1>2 DEF Connect, peerFrame

  <2> QED
    BY <2>2, <2>3, ToldFacts, EntryFacts DEF ToldOf, OffTold, Closers, DescriptorsOf
<1>3. CASE callConnected
  <2>1. SUFFICES ASSUME NEW d \in Conn
                 PROVE  ToldOf(d)'
        BY DEF Told
  <2>2. pc[Listener] = "accepted" /\ arg[Listener].des \in Conn
        BY <1>3 DEF IInv, ThreadsFit, callConnected
  <2>3. /\ OffTold(d)' <=> OffTold(d)
        /\ OneOff(told[d]) => OneOff(told'[d])
    <3>1. told'[d] = told[d] \/ told'[d] = Append(told[d], "on")
          BY <1>3, <2>2, ToldFacts DEF callConnected
    <3>2. told[d] \in Seq({"on", "off"}) /\ "on" # "off"
          BY ToldFacts
    <3>3. /\ HasOff(Append(told[d], "on")) <=> HasOff(told[d])
          /\ OneOff(told[d]) => OneOff(Append(told[d], "on"))
          BY <3>2, OffAppend
    <3> QED
      BY <3>1, <3>3 DEF OffTold
  <2>4. /\ pc' = [pc EXCEPT ![Listener] = "idle"]
        /\ \A x \in Thread \ {Listener} : arg'[x] = arg[x]
        /\ UNCHANGED <<peer, backlog, sock, clients, raced>>
        BY <1>3 DEF IInv, TypeOK, callConnected, kernelVars, Return, Goto
  <2>5. Closers(d)' = Closers(d)
        BY <2>2, <2>4, EntryFacts DEF Closers
  <2>6. Waiting(d)' <=> Waiting(d)
        BY <2>4 DEF Waiting, InBacklog
  <2>7. pc'[App] = pc[App]
        BY <2>4, EntryFacts
  <2> QED
    BY <2>3, <2>4, <2>5, <2>6, <2>7, ToldFacts DEF ToldOf, DescriptorsOf
<1>4. ASSUME NEW e \in batch, NEW c \in Conn, NEW fd \in FD, acceptAt(e, c, fd)
      PROVE  Told'
  <2>1. SUFFICES ASSUME NEW d \in Conn
                 PROVE  ToldOf(d)'
        BY DEF Told
  <2>2. Waiting(d) /\ d # c => Waiting(d)'
    <3>1. /\ Len(backlog) \in Nat /\ Len(backlog) > 0 /\ backlog[1] = c
          /\ Len(backlog') = Len(backlog) - 1
          /\ \A i \in 1 .. Len(backlog') : backlog'[i] = backlog[i + 1]
      <4>1. backlog' = Tail(backlog) /\ backlog \in Seq(Conn) /\ backlog # <<>> /\ c = Head(backlog)
            BY <1>4 DEF IInv, TypeOK, acceptAt
      <4> QED
        BY <4>1, HeadTailProperties, LenProperties, EmptySeq
    <3>2. ASSUME NEW i \in 1 .. Len(backlog), backlog[i] = d, d # c
          PROVE  InBacklog(d)'
      <4>1. i - 1 \in 1 .. Len(backlog') /\ backlog'[i - 1] = d
            BY <3>1, <3>2
      <4> QED
        BY <4>1 DEF InBacklog
    <3> QED
      BY <1>4, <3>2 DEF acceptAt, Waiting, InBacklog
  <2>3. /\ told[c] = <<>>
        /\ \A t \in Thread : pc[t] \in {"close", "erase"} => arg[t].des # c
        BY <1>4, AcceptWaiting DEF IInv, Fresh
  <2>4. ~OffTold(c) /\ OneOff(told[c])
        BY <2>3 DEF OffTold, HasOff, OneOff
  <2>5. /\ sock[fd] = None
        /\ clients' = [clients EXCEPT ![fd] = c] /\ sock' = [sock EXCEPT ![fd] = c]
        /\ \A t \in Thread : pc[t] \in {"close", "erase"} \/ pc'[t] \in {"close", "erase"}
                               => pc'[t] = pc[t] /\ arg'[t] = arg[t]
        /\ raced \subseteq raced' /\ (pc'[App] = "stopped" <=> pc[App] = "stopped")
        /\ told' = told
        BY <1>4, SMTT(20) DEF IInv, TypeOK, acceptAt, Goto
  <2>6. Closers(d)' = Closers(d)
        BY <2>5 DEF Closers
  <2>7. CASE d = c
    <3>1. Closers(c) = {}
          BY <2>3 DEF Closers
    <3>2. DescriptorsOf(c)' # {}
          BY <2>5, EntryFacts DEF DescriptorsOf
    <3> QED
      BY <2>4, <2>5, <2>6, <2>7, <3>1, <3>2 DEF ToldOf, OffTold
  <2>8. CASE d # c
    <3>1. /\ DescriptorsOf(d) # {} => DescriptorsOf(d)' # {}
          /\ \A f \in FD : clients'[f] = d => clients[f] = d
          BY <2>5, <2>8, EntryFacts DEF DescriptorsOf
    <3> QED
      BY <2>2, <2>5, <2>6, <2>8, <3>1, ToldFacts DEF ToldOf, OffTold
  <2> QED
    BY <2>7, <2>8
<1>5. ASSUME NEW t \in Thread, NEW c \in Conn, closeTell(t, c)
      PROVE  Told'
  <2>1. SUFFICES ASSUME NEW d \in Conn
                 PROVE  ToldOf(d)'
        BY DEF Told
  <2>2. /\ arg[t].fd \in FD /\ clients[arg[t].fd] = c
        /\ pc[t] = "lookup" /\ pc' = [pc EXCEPT ![t] = "close"]
        /\ arg'[t].des = c
        /\ \A x \in Thread \ {t} : arg'[x] = arg[x]
        /\ raced' = IF Closers(c) # {} THEN raced \cup {c} ELSE raced
        /\ told' = [told EXCEPT ![c] = Append(@, "off")]
        /\ UNCHANGED <<peer, backlog, sock, clients>>
        BY <1>5 DEF IInv, TypeOK, closeTell, kernelVars, Goto
  <2>3. Waiting(d)' <=> Waiting(d)
        BY <2>2 DEF Waiting, InBacklog
  <2>4. pc'[App] = "stopped" <=> pc[App] = "stopped"
        BY <2>2, EntryFacts
  <2>5. CASE d = c
    <3>1. OffTold(c)' /\ (OneOff(told[c]) /\ ~OffTold(c) => OneOff(told'[c]))
      <4>1. told'[c] = Append(told[c], "off") /\ told[c] \in Seq({"on", "off"})
            BY <2>2, ToldFacts
      <4> QED
        BY <4>1, OffAppend DEF OffTold
    <3>2. Closers(c)' # {}
          BY <2>2, EntryFacts DEF Closers
    <3>3. c \notin raced' => c \notin raced /\ Closers(c) = {}
          BY <2>2
    <3>4. c \notin raced' => OneOff(told'[c])
          BY <2>2, <3>1, <3>3, ToldFacts DEF ToldOf
    <3> QED
      BY <2>5, <3>1, <3>2, <3>4 DEF ToldOf
  <2>6. CASE d # c
    <3>1. Closers(d)' = Closers(d)
          BY <2>2, <2>6, EntryFacts DEF Closers
    <3>2. told'[d] = told[d] /\ (d \notin raced' => d \notin raced)
          BY <2>2, <2>6, ToldFacts
    <3> QED
      BY <2>2, <2>3, <2>4, <3>1, <3>2, ToldFacts DEF ToldOf, OffTold, DescriptorsOf
  <2> QED
    BY <2>5, <2>6
<1>6. ASSUME NEW t \in Thread, closeFd(t)
      PROVE  Told'
  <2>1. SUFFICES ASSUME NEW d \in Conn
                 PROVE  ToldOf(d)'
        BY DEF Told
  <2>2. /\ arg[t].fd \in FD /\ pc[t] = "close" /\ pc' = [pc EXCEPT ![t] = "erase"]
        /\ sock' = [sock EXCEPT ![arg[t].fd] = None]
        /\ UNCHANGED <<peer, backlog, arg, clients, raced, told>>
        BY <1>6 DEF IInv, TypeOK, ThreadsFit, Closing, closeFd, historyVars, Goto
  <2>3. Closers(d)' = Closers(d)
        BY <2>2, EntryFacts DEF Closers
  <2>4. Waiting(d)' <=> Waiting(d)
        BY <2>2 DEF Waiting, InBacklog
  <2>5. pc'[App] = "stopped" <=> pc[App] = "stopped"
        BY <2>2, EntryFacts
  <2>6. d \notin raced /\ pc[App] # "stopped" /\ DescriptorsOf(d) # {} =>
          DescriptorsOf(d)' # {} \/ OffTold(d)
    <3>1. CASE sock[arg[t].fd] = d /\ d \notin raced /\ pc[App] # "stopped"
      <4>1. clients[arg[t].fd] = d
            BY <2>2, <3>1, EntryFacts DEF EntryFits
      <4>2. t \in Closers(d)
            BY <2>2, <3>1, <4>1, EntryFacts DEF CloserKnows, Closers
      <4> QED
        BY <4>2, ToldFacts DEF ToldOf
    <3>2. CASE sock[arg[t].fd] # d
          BY <2>2, <3>2, EntryFacts DEF DescriptorsOf
    <3> QED
      BY <3>1, <3>2
  <2> QED
    BY <2>2, <2>3, <2>4, <2>5, <2>6, ToldFacts DEF ToldOf, OffTold
<1>7. ASSUME NEW t \in Thread, closeErase(t)
      PROVE  Told'
  <2>1. SUFFICES ASSUME NEW d \in Conn
                 PROVE  ToldOf(d)'
        BY DEF Told
  <2>2. /\ arg[t].fd \in FD /\ pc[t] = "erase" /\ pc' = [pc EXCEPT ![t] = "idle"]
        /\ clients' = [clients EXCEPT ![arg[t].fd] = None]
        /\ \A x \in Thread \ {t} : arg'[x] = arg[x]
        /\ UNCHANGED <<peer, backlog, sock, raced, told>>
        BY <1>7 DEF IInv, TypeOK, ThreadsFit, Closing, closeErase, kernelVars, historyVars,
                    Return, Goto
  <2>3. Closers(d)' = Closers(d) \ {t}
        BY <2>2, EntryFacts DEF Closers
  <2>4. Waiting(d)' <=> Waiting(d)
        BY <2>2 DEF Waiting, InBacklog
  <2>5. pc'[App] = "stopped" <=> pc[App] = "stopped"
        BY <2>2, EntryFacts
  <2>6. ASSUME NEW f \in FD, clients'[f] = d, d \notin raced, OffTold(d)
        PROVE  Closers(d)' # {}
    <3>1. f # arg[t].fd /\ clients[f] = d
          BY <2>2, <2>6, EntryFacts
    <3>2. Closers(d) # {}
          BY <2>6, <3>1, ToldFacts DEF ToldOf
    <3>3. t \notin Closers(d)
          BY <2>2, <2>6, <3>1, EntryFacts DEF CloserKnows, Closers
    <3> QED
      BY <2>3, <3>2, <3>3
  <2> QED
    BY <2>2, <2>3, <2>4, <2>5, <2>6, ToldFacts DEF ToldOf, OffTold, DescriptorsOf
<1>8. CASE stopClose
  <2>1. SUFFICES ASSUME NEW d \in Conn
                 PROVE  ToldOf(d)'
        BY DEF Told
  <2>2. /\ pc' = [pc EXCEPT ![App] = "stopped"] /\ pc[App] = "joinRest"
        /\ UNCHANGED <<arg, clients, raced, told>>
        BY <1>8 DEF stopClose, historyVars, Goto
  <2>3. Closers(d)' = Closers(d) /\ pc'[App] = "stopped"
        BY <2>2, EntryFacts DEF Closers
  <2> QED
    BY <2>2, <2>3, ToldFacts DEF ToldOf, OffTold
<1> QED
  BY <1>1, <1>2, <1>3, <1>4, <1>5, <1>6, <1>7, <1>8, AsideOrCore DEF Core

\* The three histories of a connection of the Unix server are three.
LEMMA Histories ==
  /\ <<"on">> # <<>> /\ <<"on", "off">> # <<>> /\ <<"on">> # <<"on", "off">>
  /\ Append(<<>>, "on") = <<"on">> /\ Append(<<"on">>, "off") = <<"on", "off">>
  /\ HasOff(<<"on", "off">>) /\ ~HasOff(<<"on">>) /\ ~HasOff(<<>>)
<1>1. Len(<<>>) = 0 /\ Len(<<"on">>) = 1 /\ Len(<<"on", "off">>) = 2
      OBVIOUS
<1>2. <<"on">> # <<>> /\ <<"on", "off">> # <<>> /\ <<"on">> # <<"on", "off">>
      BY <1>1
<1>3. Append(<<>>, "on") = <<"on">> /\ Append(<<"on">>, "off") = <<"on", "off">>
  <2>1. <<>> \in Seq({"on", "off"}) /\ <<"on">> \in Seq({"on", "off"})
        /\ <<"on", "off">> \in Seq({"on", "off"})
        OBVIOUS
  <2>2. /\ Append(<<>>, "on") \in Seq({"on", "off"}) /\ Len(Append(<<>>, "on")) = 1
        /\ Append(<<>>, "on")[1] = "on"
        BY <1>1, <2>1, AppendProperties
  <2>3. /\ Append(<<"on">>, "off") \in Seq({"on", "off"}) /\ Len(Append(<<"on">>, "off")) = 2
        /\ Append(<<"on">>, "off")[1] = "on" /\ Append(<<"on">>, "off")[2] = "off"
        BY <1>1, <2>1, AppendProperties
  <2>4. Append(<<>>, "on") = <<"on">>
        BY <1>1, <2>1, <2>2, SeqEqual
  <2>5. Append(<<"on">>, "off") = <<"on", "off">>
    <3>1. ASSUME NEW i \in 1 .. 2
          PROVE  Append(<<"on">>, "off")[i] = <<"on", "off">>[i]
      <4>1. i = 1 \/ i = 2
            OBVIOUS
      <4> QED
        BY <2>3, <4>1
    <3> QED
      BY <1>1, <2>1, <2>3, <3>1, SeqEqual
  <2> QED
    BY <2>4, <2>5
<1>4. HasOff(<<"on", "off">>) /\ ~HasOff(<<"on">>) /\ ~HasOff(<<>>)
      BY <1>1 DEF HasOff
<1> QED
  BY <1>2, <1>3, <1>4

\* The calls of the Unix server, in their order.
LEMMA UnixToldHolds ==
  ASSUME IInv, Next, TypeOK'
  PROVE  UnixTold'
<1> USE Cast
<1>1. CASE Aside
  <2>1. SUFFICES ASSUME kind = "unix", NEW d \in Conn
                 PROVE  UnixToldOf(d)'
        BY <1>1 DEF UnixTold, Aside
  <2>2. UnixToldOf(d)
        BY <2>1 DEF IInv, UnixTold
  <2>3. (Announced(d)' <=> Announced(d)) /\ UNCHANGED <<told, clients>> /\ (Gone(d) => Gone(d)')
        BY <1>1 DEF Aside, SameClosers, Announced
  <2> QED
    BY <2>2, <2>3 DEF UnixToldOf, Announced
<1>2. ASSUME NEW c \in Conn, Connect(c)
      PROVE  UnixTold'
  <2>1. SUFFICES ASSUME kind = "unix", NEW d \in Conn
                 PROVE  UnixToldOf(d)'
        BY <1>2 DEF UnixTold, Connect, peerFrame
  <2>2. UnixToldOf(d)
        BY <2>1 DEF IInv, UnixTold
  <2>3. UNCHANGED <<told, clients, pc, arg>> /\ (Gone(d) => Gone(d)')
        BY <1>2 DEF IInv, TypeOK, Connect, peerFrame, Gone
  <2> QED
    BY <2>2, <2>3 DEF UnixToldOf, Announced
<1>3. CASE callConnected
  <2>1. SUFFICES ASSUME kind = "unix", NEW d \in Conn
                 PROVE  UnixToldOf(d)'
        BY <1>3 DEF UnixTold, callConnected
  <2>2. UnixToldOf(d)
        BY <2>1 DEF IInv, UnixTold
  <2>3. /\ UNCHANGED <<clients, peer>> /\ ~Announced(d)'
        /\ told' = [told EXCEPT ![arg[Listener].des] = Append(@, "on")]
        /\ pc[Listener] = "accepted" /\ arg[Listener].des \in Conn
        BY <1>3 DEF IInv, TypeOK, ThreadsFit, callConnected, kernelVars, Return, Goto, Announced
  <2>4. Announced(d) => told'[d] = <<"on">>
        BY <2>2, <2>3, ToldFacts, Histories DEF UnixToldOf, Announced
  <2>5. ~Announced(d) => told'[d] = told[d]
        BY <2>3, ToldFacts DEF Announced
  <2> QED
    BY <2>2, <2>3, <2>4, <2>5, Histories DEF UnixToldOf, Gone
<1>4. ASSUME NEW e \in batch, NEW c \in Conn, NEW fd \in FD, acceptAt(e, c, fd)
      PROVE  UnixTold'
  <2>1. SUFFICES ASSUME kind = "unix", NEW d \in Conn
                 PROVE  UnixToldOf(d)'
        BY <1>4 DEF UnixTold, acceptAt
  <2>2. UnixToldOf(d)
        BY <2>1 DEF IInv, UnixTold
  <2>3. /\ told' = told /\ told[c] = <<>> /\ ~Announced(d)
        /\ peer' = peer /\ (Announced(d)' <=> d = c)
        /\ clients' = [clients EXCEPT ![fd] = c]
    <3>1. told[c] = <<>>
          BY <1>4, AcceptWaiting DEF IInv, Fresh
    <3>2. pc[Listener] = "idle" /\ pc'[Listener] = "accepted" /\ arg'[Listener].des = c
          BY <1>4 DEF IInv, TypeOK, acceptAt, Goto
    <3> QED
      BY <1>4, <3>1, <3>2 DEF acceptAt, Announced
  <2>4. \A f \in FD : clients'[f] = d => clients[f] = d \/ d = c
        BY <2>3, EntryFacts
  <2> QED
    BY <2>2, <2>3, <2>4 DEF UnixToldOf, Gone
<1>5. ASSUME NEW t \in Thread, NEW c \in Conn, closeTell(t, c)
      PROVE  UnixTold'
  <2>1. SUFFICES ASSUME kind = "unix", NEW d \in Conn
                 PROVE  UnixToldOf(d)'
        BY <1>5 DEF UnixTold, closeTell, kernelVars
  <2>2. UnixToldOf(d)
        BY <2>1 DEF IInv, UnixTold
  <2>3. t = Listener
        BY <1>5, <2>1 DEF IInv, ThreadsFit, Closing, closeTell
  <2>4. /\ pc[Listener] = "lookup" /\ arg[Listener].fd \in FD /\ clients[arg[Listener].fd] = c
        /\ told' = [told EXCEPT ![c] = Append(@, "off")]
        /\ ~Announced(d) /\ ~Announced(d)' /\ UNCHANGED <<clients, peer>>
        BY <1>5, <2>3 DEF IInv, TypeOK, closeTell, kernelVars, Goto, Announced
  <2>5. CASE d = c
    <3>1. raced = {} /\ Closers(c) = {}
          BY <2>1, <2>4 DEF IInv, Entries, ThreadsFit, Closing, Closers
    <3>2. ~OffTold(c)
          BY <2>4, <3>1, ToldFacts DEF ToldOf
    <3>3. told[c] = <<"on">>
      <4>1. told[c] # <<"on", "off">>
            BY <3>2, Histories DEF OffTold
      <4> QED
        BY <2>2, <2>4, <2>5, <4>1 DEF UnixToldOf
    <3>4. told'[c] = <<"on", "off">>
          BY <2>4, <3>3, ToldFacts, Histories
    <3>5. Gone(c)
      <4>1. sock[arg[Listener].fd] # None /\ Gone(sock[arg[Listener].fd])
            BY <2>1, <2>4 DEF IInv, EventsHold
      <4>2. pc[App] # "stopped"
            BY <2>4 DEF IInv, ThreadsFit
      <4>3. clients[arg[Listener].fd] = sock[arg[Listener].fd]
            BY <2>4, <3>1, <4>1, <4>2, EntryFacts DEF EntryFits
      <4> QED
        BY <2>4, <4>1, <4>3
    <3> QED
      BY <2>4, <2>5, <3>4, <3>5, Histories DEF UnixToldOf, Gone
  <2>6. CASE d # c
        BY <2>2, <2>4, <2>6, ToldFacts DEF UnixToldOf, Gone
  <2> QED
    BY <2>5, <2>6
<1>6. ASSUME NEW t \in Thread, closeFd(t)
      PROVE  UnixTold'
  <2>1. SUFFICES ASSUME kind = "unix", NEW d \in Conn
                 PROVE  UnixToldOf(d)'
        BY <1>6 DEF UnixTold, closeFd
  <2>2. UnixToldOf(d)
        BY <2>1 DEF IInv, UnixTold
  <2>3. t = Listener
        BY <1>6, <2>1 DEF IInv, ThreadsFit, Closing, closeFd
  <2>4. UNCHANGED <<told, clients, peer>> /\ ~Announced(d) /\ ~Announced(d)'
        BY <1>6, <2>3 DEF IInv, TypeOK, closeFd, historyVars, Goto, Announced
  <2> QED
    BY <2>2, <2>4 DEF UnixToldOf, Gone
<1>7. ASSUME NEW t \in Thread, closeErase(t)
      PROVE  UnixTold'
  <2>1. SUFFICES ASSUME kind = "unix", NEW d \in Conn
                 PROVE  UnixToldOf(d)'
        BY <1>7 DEF UnixTold, closeErase, kernelVars
  <2>2. UnixToldOf(d)
        BY <2>1 DEF IInv, UnixTold
  <2>3. t = Listener
        BY <1>7, <2>1 DEF IInv, ThreadsFit, Closing, closeErase
  <2>4. /\ UNCHANGED <<told, peer>> /\ ~Announced(d) /\ ~Announced(d)'
        /\ clients' = [clients EXCEPT ![arg[t].fd] = None]
        BY <1>7, <2>3 DEF IInv, TypeOK, closeErase, kernelVars, historyVars, Return, Goto,
                        Announced
  <2>5. \A f \in FD : clients'[f] = d => clients[f] = d
        BY <2>4, EntryFacts
  <2> QED
    BY <2>2, <2>4, <2>5 DEF UnixToldOf, Gone
<1>8. CASE stopClose
  <2>1. SUFFICES ASSUME kind = "unix", NEW d \in Conn
                 PROVE  UnixToldOf(d)'
        BY <1>8 DEF UnixTold, stopClose
  <2>2. UnixToldOf(d)
        BY <2>1 DEF IInv, UnixTold
  <2>3. UNCHANGED <<told, clients, peer>> /\ (Announced(d)' <=> Announced(d))
        BY <1>8 DEF IInv, TypeOK, stopClose, historyVars, Goto, Announced
  <2> QED
    BY <2>2, <2>3 DEF UnixToldOf, Gone
<1> QED
  BY <1>1, <1>2, <1>3, <1>4, <1>5, <1>6, <1>7, <1>8, AsideOrCore DEF Core

\* A step in which no reader receives or hands on anything.
StillPieces ==
  /\ \A w \in Reader : Handing(w)' <=> Handing(w)
  /\ \A c \in Conn : rcvd[c] <= sent'[c]
  /\ UNCHANGED <<kind, rcvd, piece, handed>>

LEMMA PieceSteps ==
  ASSUME IInv, Next
  PROVE  StillPieces \/ \E w \in Readers : recvPiece(w) \/ onRecv(w)
<1> USE Cast
<1>0. /\ sent \in [Conn -> 0 .. MaxPieces[kind]] /\ rcvd \in [Conn -> 0 .. MaxPieces[kind]]
      /\ MaxPieces[kind] \in Nat /\ \A c \in Conn : rcvd[c] <= sent[c]
      /\ DOMAIN pc = Thread
      BY ServerAssumption DEF IInv, TypeOK, PiecesFit, PiecesOf
<1>1. ASSUME NEW c \in Conn, Connect(c)
      PROVE  StillPieces
      BY <1>1, <1>0 DEF StillPieces, Handing, Connect, peerFrame
<1>2. ASSUME NEW c \in Conn, Send(c)
      PROVE  StillPieces
      BY <1>2, <1>0 DEF StillPieces, Handing, Send, Raise, peerFrame
<1>3. ASSUME NEW c \in Conn, HangUp(c)
      PROVE  StillPieces
      BY <1>3, <1>0 DEF StillPieces, Handing, HangUp, Raise, peerFrame
<1>4. CASE epollWait
      BY <1>4, <1>0 DEF StillPieces, Handing, epollWait, historyVars
<1>5. CASE callConnected
      BY <1>5, <1>0 DEF StillPieces, Handing, callConnected, kernelVars, Return, Goto, Idle
<1>6. CASE endListener
      BY <1>6, <1>0 DEF StillPieces, Handing, endListener, kernelVars, historyVars, Goto
<1>7. ASSUME NEW e \in batch, handleQuit(e)
      PROVE  StillPieces
      BY <1>7, <1>0 DEF StillPieces, Handing, handleQuit, beginClose, Goto
<1>8. ASSUME NEW e \in batch, NEW c \in Conn, NEW fd \in FD, acceptAt(e, c, fd)
      PROVE  StillPieces
      BY <1>8, <1>0 DEF StillPieces, Handing, acceptAt, Goto
<1>9. ASSUME NEW e \in batch, pushJob(e)
      PROVE  StillPieces
      BY <1>9, <1>0 DEF StillPieces, Handing, pushJob, kernelVars, historyVars
<1>10. ASSUME NEW w \in Readers, takeJob(w)
      PROVE  StillPieces
      BY <1>10, <1>0 DEF StillPieces, Handing, takeJob, kernelVars, historyVars, Goto
<1>11. ASSUME NEW w \in Readers, recvNothing(w)
      PROVE  StillPieces
      BY <1>11, <1>0 DEF StillPieces, Handing, recvNothing, kernelVars, historyVars, Return,
          Goto, Idle
<1>12. ASSUME NEW w \in Readers, recvErrorTcp(w)
      PROVE  StillPieces
      BY <1>12, <1>0 DEF StillPieces, Handing, recvErrorTcp, recvErrorOf, beginClose,
          historyVars, Goto
<1>13. ASSUME NEW w \in Readers, recvErrorUnix(w)
      PROVE  StillPieces
      BY <1>13, <1>0 DEF StillPieces, Handing, recvErrorUnix, recvErrorOf, historyVars,
          Return, Goto, Idle
<1>14. ASSUME NEW w \in Readers, endReader(w)
      PROVE  StillPieces
      BY <1>14, <1>0 DEF StillPieces, Handing, endReader, kernelVars, historyVars, Goto
<1>15. ASSUME NEW t \in Thread, closeNothing(t)
      PROVE  StillPieces
      BY <1>15, <1>0 DEF StillPieces, Handing, closeNothing, kernelVars, historyVars,
          Return, Goto, Idle
<1>16. ASSUME NEW t \in Thread, NEW c \in Conn, closeTell(t, c)
      PROVE  StillPieces
      BY <1>16, <1>0 DEF StillPieces, Handing, closeTell, kernelVars, Goto
<1>17. ASSUME NEW t \in Thread, closeFd(t)
      PROVE  StillPieces
      BY <1>17, <1>0 DEF StillPieces, Handing, closeFd, historyVars, Goto
<1>18. ASSUME NEW t \in Thread, closeErase(t)
      PROVE  StillPieces
      BY <1>18, <1>0 DEF StillPieces, Handing, closeErase, kernelVars, historyVars, Return,
          Goto, Idle
<1>19. ASSUME NEW fd \in FD, appClose(fd)
      PROVE  StillPieces
      BY <1>19, <1>0 DEF StillPieces, Handing, appClose, beginClose, historyVars, Goto
<1>20. CASE stopBegin
      BY <1>20, <1>0 DEF StillPieces, Handing, stopBegin, kernelVars, historyVars, Goto
<1>21. CASE stopRest
      BY <1>21, <1>0 DEF StillPieces, Handing, stopRest, kernelVars, historyVars, Goto
<1>22. CASE stopClose
      BY <1>22, <1>0 DEF StillPieces, Handing, stopClose, historyVars, Goto
<1> QED
  BY <1>1, <1>2, <1>3, <1>4, <1>5, <1>6, <1>7, <1>8, <1>9, <1>10, <1>11, <1>12, <1>13,
      <1>14, <1>15, <1>16, <1>17, <1>18, <1>19, <1>20, <1>21, <1>22, Steps DEF Step

\* What the invariant says of pieces.
LEMMA PieceFacts ==
  ASSUME IInv
  PROVE  /\ rcvd \in [Conn -> Nat] /\ sent \in [Conn -> Nat]
         /\ DOMAIN piece = Reader /\ DOMAIN pc = Thread
         /\ \A w \in Reader : piece[w] = <<piece[w][1], piece[w][2]>> /\ piece[w][2] \in Nat
         /\ \E M \in Nat : handed \in [Conn -> Seq((1 .. M) \X Conn)]
         /\ \A c \in Conn : /\ Len(handed[c]) \in Nat
                            /\ \A i \in 1 .. Len(handed[c]) : handed[c][i][1] \in Nat
         /\ \A w \in Reader : PieceFits(w)
         /\ \A c \in Conn : PiecesOf(c)
         /\ kind = "unix" => \A w \in Reader : Handing(w) => w = Receiver
         /\ kind = "unix" => Readers = {Receiver}
<1>1. /\ sent \in [Conn -> 0 .. MaxPieces[kind]] /\ rcvd \in [Conn -> 0 .. MaxPieces[kind]]
      /\ handed \in [Conn -> Seq((1 .. MaxPieces[kind]) \X Conn)]
      /\ piece \in [Reader -> (Conn \cup {None}) \X (0 .. MaxPieces[kind])]
      /\ MaxPieces[kind] \in Nat
      BY ServerAssumption DEF IInv, TypeOK
<1>2. /\ rcvd \in [Conn -> Nat] /\ sent \in [Conn -> Nat] /\ DOMAIN piece = Reader
      /\ \A w \in Reader : piece[w] = <<piece[w][1], piece[w][2]>> /\ piece[w][2] \in Nat
      BY <1>1
<1>3. kind = "unix" => \A w \in Reader : Handing(w) => w = Receiver
      BY Cast DEF IInv, ThreadsFit, Handing, Readers
<1>4. DOMAIN pc = Thread /\ (kind = "unix" => Readers = {Receiver})
      BY DEF IInv, TypeOK, Readers
<1>5. ASSUME NEW c \in Conn
      PROVE  Len(handed[c]) \in Nat /\ \A i \in 1 .. Len(handed[c]) : handed[c][i][1] \in Nat
  <2>1. handed[c] \in Seq((1 .. MaxPieces[kind]) \X Conn)
        BY <1>1
  <2>2. \A i \in 1 .. Len(handed[c]) : handed[c][i] \in (1 .. MaxPieces[kind]) \X Conn
        BY <2>1, ElementOfSeq
  <2>3. \A p \in (1 .. MaxPieces[kind]) \X Conn : p[1] \in Nat
        BY <1>1
  <2>4. Len(handed[c]) \in Nat
        BY <2>1, LenProperties
  <2> QED
    BY <2>2, <2>3, <2>4
<1> QED
  BY <1>1, <1>2, <1>3, <1>4, <1>5 DEF IInv, PiecesFit

\* Every piece is handed on once; the Unix server keeps the order.
LEMMA PiecesFitHolds ==
  ASSUME IInv, Next
  PROVE  PiecesFit'
<1> USE Cast
<1>1. CASE StillPieces
  <2>1. ASSUME NEW w \in Reader
        PROVE  PieceFits(w)'
        BY <1>1, PieceFacts DEF StillPieces, PieceFits
  <2>2. ASSUME NEW c \in Conn
        PROVE  PiecesOf(c)'
        BY <1>1, PieceFacts DEF StillPieces, PiecesOf
  <2> QED
    BY <2>1, <2>2 DEF PiecesFit
<1>2. ASSUME NEW w \in Readers, recvPiece(w)
      PROVE  PiecesFit'
  <2> DEFINE c == Current(w)
  <2>1. c \in Conn
        BY <1>2 DEF IInv, TypeOK, ThreadsFit, recvPiece, Current
  <2>2. /\ ~Handing(w) /\ Handing(w)'
        /\ \A v \in Reader \ {w} : (Handing(v)' <=> Handing(v)) /\ piece'[v] = piece[v]
        /\ piece'[w] = <<c, rcvd[c] + 1>> /\ rcvd'[c] = rcvd[c] + 1
        /\ \A d \in Conn \ {c} : rcvd'[d] = rcvd[d]
        /\ rcvd[c] < sent[c]
        /\ UNCHANGED <<kind, sent, handed>>
        BY <1>2, <2>1, PieceFacts DEF recvPiece, historyVars, Goto, Handing, Unread
  <2>3. kind = "unix" => w = Receiver /\ Len(handed[c]) = rcvd[c]
        BY <2>1, <2>2, PieceFacts DEF PiecesOf
  <2>4. \A d \in Conn : rcvd[d] \in Nat /\ rcvd'[d] \in Nat /\ rcvd[d] <= rcvd'[d]
        BY <2>1, <2>2, PieceFacts
  <2> HIDE DEF c
  <2>5. ASSUME NEW v \in Reader, Handing(v)'
        PROVE  PieceFits(v)'
    <3>1. CASE v = w
      <4>1. piece'[v][1] = c /\ piece'[v][2] = rcvd[c] + 1
            BY <2>2, <3>1
      <4>2. \A i \in 1 .. Len(handed[c]) : handed[c][i][1] # rcvd[c] + 1
        <5>1. \A i \in 1 .. Len(handed[c]) : handed[c][i][1] <= rcvd[c]
              BY <2>1, PieceFacts DEF PiecesOf
        <5>2. rcvd[c] \in Nat /\ \A i \in 1 .. Len(handed[c]) : handed[c][i][1] \in Nat
              BY <2>1, PieceFacts
        <5> QED
          BY <5>1, <5>2
      <4>3. \A u \in Reader : Handing(u)' /\ piece'[u] = piece'[v] => u = v
        <5>1. ASSUME NEW u \in Reader \ {w}, Handing(u), piece[u][1] = c
              PROVE  piece[u][2] # rcvd[c] + 1
              BY <2>1, <5>1, PieceFacts DEF PieceFits
        <5> QED
          BY <2>2, <3>1, <4>1, <5>1
      <4> QED
        BY <2>1, <2>2, <2>3, <2>4, <4>1, <4>2, <4>3 DEF PieceFits
    <3>2. CASE v # w
      <4>1. Handing(v) /\ piece'[v] = piece[v] /\ piece[v][1] \in Conn
            BY <2>2, <2>5, <3>2, PieceFacts DEF PieceFits
      <4>2. piece[v] # piece'[w]
        <5>1. piece[v][1] = c => piece[v][2] # rcvd[c] + 1
              BY <2>1, <4>1, PieceFacts DEF PieceFits
        <5> QED
          BY <2>2, <5>1
      <4>3. kind # "unix"
            BY <2>3, <3>2, <4>1, PieceFacts
      <4>4. \A u \in Reader : Handing(u)' /\ piece'[u] = piece'[v] => u = v
            BY <2>2, <4>1, <4>2, PieceFacts DEF PieceFits
      <4>5. /\ piece[v][2] \in 1 .. rcvd'[piece[v][1]]
            /\ \A i \in 1 .. Len(handed[piece[v][1]]) : handed[piece[v][1]][i][1] # piece[v][2]
            BY <2>4, <4>1, PieceFacts DEF PieceFits
      <4> QED
        BY <2>2, <4>1, <4>3, <4>4, <4>5 DEF PieceFits
    <3> QED
      BY <3>1, <3>2
  <2>6. ASSUME NEW d \in Conn
        PROVE  PiecesOf(d)'
    <3>1. rcvd'[d] <= sent[d]
          BY <2>1, <2>2, <2>4, PieceFacts DEF PiecesOf
    <3>2. \A i \in 1 .. Len(handed[d]) : handed[d][i][1] <= rcvd'[d]
      <4>1. \A i \in 1 .. Len(handed[d]) : handed[d][i][1] <= rcvd[d]
            BY PieceFacts DEF PiecesOf
      <4>2. \A i \in 1 .. Len(handed[d]) : handed[d][i][1] \in Nat
            BY PieceFacts
      <4> QED
        BY <2>4, <4>1, <4>2
    <3>3. (\A v \in Reader : Handing(v)' => piece'[v][1] # d)
            => rcvd'[d] = rcvd[d] /\ (\A v \in Reader : Handing(v) => piece[v][1] # d)
          BY <2>1, <2>2
    <3> QED
      BY <2>2, <3>1, <3>2, <3>3, PieceFacts DEF PiecesOf
  <2> QED
    BY <2>5, <2>6 DEF PiecesFit, PieceFits
<1>3. ASSUME NEW w \in Readers, onRecv(w)
      PROVE  PiecesFit'
  <2> DEFINE c == piece[w][1]
             n == piece[w][2]
             p == <<n, arg[w].des>>
  <2>1. /\ Handing(w) /\ ~Handing(w)'
        /\ \A v \in Reader \ {w} : (Handing(v)' <=> Handing(v)) /\ piece'[v] = piece[v]
        /\ handed' = [handed EXCEPT ![c] = Append(@, p)]
        /\ UNCHANGED <<kind, sent, rcvd>>
        BY <1>3, PieceFacts DEF onRecv, kernelVars, Goto, Handing
  <2>2. /\ c \in Conn /\ n \in 1 .. rcvd[c] /\ n \in Nat
        /\ \A i \in 1 .. Len(handed[c]) : handed[c][i][1] # n
        /\ kind = "unix" => Len(handed[c]) + 1 = rcvd[c] /\ n = rcvd[c]
        BY <2>1, PieceFacts DEF PieceFits
  <2>3. /\ Len(handed[c]) \in Nat /\ Len(handed'[c]) = Len(handed[c]) + 1
        /\ \A i \in 1 .. Len(handed[c]) : handed'[c][i] = handed[c][i]
        /\ handed'[c][Len(handed[c]) + 1] = p
    <3>1. PICK M \in Nat : handed \in [Conn -> Seq((1 .. M) \X Conn)]
          BY PieceFacts
    <3>2. handed[c] \in Seq((1 .. M) \X Conn) /\ handed'[c] = Append(handed[c], p)
          BY <2>1, <2>2, <3>1
    <3>3. handed[c] \in Seq(((1 .. M) \X Conn) \cup {p})
          BY <3>2
    <3>4. p \in ((1 .. M) \X Conn) \cup {p}
          OBVIOUS
    <3> HIDE DEF c, p
    <3> QED
      BY <3>2, <3>3, <3>4, AppendProperties, LenProperties
  <2>4. p[1] = n
        OBVIOUS
  <2>5. \A d \in Conn \ {c} : handed'[d] = handed[d]
        BY <2>1, <2>2, PieceFacts
  <2> HIDE DEF c, n, p
  <2>6. ASSUME NEW v \in Reader, Handing(v)'
        PROVE  PieceFits(v)'
    <3>1. v # w /\ Handing(v) /\ piece'[v] = piece[v] /\ kind # "unix"
          BY <2>1, <2>6, PieceFacts
    <3>2. \A u \in Reader : Handing(u)' /\ piece'[u] = piece'[v] => u = v
          BY <2>1, <3>1, PieceFacts DEF PieceFits
    <3>3. piece[v] # piece[w]
          BY <2>1, <3>1, PieceFacts DEF PieceFits
    <3>4. piece[v][1] = c => piece[v][2] # n
          BY <3>3, PieceFacts DEF c, n
    <3>5. \A i \in 1 .. Len(handed'[piece[v][1]]) : handed'[piece[v][1]][i][1] # piece[v][2]
      <4>1. \A i \in 1 .. Len(handed[piece[v][1]]) : handed[piece[v][1]][i][1] # piece[v][2]
            BY <3>1, PieceFacts DEF PieceFits
      <4>2. CASE piece[v][1] = c
        <5>1. \A i \in 1 .. Len(handed'[c]) : i \in 1 .. Len(handed[c]) \/ i = Len(handed[c]) + 1
              BY <2>3
        <5>2. \A i \in 1 .. Len(handed[c]) : handed'[c][i][1] # piece[v][2]
              BY <2>3, <4>1, <4>2
        <5>3. handed'[c][Len(handed[c]) + 1][1] # piece[v][2]
              BY <2>3, <2>4, <3>4, <4>2
        <5> QED
          BY <4>2, <5>1, <5>2, <5>3
      <4>3. CASE piece[v][1] # c
            BY <2>5, <3>1, <4>1, <4>3, PieceFacts DEF PieceFits
      <4> QED
        BY <4>2, <4>3
    <3>6. PieceFits(v)
          BY PieceFacts
    <3> QED
      BY <2>1, <3>1, <3>2, <3>5, <3>6 DEF PieceFits
  <2>7. ASSUME NEW d \in Conn
        PROVE  PiecesOf(d)'
    <3>1. CASE d = c
      <4>1. /\ rcvd[c] \in Nat
            /\ \A i \in 1 .. Len(handed[c]) : handed[c][i][1] \in Nat /\ handed[c][i][1] <= rcvd[c]
            /\ \A i, j \in 1 .. Len(handed[c]) : handed[c][i][1] = handed[c][j][1] => i = j
            /\ kind = "unix" => \A i \in 1 .. Len(handed[c]) : handed[c][i][1] = i
            BY <2>2, PieceFacts DEF PiecesOf
      <4>2. \A i \in 1 .. Len(handed'[c]) :
              \/ i \in 1 .. Len(handed[c]) /\ handed'[c][i] = handed[c][i]
              \/ i = Len(handed[c]) + 1 /\ handed'[c][i][1] = n
            BY <2>3, <2>4
      <4>3. \A i \in 1 .. Len(handed'[c]) : handed'[c][i][1] <= rcvd[c]
            BY <2>2, <4>1, <4>2
      <4>4. \A i, j \in 1 .. Len(handed'[c]) : handed'[c][i][1] = handed'[c][j][1] => i = j
        <5> SUFFICES ASSUME NEW i \in 1 .. Len(handed'[c]), NEW j \in 1 .. Len(handed'[c]),
                            handed'[c][i][1] = handed'[c][j][1]
                     PROVE  i = j
              OBVIOUS
        <5>1. \/ i \in 1 .. Len(handed[c]) /\ handed'[c][i] = handed[c][i] /\ handed[c][i][1] # n
              \/ i = Len(handed[c]) + 1 /\ handed'[c][i][1] = n
              BY <2>2, <4>2
        <5>2. \/ j \in 1 .. Len(handed[c]) /\ handed'[c][j] = handed[c][j] /\ handed[c][j][1] # n
              \/ j = Len(handed[c]) + 1 /\ handed'[c][j][1] = n
              BY <2>2, <4>2
        <5> QED
          BY <4>1, <5>1, <5>2
      <4>5. kind = "unix" => \A i \in 1 .. Len(handed'[c]) : handed'[c][i][1] = i
            BY <2>2, <4>1, <4>2
      <4>6. rcvd'[c] = rcvd[c] /\ rcvd'[c] <= sent'[c] /\ kind' = kind
            BY <2>1, <2>2, PieceFacts DEF PiecesOf
      <4>7. kind = "unix" => Len(handed'[c]) = rcvd[c]
            BY <2>2, <2>3
      <4> QED
        BY <3>1, <4>3, <4>4, <4>5, <4>6, <4>7 DEF PiecesOf
    <3>2. CASE d # c
      <4>1. (\A v \in Reader : Handing(v)' => piece'[v][1] # d)
              => \A v \in Reader : Handing(v) => piece[v][1] # d
            BY <2>1, <3>2 DEF c
      <4> QED
        BY <2>1, <2>5, <3>2, <4>1, PieceFacts DEF PiecesOf
    <3> QED
      BY <3>1, <3>2
  <2> QED
    BY <2>6, <2>7 DEF PiecesFit, PieceFits
<1> QED
  BY <1>1, <1>2, <1>3, PieceSteps

\* What was told stays told, and what was raced stays raced.
LEMMA TellingStays ==
  ASSUME IInv, Next
  PROVE  raced \subseteq raced' /\ \A d \in Conn : OffTold(d) => OffTold(d)'
<1> USE Cast
<1>1. CASE UNCHANGED told /\ raced \subseteq raced'
      BY <1>1 DEF OffTold
<1>2. CASE callConnected
  <2>1. /\ arg[Listener].des \in Conn /\ raced' = raced
        /\ told' = [told EXCEPT ![arg[Listener].des] = Append(@, "on")]
        BY <1>2 DEF IInv, ThreadsFit, callConnected
  <2> QED
    BY <2>1, ToldFacts, OffAppend DEF OffTold
<1>3. ASSUME NEW t \in Thread, NEW c \in Conn, closeTell(t, c)
      PROVE  raced \subseteq raced' /\ \A d \in Conn : OffTold(d) => OffTold(d)'
  <2>1. raced \subseteq raced' /\ told' = [told EXCEPT ![c] = Append(@, "off")]
        BY <1>3 DEF closeTell
  <2> QED
    BY <2>1, ToldFacts, OffAppend DEF OffTold
<1> QED
  BY <1>1, <1>2, <1>3, AsideOrCore
  DEF Core, Aside, Connect, peerFrame, acceptAt, closeFd, closeErase, stopClose, historyVars

\* A server that was stopped is not started again.
LEMMA StoppedStays ==
  ASSUME IInv, Next, pc[App] = "stopped"
  PROVE  pc'[App] = "stopped"
<1> USE Cast
<1>1. DOMAIN pc = Thread
      BY EntryFacts
<1>2. CASE Aside
      BY <1>2 DEF Aside
<1>3. CASE pc' = pc
      BY <1>3
<1>4. ASSUME NEW t \in Thread, NEW l, Goto(t, l), pc[t] # "stopped"
      PROVE  pc'[App] = "stopped"
      BY <1>1, <1>4 DEF Goto
<1>5. CASE callConnected
      BY <1>4, <1>5 DEF callConnected, Return
<1>6. CASE \E e \in batch, c \in Conn, fd \in FD : acceptAt(e, c, fd)
      BY <1>4, <1>6 DEF acceptAt
<1>7. CASE \E t \in Thread, c \in Conn : closeTell(t, c)
      BY <1>4, <1>7 DEF closeTell
<1>8. CASE \E t \in Thread : closeFd(t) \/ closeErase(t)
      BY <1>4, <1>8 DEF closeFd, closeErase, Return
<1>9. CASE stopClose
      BY <1>9 DEF stopClose
<1> QED
  BY <1>2, <1>3, <1>5, <1>6, <1>7, <1>8, <1>9, AsideOrCore DEF Core, Connect, peerFrame

\* An address that is known stays so: who takes a descriptor away has told the end.
LEMMA AddressStays ==
  ASSUME IInv, Next, NEW f \in FD, NEW d \in Conn, Known(sock[f], d), pc'[App] # "stopped"
  PROVE  Known(sock[f], d)' /\ pc[App] # "stopped"
<1> USE Cast
<1>1. (OffTold(d) \/ d \in raced) => (OffTold(d)' \/ d \in raced')
      BY TellingStays
<1>2. pc[App] # "stopped"
      BY StoppedStays
<1>3. CASE sock' = sock
      BY <1>1, <1>2, <1>3 DEF Known
<1>4. ASSUME NEW e \in batch, NEW c \in Conn, NEW fd \in FD, acceptAt(e, c, fd)
      PROVE  Known(sock[f], d)'
  <2>1. sock[fd] = None /\ sock' = [sock EXCEPT ![fd] = c]
        BY <1>4 DEF acceptAt
  <2> QED
    BY <1>1, <2>1, EntryFacts DEF Known
<1>5. ASSUME NEW t \in Thread, closeFd(t)
      PROVE  Known(sock[f], d)'
  <2>1. /\ pc[t] = "close" /\ arg[t].fd \in FD
        /\ sock' = [sock EXCEPT ![arg[t].fd] = None]
        BY <1>5, EntryFacts DEF closeFd
  <2>2. CASE sock[f] = d /\ f = arg[t].fd /\ d \notin raced
    <3>1. clients[arg[t].fd] = d
          BY <1>2, <2>2, EntryFacts DEF EntryFits
    <3>2. t \in Closers(d)
          BY <2>1, <2>2, <3>1, EntryFacts DEF CloserKnows, Closers
    <3> QED
      BY <1>1, <3>2, ToldFacts DEF ToldOf, Known
  <2>3. CASE ~(sock[f] = d /\ f = arg[t].fd /\ d \notin raced)
        BY <1>1, <2>1, <2>3, EntryFacts DEF Known
  <2> QED
    BY <2>2, <2>3
<1>6. CASE stopClose
      BY <1>6, EntryFacts DEF stopClose, Goto
<1> QED
  BY <1>2, <1>3, <1>4, <1>5, <1>6, AsideOrCore
  DEF Core, Aside, Connect, peerFrame, callConnected, closeTell, closeErase, kernelVars

\* A step that makes, takes and uses no job.
StillJobs ==
  /\ \A w \in Reader : pc'[w] \in {"recv", "hand"} => pc'[w] = pc[w] /\ arg'[w] = arg[w]
  /\ UNCHANGED <<jobs, piece, handed>>

LEMMA JobSteps ==
  ASSUME IInv, Next
  PROVE  \/ StillJobs
         \/ \E e \in batch : pushJob(e)
         \/ \E w \in Readers : takeJob(w) \/ recvPiece(w) \/ onRecv(w)
<1> USE Cast, EntryFacts
<1>0. DOMAIN arg = Thread
      BY DEF IInv, TypeOK
<1>1. ASSUME NEW c \in Conn, Connect(c)
      PROVE  StillJobs
      BY <1>1, <1>0 DEF StillJobs, Connect, peerFrame
<1>2. ASSUME NEW c \in Conn, Send(c)
      PROVE  StillJobs
      BY <1>2, <1>0 DEF StillJobs, Send, Raise, peerFrame
<1>3. ASSUME NEW c \in Conn, HangUp(c)
      PROVE  StillJobs
      BY <1>3, <1>0 DEF StillJobs, HangUp, Raise, peerFrame
<1>4. CASE epollWait
      BY <1>4, <1>0 DEF StillJobs, epollWait, historyVars
<1>5. CASE callConnected
      BY <1>5, <1>0 DEF StillJobs, callConnected, kernelVars, Return, Goto, Idle
<1>6. CASE endListener
      BY <1>6, <1>0 DEF StillJobs, endListener, kernelVars, historyVars, Goto
<1>7. ASSUME NEW e \in batch, handleQuit(e)
      PROVE  StillJobs
      BY <1>7, <1>0 DEF StillJobs, handleQuit, beginClose, Goto
<1>8. ASSUME NEW e \in batch, NEW c \in Conn, NEW fd \in FD, acceptAt(e, c, fd)
      PROVE  StillJobs
      BY <1>8, <1>0 DEF StillJobs, acceptAt, Goto
<1>9. ASSUME NEW w \in Readers, recvNothing(w)
      PROVE  StillJobs
      BY <1>9, <1>0 DEF StillJobs, recvNothing, kernelVars, historyVars, Return, Goto, Idle
<1>10. ASSUME NEW w \in Readers, recvErrorTcp(w)
      PROVE  StillJobs
      BY <1>10, <1>0 DEF StillJobs, recvErrorTcp, recvErrorOf, beginClose, historyVars, Goto
<1>11. ASSUME NEW w \in Readers, recvErrorUnix(w)
      PROVE  StillJobs
      BY <1>11, <1>0 DEF StillJobs, recvErrorUnix, recvErrorOf, historyVars, Return, Goto,
          Idle
<1>12. ASSUME NEW w \in Readers, endReader(w)
      PROVE  StillJobs
      BY <1>12, <1>0 DEF StillJobs, endReader, kernelVars, historyVars, Goto
<1>13. ASSUME NEW t \in Thread, closeNothing(t)
      PROVE  StillJobs
      BY <1>13, <1>0 DEF StillJobs, closeNothing, kernelVars, historyVars, Return, Goto,
          Idle
<1>14. ASSUME NEW t \in Thread, NEW c \in Conn, closeTell(t, c)
      PROVE  StillJobs
      BY <1>14, <1>0 DEF StillJobs, closeTell, kernelVars, Goto
<1>15. ASSUME NEW t \in Thread, closeFd(t)
      PROVE  StillJobs
      BY <1>15, <1>0 DEF StillJobs, closeFd, historyVars, Goto
<1>16. ASSUME NEW t \in Thread, closeErase(t)
      PROVE  StillJobs
      BY <1>16, <1>0 DEF StillJobs, closeErase, kernelVars, historyVars, Return, Goto, Idle
<1>17. ASSUME NEW fd \in FD, appClose(fd)
      PROVE  StillJobs
      BY <1>17, <1>0 DEF StillJobs, appClose, beginClose, historyVars, Goto
<1>18. CASE stopBegin
      BY <1>18, <1>0 DEF StillJobs, stopBegin, kernelVars, historyVars, Goto
<1>19. CASE stopRest
      BY <1>19, <1>0 DEF StillJobs, stopRest, kernelVars, historyVars, Goto
<1>20. CASE stopClose
      BY <1>20, <1>0 DEF StillJobs, stopClose, historyVars, Goto
<1> QED
  BY <1>1, <1>2, <1>3, <1>4, <1>5, <1>6, <1>7, <1>8, <1>9, <1>10, <1>11, <1>12, <1>13,
      <1>14, <1>15, <1>16, <1>17, <1>18, <1>19, <1>20, Steps DEF Step

\* What the invariant says of jobs and addresses.
LEMMA JobFacts ==
  ASSUME IInv
  PROVE  /\ jobs \in Seq([fd : FD, des : Conn])
         /\ \A i \in 1 .. Len(jobs) : jobs[i].fd \in FD /\ jobs[i].des \in Conn
         /\ \A w \in Reader : pc[w] \in {"recv", "hand"} => arg[w].fd \in FD /\ arg[w].des \in Conn
         /\ \A c \in Conn : \A i \in 1 .. Len(handed[c]) : handed[c][i][2] \in Conn
         /\ \A w \in Reader : Handing(w) => pc[w] = "hand" /\ piece[w][1] \in Conn
         /\ DOMAIN pc = Thread /\ DOMAIN arg = Thread /\ DOMAIN piece = Reader
         /\ Addresses
<1>1. jobs \in Seq([fd : FD, des : Conn])
      BY DEF IInv, TypeOK
<1>2. \A i \in 1 .. Len(jobs) : jobs[i].fd \in FD /\ jobs[i].des \in Conn
  <2>1. \A i \in 1 .. Len(jobs) : jobs[i] \in [fd : FD, des : Conn]
        BY <1>1, ElementOfSeq
  <2> QED
    BY <2>1
<1>3. ASSUME NEW c \in Conn, NEW i \in 1 .. Len(handed[c])
      PROVE  handed[c][i][2] \in Conn
  <2>1. handed[c] \in Seq((1 .. MaxPieces[kind]) \X Conn)
        BY DEF IInv, TypeOK
  <2>2. handed[c][i] \in (1 .. MaxPieces[kind]) \X Conn
        BY <2>1, ElementOfSeq
  <2> QED
    BY <2>2
<1>4. \A w \in Reader : pc[w] \in {"recv", "hand"} => arg[w].fd \in FD /\ arg[w].des \in Conn
      BY Cast DEF IInv, ThreadsFit
<1>5. DOMAIN pc = Thread /\ DOMAIN arg = Thread /\ DOMAIN piece = Reader
      BY DEF IInv, TypeOK
<1>6. \A w \in Reader : Handing(w) => pc[w] = "hand" /\ piece[w][1] \in Conn
      BY PieceFacts DEF PieceFits, Handing
<1> QED
  BY <1>1, <1>2, <1>3, <1>4, <1>5, <1>6 DEF IInv

\* No data under an address that another connection still has.
LEMMA AddressesHold ==
  ASSUME IInv, Next
  PROVE  Addresses'
<1> USE Cast
<1>1. ASSUME NEW f \in FD, NEW d \in Conn, pc'[App] # "stopped", Known(sock[f], d)
      PROVE  (d = sock'[f] \/ OffTold(d)' \/ d \in raced') /\ pc[App] # "stopped"
      BY <1>1, AddressStays DEF Known
<1>2. \A d \in Conn : OffTold(d) \/ d \in raced => OffTold(d)' \/ d \in raced'
      BY TellingStays
<1>3. ASSUME NEW f \in FD, NEW d \in Conn, pc'[App] # "stopped",
             pc[App] # "stopped" => Known(sock[f], d)
      PROVE  d = sock'[f] \/ OffTold(d)' \/ d \in raced'
  <2>1. pc[App] # "stopped"
        BY <1>3, StoppedStays
  <2> QED
    BY <1>1, <1>3, <2>1
<1>4. ASSUME NEW i \in 1 .. Len(jobs'), pc'[App] # "stopped"
      PROVE  Addressed(jobs[i])'
  <2>1. ASSUME NEW k \in 1 .. Len(jobs), jobs'[i] = jobs[k]
        PROVE  Addressed(jobs[i])'
    <3>1. pc[App] # "stopped" => Known(sock[jobs[k].fd], jobs[k].des)
          BY JobFacts DEF Addresses, Addressed
    <3> QED
      BY <1>3, <1>4, <2>1, <3>1, JobFacts DEF Addressed, Known
  <2>2. CASE UNCHANGED jobs
        BY <2>1, <2>2
  <2>3. ASSUME NEW e \in batch, pushJob(e), jobs' # jobs
        PROVE  Addressed(jobs[i])'
    <3> DEFINE d == clients[e.fd]
    <3>1. /\ e.fd \in FD /\ d \in Conn /\ pc[App] # "stopped"
          /\ jobs' = Append(jobs, [fd |-> e.fd, des |-> d])
          /\ UNCHANGED <<sock, told, raced>>
          BY <2>3 DEF IInv, TypeOK, ThreadsFit, Events_, pushJob, kernelVars, historyVars
    <3>2. /\ Len(jobs) \in Nat /\ Len(jobs') = Len(jobs) + 1
          /\ \A k \in 1 .. Len(jobs) : jobs'[k] = jobs[k]
          /\ jobs'[Len(jobs) + 1] = [fd |-> e.fd, des |-> d]
          BY <3>1, JobFacts, AppendProperties, LenProperties
    <3>3. Known(sock[e.fd], d)
      <4>1. CASE d \notin raced /\ sock[e.fd] # d
        <5>1. PICK t \in Thread : Erased(t, d, e.fd)
              BY <3>1, <4>1, EntryFacts DEF EntryFits
        <5>2. Closers(d) # {}
              BY <5>1 DEF Erased, Closers
        <5> QED
          BY <3>1, <5>2, ToldFacts DEF ToldOf, Known
      <4> QED
        BY <4>1 DEF Known
    <3>4. CASE i = Len(jobs) + 1
          BY <3>1, <3>2, <3>3, <3>4 DEF Addressed, Known, OffTold
    <3>5. CASE i # Len(jobs) + 1
          BY <2>1, <3>2, <3>5
    <3> QED
      BY <3>4, <3>5
  <2>4. ASSUME NEW w \in Readers, takeJob(w)
        PROVE  Addressed(jobs[i])'
    <3>1. jobs' = Tail(jobs) /\ jobs # <<>>
          BY <2>4 DEF takeJob
    <3>2. i + 1 \in 1 .. Len(jobs) /\ jobs'[i] = jobs[i + 1]
          BY <3>1, JobFacts, HeadTailProperties, LenProperties
    <3> QED
      BY <2>1, <3>2
  <2> QED
    BY <2>2, <2>3, <2>4, JobSteps DEF StillJobs, recvPiece, onRecv, historyVars, kernelVars
<1>5. ASSUME NEW v \in Reader, pc'[v] \in {"recv", "hand"}, pc'[App] # "stopped"
      PROVE  Addressed(arg[v])'
  <2>1. CASE pc[v] \in {"recv", "hand"} /\ arg'[v] = arg[v]
    <3>1. pc[App] # "stopped" => Known(sock[arg[v].fd], arg[v].des)
          BY <2>1, JobFacts DEF Addresses, Addressed
    <3> QED
      BY <1>3, <1>5, <2>1, <3>1, JobFacts DEF Addressed, Known
  <2>2. ASSUME NEW w \in Readers, takeJob(w), v = w
        PROVE  Addressed(arg[v])'
    <3>1. arg'[v] = Head(jobs) /\ jobs # <<>>
          BY <2>2, JobFacts DEF takeJob
    <3>2. 1 \in 1 .. Len(jobs) /\ arg'[v] = jobs[1]
          BY <3>1, JobFacts, EmptySeq, LenProperties
    <3>3. pc[App] # "stopped" => Known(sock[jobs[1].fd], jobs[1].des)
          BY <3>2, JobFacts DEF Addresses, Addressed
    <3> QED
      BY <1>3, <1>5, <3>2, <3>3, JobFacts DEF Addressed, Known
  <2>3. ASSUME NEW w \in Readers, takeJob(w) \/ recvPiece(w) \/ onRecv(w), v # w
        PROVE  Addressed(arg[v])'
        BY <1>5, <2>1, <2>3, JobFacts DEF takeJob, recvPiece, onRecv, Goto
  <2>4. ASSUME NEW w \in Readers, recvPiece(w) \/ onRecv(w), v = w
        PROVE  Addressed(arg[v])'
        BY <2>1, <2>4 DEF recvPiece, onRecv
  <2>5. CASE StillJobs \/ \E e \in batch : pushJob(e)
        BY <1>5, <2>1, <2>5 DEF StillJobs, pushJob
  <2> QED
    BY <2>2, <2>3, <2>4, <2>5, JobSteps
<1>6. ASSUME NEW v \in Reader, Handing(v)'
      PROVE  Known(piece[v][1], arg[v].des)'
  <2>1. CASE Handing(v) /\ UNCHANGED <<arg[v], piece[v]>>
    <3>1. Known(piece[v][1], arg[v].des)
          BY <2>1, JobFacts DEF Addresses
    <3>2. arg[v].des \in Conn
          BY <2>1, JobFacts
    <3> QED
      BY <1>2, <2>1, <3>1, <3>2 DEF Known
  <2>2. ASSUME NEW w \in Readers, recvPiece(w), v = w
        PROVE  Known(piece[v][1], arg[v].des)'
    <3>1. /\ pc[v] = "recv" /\ arg' = arg /\ sock' = sock /\ UNCHANGED <<told, raced>>
          /\ piece'[v] = <<sock[arg[v].fd], rcvd'[sock[arg[v].fd]]>>
          BY <2>2, JobFacts DEF recvPiece, Current, historyVars
    <3>2. pc[App] # "stopped"
          BY <2>2, <3>1 DEF IInv, ThreadsFit, ReadersEnded
    <3>3. Known(sock[arg[v].fd], arg[v].des)
          BY <3>1, <3>2, JobFacts DEF Addresses, Addressed
    <3> QED
      BY <3>1, <3>3 DEF Known, OffTold
  <2>3. ASSUME NEW w \in Readers, takeJob(w) \/ recvPiece(w) \/ onRecv(w), v # w
        PROVE  Known(piece[v][1], arg[v].des)'
        BY <1>6, <2>1, <2>3, JobFacts DEF takeJob, recvPiece, onRecv, Goto, Handing
  <2>4. ASSUME NEW w \in Readers, takeJob(w) \/ onRecv(w), v = w
        PROVE  FALSE
        BY <1>6, <2>4, JobFacts DEF takeJob, onRecv, Goto, Handing
  <2>5. CASE StillJobs \/ \E e \in batch : pushJob(e)
        BY <1>6, <2>1, <2>5 DEF StillJobs, pushJob, Handing
  <2> QED
    BY <2>2, <2>3, <2>4, <2>5, JobSteps
<1>7. ASSUME NEW c \in Conn, NEW i \in 1 .. Len(handed'[c])
      PROVE  Known(c, handed[c][i][2])'
  <2>1. ASSUME i \in 1 .. Len(handed[c]), handed'[c][i] = handed[c][i]
        PROVE  Known(c, handed[c][i][2])'
    <3>1. Known(c, handed[c][i][2]) /\ handed[c][i][2] \in Conn
          BY <2>1, JobFacts DEF Addresses
    <3> QED
      BY <1>2, <2>1, <3>1 DEF Known
  <2>2. CASE UNCHANGED handed
        BY <2>1, <2>2
  <2>3. ASSUME NEW w \in Readers, onRecv(w)
        PROVE  Known(c, handed[c][i][2])'
    <3>1. /\ Handing(w) /\ piece[w][1] \in Conn /\ arg[w].des \in Conn
          /\ handed' = [handed EXCEPT ![piece[w][1]] = Append(@, <<piece[w][2], arg[w].des>>)]
          /\ UNCHANGED <<told, raced>>
          BY <2>3, JobFacts DEF onRecv, Handing
    <3>2. CASE c # piece[w][1]
          BY <2>1, <3>1, <3>2, PieceFacts
    <3>3. CASE c = piece[w][1]
      <4> DEFINE p == <<piece[w][2], arg[w].des>>
      <4>1. handed'[c] = Append(handed[c], p)
            BY <3>1, <3>3, PieceFacts
      <4>2. PICK M \in Nat : handed[c] \in Seq((1 .. M) \X Conn)
            BY PieceFacts
      <4>3. handed[c] \in Seq(((1 .. M) \X Conn) \cup {p})
            BY <4>2
      <4>4. /\ Len(handed[c]) \in Nat /\ Len(handed'[c]) = Len(handed[c]) + 1
            /\ \A k \in 1 .. Len(handed[c]) : handed'[c][k] = handed[c][k]
            /\ handed'[c][Len(handed[c]) + 1] = p
            BY <4>1, <4>3, AppendProperties, LenProperties
      <4>5. CASE i = Len(handed[c]) + 1
        <5>1. handed'[c][i][2] = arg[w].des
              BY <4>4, <4>5
        <5>2. Known(c, arg[w].des)
              BY <3>1, <3>3, JobFacts DEF Addresses
        <5> QED
          BY <3>1, <5>1, <5>2 DEF Known, OffTold
      <4>6. CASE i # Len(handed[c]) + 1
        <5>1. i \in 1 .. Len(handed[c]) /\ handed'[c][i] = handed[c][i]
              BY <4>4, <4>6
        <5> QED
          BY <2>1, <5>1
      <4> QED
        BY <4>5, <4>6
    <3> QED
      BY <3>2, <3>3
  <2> QED
    BY <2>2, <2>3, JobSteps DEF StillJobs, pushJob, takeJob, recvPiece, historyVars
<1> QED
  BY <1>4, <1>5, <1>6, <1>7 DEF Addresses

-----------------------------------------------------------------------------
(* The theorems *)

\* The invariant holds when the server has been started.
LEMMA InitInvariant == Init => IInv
<1> SUFFICES ASSUME Init
             PROVE  IInv
    OBVIOUS
<1> USE Cast
<1>1. MaxPieces[kind] \in Nat /\ kind \in Kinds
      BY ServerAssumption DEF Init
<1>2. TypeOK
  <2>1. /\ sent \in [Conn -> 0 .. MaxPieces[kind]] /\ rcvd \in [Conn -> 0 .. MaxPieces[kind]]
        /\ piece \in [Reader -> (Conn \cup {None}) \X (0 .. MaxPieces[kind])]
        BY <1>1 DEF Init
  <2>2. /\ backlog \in Seq(Conn) /\ jobs \in Seq([fd : FD, des : Conn])
        /\ told \in [Conn -> Seq({"on", "off"})]
        /\ handed \in [Conn -> Seq((1 .. MaxPieces[kind]) \X Conn)]
        BY DEF Init
  <2>3. /\ arg \in [Thread -> [fd : FD \cup {Server}, des : Conn \cup {None}]]
        /\ pc \in [Thread -> {"idle", "lookup", "close", "erase", "accepted", "recv", "hand",
                             "ended", "join", "joinRest", "stopped"}]
        BY DEF Init
  <2> QED
    BY <1>1, <2>1, <2>2, <2>3 DEF TypeOK, Init
<1>3. ThreadsFit /\ EventsHold
      BY DEF Init, ThreadsFit, EventsHold, Closing, Readers, ReadersEnded
<1>4. backlog = <<>> /\ Len(backlog) = 0
      BY DEF Init
<1>5. Fresh
      BY <1>4 DEF Init, Fresh, Waiting, InBacklog
<1>6. Entries
      BY DEF Init, Entries, OneEntry, CloserKnows, EntryFits, Erased
<1>7. \A c \in Conn : told[c] = <<>> /\ Len(told[c]) = 0 /\ handed[c] = <<>> /\ Len(handed[c]) = 0
      BY DEF Init
<1>8. Told
  <2>1. \A c \in Conn : Waiting(c) /\ Closers(c) = {} /\ ~OffTold(c) /\ OneOff(told[c])
        BY <1>7 DEF Init, Waiting, Closers, OffTold, HasOff, OneOff
  <2> QED
    BY <2>1 DEF Told, ToldOf
<1>9. UnixTold
      BY <1>7, Histories DEF Init, UnixTold, UnixToldOf, Announced
<1>10. PiecesFit
       BY <1>7 DEF Init, PiecesFit, PieceFits, PiecesOf, Handing
<1>11. Addresses
  <2>1. jobs = <<>> /\ Len(jobs) = 0
        BY DEF Init
  <2> QED
    BY <1>7, <2>1 DEF Init, Addresses, Handing
<1> QED
  BY <1>2, <1>3, <1>5, <1>6, <1>8, <1>9, <1>10, <1>11 DEF IInv

\* No step of a peer, a thread or the application breaks it.
LEMMA StepInvariant == IInv /\ [Next]_vars => IInv'
<1>1. ASSUME IInv, Next
      PROVE  IInv'
      BY <1>1, TypesHold, ThreadsFitHolds, EventsHoldHolds, FreshHolds, EntriesHolds, ToldHolds,
         UnixToldHolds, PiecesFitHolds, AddressesHold DEF IInv
<1>2. ASSUME IInv, UNCHANGED vars
      PROVE  IInv'
  <2> USE <1>2 DEF vars, kernelVars, historyVars
  <2>1. (TypeOK /\ ThreadsFit /\ EventsHold)'
        BY DEF IInv, TypeOK, ThreadsFit, EventsHold, Readers, ReadersEnded, Gone
  <2>2. (Fresh /\ Entries)'
        BY DEF IInv, Fresh, Waiting, InBacklog, Entries, OneEntry, CloserKnows, EntryFits, Erased
  <2>3. (Told /\ UnixTold)'
        BY DEF IInv, Told, ToldOf, OffTold, Closers, Waiting, InBacklog, DescriptorsOf,
               UnixTold, UnixToldOf, Announced, Gone
  <2>4. (PiecesFit /\ Addresses)'
        BY DEF IInv, PiecesFit, PieceFits, PiecesOf, Handing, Addresses, Addressed, Known, OffTold
  <2> QED
    BY <2>1, <2>2, <2>3, <2>4 DEF IInv
<1> QED
  BY <1>1, <1>2

LEMMA Invariant == Spec => []IInv
<1> QED
  BY InitInvariant, StepInvariant, PTL DEF Spec

\* Every variable of the servers keeps its type, for any number of connections,
\* descriptors and pool threads.
THEOREM TypeCorrect == Spec => []TypeOK
<1>1. IInv => TypeOK
      BY DEF IInv
<1> QED
  BY <1>1, Invariant, PTL

\* clients and the open descriptors agree, outside the closeClient that is taking an
\* entry away: a connection is not forgotten and a closed number not kept.
THEOREM EntriesStayOpen == Spec => []EntriesAreOpen
<1>1. IInv => EntriesAreOpen
  <2> SUFFICES ASSUME IInv
               PROVE  EntriesAreOpen
      OBVIOUS
  <2>1. kind = "unix" => raced = {}
        BY DEF IInv, Entries
  <2>2. ASSUME NEW c \in Conn \ raced, Closers(c) = {}, pc[App] # "stopped", NEW fd \in FD
        PROVE  clients[fd] = c <=> sock[fd] = c
    <3>1. \A t \in Thread : ~Erased(t, c, fd)
          BY <2>2 DEF Closers, Erased
    <3> QED
      BY <2>2, <3>1, EntryFacts DEF EntryFits
  <2> QED
    BY <2>1, <2>2 DEF EntriesAreOpen
<1> QED
  BY <1>1, Invariant, PTL

\* The calls of onConnectionChanged and onRecv are true: the end of a connection is
\* told once, after its beginning where one thread tells both; a piece is handed on
\* once; and an address that stands for another connection by then is one whose end
\* was told.
THEOREM CallbacksStayTrue == Spec => []CallbacksAreTrue
<1>1. IInv => CallbacksAreTrue
  <2> SUFFICES ASSUME IInv
               PROVE  CallbacksAreTrue
      OBVIOUS
  <2>1. EndToldOnce
    <3> SUFFICES ASSUME NEW c \in Conn \ raced
                 PROVE  /\ Cardinality({i \in 1 .. Len(told[c]) : told[c][i] = "off"}) <= 1
                        /\ (peer[c] # "new" /\ ~InBacklog(c) /\ DescriptorsOf(c) = {}
                            /\ pc[App] # "stopped")
                              => \E i \in 1 .. Len(told[c]) : told[c][i] = "off"
                        /\ (kind = "unix" /\ told[c] # <<>>) =>
                              told[c] = <<"on">> \/ (told[c] = <<"on", "off">> /\ Gone(c))
        BY DEF EndToldOnce
    <3>1. Cardinality({i \in 1 .. Len(told[c]) : told[c][i] = "off"}) <= 1
      <4> DEFINE S == {i \in 1 .. Len(told[c]) : told[c][i] = "off"}
      <4>1. \A i, j \in S : i = j
            BY ToldFacts DEF ToldOf, OneOff
      <4> SUFFICES Cardinality(S) <= 1
          OBVIOUS
      <4> HIDE DEF S
      <4>2. CASE S = {}
        <5>1. Cardinality(S) = 0
              BY <4>2, FS_EmptySet
        <5> QED
          BY <5>1
      <4>3. CASE S # {}
        <5>1. PICK i : S = {i}
              BY <4>1, <4>3
        <5>2. Cardinality({i}) = 1
              BY FS_Singleton
        <5> QED
          BY <5>1, <5>2
      <4> QED
        BY <4>2, <4>3
    <3>2. (peer[c] # "new" /\ ~InBacklog(c) /\ DescriptorsOf(c) = {} /\ pc[App] # "stopped")
            => \E i \in 1 .. Len(told[c]) : told[c][i] = "off"
          BY ToldFacts DEF ToldOf, Waiting, OffTold, HasOff
    <3>3. (kind = "unix" /\ told[c] # <<>>) =>
            told[c] = <<"on">> \/ (told[c] = <<"on", "off">> /\ Gone(c))
          BY DEF IInv, UnixTold, UnixToldOf
    <3> QED
      BY <3>1, <3>2, <3>3
  <2>2. HandedOnce
    <3>1. \A c \in Conn :
            /\ \A i, j \in 1 .. Len(handed[c]) : handed[c][i][1] = handed[c][j][1] => i = j
            /\ kind = "unix" => \A i \in 1 .. Len(handed[c]) : handed[c][i][1] = i
          BY PieceFacts DEF PiecesOf
    <3>2. \A c \in Conn : \A i \in 1 .. Len(handed[c]) : Known(c, handed[c][i][2])
          BY JobFacts DEF Addresses
    <3> QED
      BY <3>1, <3>2 DEF HandedOnce, Known, OffTold, HasOff
  <2> QED
    BY <2>1, <2>2 DEF CallbacksAreTrue
<1> QED
  BY <1>1, Invariant, PTL

-----------------------------------------------------------------------------
(* StringIpc: types *)

IpcMessage == [from : I!Name, conn : Nat, n : Nat, to : I!Name]
IpcPiece == [msg : IpcMessage, end : BOOLEAN]
IpcFrame == [heads : Seq(IpcMessage), tail : IpcMessage]
IpcArg ==
  [fd : FD \cup {0}, conn : (Conn \X Nat) \cup {None}, heads : Seq(IpcMessage),
   tail : IpcPiece \cup IpcMessage \cup {None}, close : FD \cup {0}]

ClientTypes ==
  /\ link \in [Conn -> FD \cup {None}] /\ life \in [Conn -> Nat]
  /\ owner \in [FD -> (Conn \X Nat) \cup {None}]
  /\ names \in [Conn -> FD \cup {None}] /\ named \in [Conn -> Nat]
  /\ strings \in [I!Name -> Nat]

WireTypes ==
  /\ inbox \in [FD -> Seq(IpcPiece)] /\ outbox \in [FD -> Seq(IpcPiece)]
  /\ vals \in [FD -> Seq(IpcMessage)] /\ val \in [Conn -> Seq(IpcMessage)]
  /\ queue \in [I!Name -> Seq(IpcFrame)] /\ handedTo \in [I!Name -> Seq(IpcFrame)]

\* What thread t needs at s.
Fits(t, s, a) ==
  /\ s \in {"hand", "pass", "clear"} => a.fd \in FD
  /\ s = "hand" => a.tail \in IpcPiece
  /\ s = "pass" => a.tail \in IpcMessage /\ a.heads # <<>>
  /\ s \in {"off", "close"} => a.close \in FD /\ (t \in Worker => a.fd \in FD)
  /\ t \notin Worker => s \in {"idle", "off", "close"}

ThreadTypes ==
  /\ at \in [I!Thread -> {"idle", "hand", "pass", "clear", "off", "close"}]
  /\ of \in [I!Thread -> IpcArg]
  /\ \A t \in I!Thread : Fits(t, at[t], of[t])

IpcTypes == ClientTypes /\ WireTypes /\ ThreadTypes

LEMMA IpcConstant ==
  /\ IpcServer \notin Conn /\ FD \subseteq Nat \ {0}
  /\ None \notin FD /\ None \notin Conn \X Nat
  /\ I!Listener \notin Worker /\ I!App \notin Worker
  /\ I!Thread = Worker \cup {I!Listener, I!App}
  BY IpcAssumption, ServerAssumption
     DEF I!IpcConstants, I!Listener, I!App, I!Thread, Listener, App

LEMMA IpcInitTypes == I!Init => IpcTypes
<1> SUFFICES ASSUME I!Init PROVE IpcTypes
    OBVIOUS
<1>1. I!Idle \in IpcArg
      BY DEF I!Idle, IpcArg
<1>2. ClientTypes
      BY DEF I!Init, ClientTypes, I!Name
<1>3. WireTypes
      BY DEF I!Init, WireTypes
<1>4. ThreadTypes
      BY <1>1, IpcConstant DEF I!Init, ThreadTypes, Fits, I!Thread
<1> QED
  BY <1>2, <1>3, <1>4 DEF IpcTypes

\* The pieces of a frame.
LEMMA PiecesFrame ==
  ASSUME NEW h \in Seq(IpcMessage), NEW m \in IpcMessage
  PROVE  /\ I!Pieces(h, m) \in Seq(IpcPiece) /\ Len(I!Pieces(h, m)) = Len(h) + 1
         /\ \A i \in 1 .. Len(h) : I!Pieces(h, m)[i] = [msg |-> h[i], end |-> FALSE]
         /\ I!Pieces(h, m)[Len(h) + 1] = [msg |-> m, end |-> TRUE]
<1>1. PICK n \in Nat : n = Len(h)
      OBVIOUS
<1> DEFINE p == [i \in 1 .. n + 1 |-> IF i <= n THEN [msg |-> h[i], end |-> FALSE]
                                      ELSE [msg |-> m, end |-> TRUE]]
<1>2. p = I!Pieces(h, m)
      BY <1>1 DEF I!Pieces
<1>3. \A i \in 1 .. n + 1 : p[i] \in IpcPiece
  <2>1. \A i \in 1 .. n : h[i] \in IpcMessage
        BY <1>1
  <2> QED
    BY <2>1 DEF IpcPiece
<1>4. /\ \A i \in 1 .. n : p[i] = [msg |-> h[i], end |-> FALSE]
      /\ p[n + 1] = [msg |-> m, end |-> TRUE]
      OBVIOUS
<1>5. p \in [1 .. n + 1 -> IpcPiece]
      BY <1>3
<1> HIDE DEF p
<1>6. p \in Seq(IpcPiece)
      BY <1>5, IsASeq
<1>7. Len(p) = n + 1
      BY <1>5, <1>6, LenProperties
<1> QED
  BY <1>1, <1>2, <1>4, <1>6, <1>7

LEMMA SentPieces ==
  ASSUME WireTypes, NEW fd \in FD, NEW h \in Seq(IpcMessage), NEW m \in IpcMessage
  PROVE  /\ [inbox EXCEPT ![fd] = @ \o I!Pieces(h, m)] \in [FD -> Seq(IpcPiece)]
         /\ [outbox EXCEPT ![fd] = @ \o I!Pieces(h, m)] \in [FD -> Seq(IpcPiece)]
<1>1. I!Pieces(h, m) \in Seq(IpcPiece)
      BY PiecesFrame
<1>2. inbox[fd] \in Seq(IpcPiece) /\ outbox[fd] \in Seq(IpcPiece)
      BY DEF WireTypes
<1>3. /\ inbox[fd] \o I!Pieces(h, m) \in Seq(IpcPiece)
      /\ outbox[fd] \o I!Pieces(h, m) \in Seq(IpcPiece)
      BY <1>1, <1>2, ConcatProperties
<1> QED
  BY <1>3 DEF WireTypes

\* The steps of the clients leave the threads alone.
LEMMA ClientStepTypes ==
  ASSUME IpcTypes, NEW c \in Conn,
         \/ I!Connect(c) \/ I!Disconnect(c) \/ I!clientRecv(c)
         \/ \E to \in I!Name \ {c} : I!sendString(c, to)
  PROVE  IpcTypes' /\ UNCHANGED <<at, of>>
<1> USE DEF I!wireVars, I!clientVars, I!tableVars
<1>1. ASSUME UNCHANGED <<at, of>> PROVE ThreadTypes'
      BY <1>1 DEF IpcTypes, ThreadTypes
<1>2. CASE I!Connect(c)
  <2>1. UNCHANGED <<at, of, inbox, outbox, vals, val, queue, handedTo, names, named, strings>>
        BY <1>2 DEF I!Connect
  <2>2. life' = [life EXCEPT ![c] = @ + 1]
        BY <1>2 DEF I!Connect
  <2>3. PICK fd \in FD : /\ link' = [link EXCEPT ![c] = fd]
                         /\ owner' = [owner EXCEPT ![fd] = <<c, life[c] + 1>>]
        BY <1>2 DEF I!Connect
  <2>4. ClientTypes'
        BY <2>1, <2>2, <2>3 DEF IpcTypes, ClientTypes
  <2>5. WireTypes'
        BY <2>1 DEF IpcTypes, WireTypes
  <2> QED
    BY <1>1, <2>1, <2>4, <2>5 DEF IpcTypes
<1>3. CASE I!Disconnect(c)
  <2>1. /\ UNCHANGED <<at, of, inbox, outbox, vals, val, queue, handedTo, names, named, strings,
                       owner, life>>
        /\ link' = [link EXCEPT ![c] = None]
        BY <1>3 DEF I!Disconnect
  <2> QED
    BY <1>1, <2>1 DEF IpcTypes, ClientTypes, WireTypes
<1>4. CASE I!clientRecv(c)
  <2>1. /\ UNCHANGED <<at, of, link, life, owner, inbox, vals, names, named, handedTo, strings>>
        /\ link[c] # None /\ outbox[link[c]] # <<>>
        BY <1>4 DEF I!clientRecv, I!Connected
  <2>2. PICK fd \in FD : fd = link[c]
        BY <2>1 DEF IpcTypes, ClientTypes
  <2>3. PICK p : p = Head(outbox[fd])
        OBVIOUS
  <2>4. p \in IpcPiece /\ Tail(outbox[fd]) \in Seq(IpcPiece)
        BY <2>1, <2>2, <2>3, HeadTailProperties DEF IpcTypes, WireTypes
  <2>5. p.msg \in IpcMessage
        BY <2>4 DEF IpcPiece
  <2>6. /\ val' = [val EXCEPT ![c] = IF p.end THEN <<>> ELSE Append(@, p.msg)]
        /\ queue' = IF p.end /\ val[c] # <<>> /\ Head(val[c]).to = c
                    THEN [queue EXCEPT ![c] = Append(@, [heads |-> val[c], tail |-> p.msg])]
                    ELSE queue
        /\ outbox' = [outbox EXCEPT ![fd] = Tail(@)]
        BY <1>4, <2>2, <2>3 DEF I!clientRecv
  <2>7. val[c] \in Seq(IpcMessage) /\ Append(val[c], p.msg) \in Seq(IpcMessage)
        BY <2>5, AppendProperties DEF IpcTypes, WireTypes
  <2>8. val' \in [Conn -> Seq(IpcMessage)]
        BY <2>6, <2>7 DEF IpcTypes, WireTypes
  <2>9. outbox' \in [FD -> Seq(IpcPiece)]
        BY <2>4, <2>6 DEF IpcTypes, WireTypes
  <2>10. queue' \in [I!Name -> Seq(IpcFrame)]
    <3>1. c \in I!Name /\ [heads |-> val[c], tail |-> p.msg] \in IpcFrame
          BY <2>5, <2>7 DEF I!Name, IpcFrame
    <3>2. queue \in [I!Name -> Seq(IpcFrame)]
          BY DEF IpcTypes, WireTypes
    <3>3. Append(queue[c], [heads |-> val[c], tail |-> p.msg]) \in Seq(IpcFrame)
          BY <3>1, <3>2, AppendProperties
    <3> QED
      BY <2>6, <3>2, <3>3
  <2>11. ClientTypes' /\ WireTypes'
         BY <2>1, <2>8, <2>9, <2>10 DEF IpcTypes, ClientTypes, WireTypes
  <2> QED
    BY <1>1, <2>1, <2>11 DEF IpcTypes
<1>5. ASSUME NEW to \in I!Name, I!sendString(c, to)
      PROVE  IpcTypes' /\ UNCHANGED <<at, of>>
  <2>1. /\ UNCHANGED <<at, of, link, life, owner, outbox, vals, val, names, named, queue, handedTo>>
        /\ strings' = [strings EXCEPT ![c] = @ + 1]
        /\ link[c] # None
        BY <1>5 DEF I!sendString
  <2>2. PICK m : m = [from |-> c, conn |-> life[c], n |-> strings[c] + 1, to |-> to]
        OBVIOUS
  <2>3. c \in I!Name
        BY DEF I!Name
  <2>4. strings[c] + 1 \in Nat /\ strings' \in [I!Name -> Nat] /\ life[c] \in Nat
        BY <2>1, <2>3 DEF IpcTypes, ClientTypes
  <2>5. m \in IpcMessage
        BY <2>2, <2>3, <2>4 DEF IpcMessage
  <2>6. <<m>> \in Seq(IpcMessage)
        BY <2>5
  <2>7. link[c] \in FD
        BY <2>1 DEF IpcTypes, ClientTypes
  <2>8. inbox' \in {inbox, [inbox EXCEPT ![link[c]] = @ \o I!Pieces(<<m>>, m)]}
        BY <1>5, <2>2 DEF I!sendString
  <2>9. inbox' \in [FD -> Seq(IpcPiece)]
    <3>1. WireTypes
          BY DEF IpcTypes
    <3>2. [inbox EXCEPT ![link[c]] = @ \o I!Pieces(<<m>>, m)] \in [FD -> Seq(IpcPiece)]
          BY <2>5, <2>6, <2>7, <3>1, SentPieces
    <3>3. inbox \in [FD -> Seq(IpcPiece)]
          BY <3>1 DEF WireTypes
    <3> QED
      BY <2>8, <3>2, <3>3
  <2>10. ClientTypes' /\ WireTypes'
         BY <2>1, <2>4, <2>9 DEF IpcTypes, ClientTypes, WireTypes
  <2> QED
    BY <1>1, <2>1, <2>10 DEF IpcTypes
<1> QED
  BY <1>2, <1>3, <1>4, <1>5

\* A thread that goes to s with a.
LEMMA ThreadGoes ==
  ASSUME IpcTypes, NEW t \in I!Thread, NEW a \in IpcArg,
         NEW s \in {"idle", "hand", "pass", "clear", "off", "close"}, Fits(t, s, a),
         at' = [at EXCEPT ![t] = s], of' = [of EXCEPT ![t] = a]
  PROVE  ThreadTypes'
<1>1. at' \in [I!Thread -> {"idle", "hand", "pass", "clear", "off", "close"}]
      BY DEF IpcTypes, ThreadTypes
<1>2. of' \in [I!Thread -> IpcArg]
      BY DEF IpcTypes, ThreadTypes
<1>3. ASSUME NEW u \in I!Thread PROVE Fits(u, at'[u], of'[u])
      BY DEF IpcTypes, ThreadTypes
<1> QED
  BY <1>1, <1>2, <1>3 DEF ThreadTypes, Fits

\* The reader begins to handle a piece.
LEMMA RecvTypes ==
  ASSUME IpcTypes, NEW w \in Worker, NEW fd \in FD, I!recv(w, fd)
  PROVE  IpcTypes'
<1> USE DEF I!clientVars, I!wireVars, I!tableVars
<1>1. PICK a : a = [I!Idle EXCEPT !.fd = fd, !.conn = owner[fd], !.tail = Head(inbox[fd])]
      OBVIOUS
<1>2. /\ at' = [at EXCEPT ![w] = "hand"] /\ of' = [of EXCEPT ![w] = a]
      /\ inbox' = [inbox EXCEPT ![fd] = Tail(@)] /\ inbox[fd] # <<>>
      /\ UNCHANGED <<link, life, owner, names, named, strings, outbox, vals, val, queue,
                     handedTo>>
      BY <1>1 DEF I!recv, I!Goto
<1>3. inbox[fd] \in Seq(IpcPiece) /\ owner[fd] \in (Conn \X Nat) \cup {None}
      BY DEF IpcTypes, WireTypes, ClientTypes
<1>4. Head(inbox[fd]) \in IpcPiece /\ Tail(inbox[fd]) \in Seq(IpcPiece)
      BY <1>2, <1>3, HeadTailProperties
<1>5. a \in IpcArg /\ a.fd = fd /\ a.tail \in IpcPiece
  <2>1. a = [fd |-> fd, conn |-> owner[fd], heads |-> <<>>, tail |-> Head(inbox[fd]),
             close |-> 0]
        BY <1>1 DEF I!Idle
  <2>2. <<>> \in Seq(IpcMessage)
        OBVIOUS
  <2> QED
    BY <1>3, <1>4, <2>1, <2>2 DEF IpcArg
<1>6. w \in I!Thread
      BY IpcConstant
<1>7. ThreadTypes'
  <2>1. Fits(w, "hand", a)
        BY <1>5, <1>6 DEF Fits
  <2> QED
    BY <1>2, <1>5, <1>6, <2>1, ThreadGoes
<1>8. inbox' \in [FD -> Seq(IpcPiece)]
  <2>1. inbox \in [FD -> Seq(IpcPiece)]
        BY DEF IpcTypes, WireTypes
  <2> QED
    BY <1>2, <1>4, <2>1
<1>9. ClientTypes' /\ WireTypes'
      BY <1>2, <1>8 DEF IpcTypes, ClientTypes, WireTypes
<1> QED
  BY <1>7, <1>9 DEF IpcTypes

\* A thread that is done.
LEMMA IdleFits ==
  /\ I!Idle \in IpcArg
  /\ \A t \in I!Thread : Fits(t, "idle", I!Idle)
  BY DEF I!Idle, IpcArg, Fits

LEMMA GatherTypes ==
  ASSUME IpcTypes, NEW w \in Worker, I!gather(w) \/ I!clearVal(w)
  PROVE  IpcTypes'
<1> USE DEF I!clientVars, I!wireVars, I!tableVars
<1>1. /\ at' = [at EXCEPT ![w] = "idle"] /\ of' = [of EXCEPT ![w] = I!Idle]
      /\ UNCHANGED <<link, life, owner, names, named, strings, inbox, outbox, val, queue,
                     handedTo>>
      /\ w \in I!Thread /\ at[w] \in {"hand", "clear"}
      BY IpcConstant DEF I!gather, I!clearVal, I!Goto
<1>2. PICK fd \in FD : fd = of[w].fd
      BY <1>1 DEF IpcTypes, ThreadTypes, Fits
<1>3. ThreadTypes'
      BY <1>1, IdleFits, ThreadGoes
<1>4. vals \in [FD -> Seq(IpcMessage)]
      BY DEF IpcTypes, WireTypes
<1>5. vals' \in [FD -> Seq(IpcMessage)]
  <2>1. CASE I!gather(w)
    <3>1. PICK p : p = of[w].tail
          OBVIOUS
    <3>2. p \in IpcPiece
          BY <2>1, <1>1, <3>1 DEF I!gather, IpcTypes, ThreadTypes, Fits
    <3>3. p.msg \in IpcMessage
          BY <3>2 DEF IpcPiece
    <3>4. vals' = [vals EXCEPT ![fd] = IF p.end THEN <<>> ELSE Append(@, p.msg)]
          BY <2>1, <1>2, <3>1 DEF I!gather
    <3>5. Append(vals[fd], p.msg) \in Seq(IpcMessage) /\ <<>> \in Seq(IpcMessage)
          BY <1>4, <3>3, AppendProperties
    <3> QED
      BY <1>4, <3>4, <3>5
  <2>2. CASE I!clearVal(w)
    <3>1. vals' = [vals EXCEPT ![fd] = <<>>] /\ <<>> \in Seq(IpcMessage)
          BY <2>2, <1>2 DEF I!clearVal
    <3> QED
      BY <1>4, <3>1
  <2> QED
    BY <2>1, <2>2
<1>6. ClientTypes' /\ WireTypes'
      BY <1>1, <1>5 DEF IpcTypes, ClientTypes, WireTypes
<1> QED
  BY <1>3, <1>6 DEF IpcTypes

LEMMA RegisterTypes ==
  ASSUME IpcTypes, NEW w \in Worker, I!register(w)
  PROVE  IpcTypes'
<1> USE DEF I!clientVars, I!wireVars, I!tableVars
<1>1. w \in I!Thread /\ at[w] = "hand"
      BY IpcConstant DEF I!register
<1>2. of[w] \in IpcArg /\ of[w].fd \in FD /\ of[w].tail \in IpcPiece
      BY <1>1 DEF IpcTypes, ThreadTypes, Fits
<1>3. PICK fd \in FD : fd = of[w].fd
      BY <1>2
<1>4. vals[fd] \in Seq(IpcMessage) /\ vals[fd] # <<>>
      BY <1>3 DEF I!register, IpcTypes, WireTypes
<1>5. PICK m \in IpcMessage : m = Head(vals[fd])
      BY <1>4, HeadTailProperties
<1>6. PICK a : a = [of[w] EXCEPT !.heads = vals[fd], !.tail = of[w].tail.msg]
      OBVIOUS
<1>7. /\ at' = [at EXCEPT ![w] = "pass"] /\ of' = [of EXCEPT ![w] = a]
      /\ names' = [names EXCEPT ![m.from] = fd] /\ named' = [named EXCEPT ![m.from] = m.conn]
      /\ UNCHANGED <<link, life, owner, strings, inbox, outbox, vals, val, queue, handedTo>>
  <2>1. of' = [of EXCEPT ![w].heads = vals[fd], ![w].tail = @.msg]
        BY <1>3 DEF I!register
  <2>2. of' = [of EXCEPT ![w] = a]
        BY <1>1, <1>6, <2>1 DEF IpcTypes, ThreadTypes, IpcArg
  <2> QED
    BY <1>3, <1>5, <2>2 DEF I!register, I!Goto, I!setClientFD
<1>8. of[w].tail.msg \in IpcMessage
      BY <1>2 DEF IpcPiece
<1>9. a \in IpcArg /\ Fits(w, "pass", a)
  <2>1. a \in IpcArg
        BY <1>2, <1>4, <1>6, <1>8 DEF IpcArg
  <2>2. a.fd = of[w].fd /\ a.tail = of[w].tail.msg /\ a.heads = vals[fd]
        BY <1>2, <1>6 DEF IpcArg
  <2> QED
    BY <1>1, <1>2, <1>4, <1>8, <2>1, <2>2 DEF Fits
<1>10. ThreadTypes'
       BY <1>1, <1>7, <1>9, ThreadGoes
<1>11. m.conn \in Nat
       BY DEF IpcMessage
<1>12. ClientTypes' /\ WireTypes'
       BY <1>7, <1>11 DEF IpcTypes, ClientTypes, WireTypes
<1> QED
  BY <1>10, <1>12 DEF IpcTypes

\* A thread that enters closeClient.
LEMMA BeginCloseTypes ==
  ASSUME IpcTypes, NEW t \in I!Thread, NEW fd \in FD, I!beginClose(t, fd),
         t \notin Worker \/ at[t] \in {"hand", "pass", "clear"}
  PROVE  ThreadTypes'
<1>1. PICK a : a = [of[t] EXCEPT !.close = fd]
      OBVIOUS
<1>2. of[t] \in IpcArg
      BY DEF IpcTypes, ThreadTypes
<1>3. at' = [at EXCEPT ![t] = "off"] /\ of' = [of EXCEPT ![t] = a]
      BY <1>1, <1>2 DEF I!beginClose, I!Goto, IpcTypes, ThreadTypes, IpcArg
<1>4. a \in IpcArg /\ a.close = fd /\ a.fd = of[t].fd
      BY <1>1, <1>2 DEF IpcArg
<1>5. Fits(t, "off", a)
      BY <1>4 DEF Fits, IpcTypes, ThreadTypes
<1> QED
  BY <1>3, <1>4, <1>5, ThreadGoes

\* What a frame that is passed on is.
LEMMA PassedFrame ==
  ASSUME IpcTypes, NEW w \in Worker, at[w] = "pass"
  PROVE  /\ of[w].heads \in Seq(IpcMessage) /\ of[w].tail \in IpcMessage
         /\ of[w].fd \in FD
         /\ Head(of[w].heads).to \in I!Name
<1>1. w \in I!Thread
      BY IpcConstant
<1>2. /\ of[w].heads \in Seq(IpcMessage) /\ of[w].heads # <<>> /\ of[w].tail \in IpcMessage
      /\ of[w].fd \in FD
      BY <1>1 DEF IpcTypes, ThreadTypes, Fits, IpcArg
<1>3. Head(of[w].heads) \in IpcMessage
      BY <1>2, HeadTailProperties
<1> QED
  BY <1>2, <1>3 DEF IpcMessage

LEMMA PassTypes ==
  ASSUME IpcTypes, NEW w \in Worker, I!pass(w)
  PROVE  IpcTypes'
<1> USE DEF I!clientVars, I!wireVars, I!tableVars
<1>1. /\ at[w] = "pass" /\ w \in I!Thread
      /\ UNCHANGED <<link, life, owner, names, named, strings, inbox, vals, val, handedTo>>
      BY IpcConstant DEF I!pass
<1>2. PICK to \in I!Name : to = Head(of[w].heads).to
      BY <1>1, PassedFrame
<1>3. of[w] \in IpcArg /\ (of' = of => of' = [of EXCEPT ![w] = of[w]])
      BY <1>1 DEF IpcTypes, ThreadTypes
<1>4. ASSUME I!Goto(w, "clear"), UNCHANGED of PROVE ThreadTypes'
  <2>1. Fits(w, "clear", of[w])
        BY <1>1, PassedFrame DEF Fits
  <2> QED
    BY <1>1, <1>3, <1>4, <2>1, ThreadGoes DEF I!Goto
<1>5. CASE to = IpcServer
  <2>1. /\ queue' = [queue EXCEPT ![IpcServer] =
                       Append(@, [heads |-> of[w].heads, tail |-> of[w].tail])]
        /\ I!Goto(w, "clear") /\ UNCHANGED <<outbox, of>>
        BY <1>2, <1>5 DEF I!pass
  <2>2. queue' \in [I!Name -> Seq(IpcFrame)]
    <3>1. [heads |-> of[w].heads, tail |-> of[w].tail] \in IpcFrame
          BY <1>1, PassedFrame DEF IpcFrame
    <3>2. queue \in [I!Name -> Seq(IpcFrame)] /\ IpcServer \in I!Name
          BY DEF IpcTypes, WireTypes, I!Name
    <3>3. Append(queue[IpcServer], [heads |-> of[w].heads, tail |-> of[w].tail])
            \in Seq(IpcFrame)
          BY <3>1, <3>2, AppendProperties
    <3> QED
      BY <2>1, <3>2, <3>3
  <2>3. ClientTypes' /\ WireTypes'
        BY <1>1, <2>1, <2>2 DEF IpcTypes, ClientTypes, WireTypes
  <2> QED
    BY <1>4, <2>1, <2>3 DEF IpcTypes
<1>6. CASE to # IpcServer /\ names[to] = None
  <2>1. I!Goto(w, "clear") /\ UNCHANGED <<outbox, of, queue>>
        BY <1>2, <1>6 DEF I!pass
  <2>2. ClientTypes' /\ WireTypes'
        BY <1>1, <2>1 DEF IpcTypes, ClientTypes, WireTypes
  <2> QED
    BY <1>4, <2>1, <2>2 DEF IpcTypes
<1>7. CASE to # IpcServer /\ names[to] # None
  <2>1. /\ I!sendFrame(w, names[to], of[w].heads, of[w].tail, "clear")
        /\ UNCHANGED queue
        BY <1>2, <1>7 DEF I!pass
  <2>2. PICK fd \in FD : fd = names[to]
        BY <1>7 DEF I!Name, IpcTypes, ClientTypes
  <2>3. ThreadTypes'
    <3>1. CASE I!Goto(w, "clear") /\ UNCHANGED of
          BY <1>4, <3>1
    <3>2. CASE I!beginClose(w, fd)
          BY <1>1, <3>2, BeginCloseTypes
    <3> QED
      BY <2>1, <2>2, <3>1, <3>2 DEF I!sendFrame
  <2>4. outbox' \in {outbox, [outbox EXCEPT ![fd] = @ \o I!Pieces(of[w].heads, of[w].tail)]}
        BY <2>1, <2>2 DEF I!sendFrame
  <2>5. outbox' \in [FD -> Seq(IpcPiece)]
    <3>1. WireTypes
          BY DEF IpcTypes
    <3>2. [outbox EXCEPT ![fd] = @ \o I!Pieces(of[w].heads, of[w].tail)] \in [FD -> Seq(IpcPiece)]
          BY <1>1, <3>1, PassedFrame, SentPieces
    <3>3. outbox \in [FD -> Seq(IpcPiece)]
          BY <3>1 DEF WireTypes
    <3> QED
      BY <2>4, <3>2, <3>3
  <2>6. ClientTypes' /\ WireTypes'
        BY <1>1, <2>1, <2>5 DEF IpcTypes, ClientTypes, WireTypes
  <2> QED
    BY <2>3, <2>6 DEF IpcTypes
<1> QED
  BY <1>5, <1>6, <1>7

\* The application sends, or begins to close the connection on which that failed.
LEMMA ServerSendTypes ==
  ASSUME IpcTypes, NEW c \in Conn, I!serverSend(c)
  PROVE  IpcTypes'
<1> USE DEF I!wireVars, I!clientVars, I!tableVars
<1>1. /\ UNCHANGED <<link, life, owner, inbox, vals, val, names, named, queue, handedTo>>
      /\ strings' = [strings EXCEPT ![IpcServer] = @ + 1]
      /\ names[c] # None /\ at[I!App] = "idle"
      BY DEF I!serverSend
<1>2. I!App \in I!Thread /\ I!App \notin Worker
      BY IpcConstant
<1>3. PICK m : m = [from |-> IpcServer, conn |-> 0, n |-> strings[IpcServer] + 1, to |-> c]
      OBVIOUS
<1>4. IpcServer \in I!Name /\ c \in I!Name
      BY DEF I!Name
<1>5. strings[IpcServer] + 1 \in Nat /\ strings' \in [I!Name -> Nat]
      BY <1>1, <1>4 DEF IpcTypes, ClientTypes
<1>6. m \in IpcMessage
      BY <1>3, <1>4, <1>5 DEF IpcMessage
<1>7. <<m>> \in Seq(IpcMessage)
      BY <1>6
<1>8. PICK fd \in FD : fd = names[c]
      BY <1>1 DEF IpcTypes, ClientTypes
<1>9. I!sendFrame(I!App, fd, <<m>>, m, "idle")
      BY <1>3, <1>8 DEF I!serverSend
<1>10. ThreadTypes'
  <2>1. CASE I!Goto(I!App, "idle") /\ UNCHANGED of
    <3>1. at' = [at EXCEPT ![I!App] = "idle"] /\ of' = [of EXCEPT ![I!App] = of[I!App]]
          BY <2>1 DEF I!Goto, IpcTypes, ThreadTypes
    <3>2. of[I!App] \in IpcArg /\ Fits(I!App, "idle", of[I!App])
          BY <1>2 DEF IpcTypes, ThreadTypes, Fits
    <3> QED
      BY <1>2, <3>1, <3>2, ThreadGoes
  <2>2. CASE I!beginClose(I!App, fd)
        BY <1>2, <2>2, BeginCloseTypes
  <2> QED
    BY <1>9, <2>1, <2>2 DEF I!sendFrame
<1>11. outbox' \in {outbox, [outbox EXCEPT ![fd] = @ \o I!Pieces(<<m>>, m)]}
       BY <1>9 DEF I!sendFrame
<1>12. outbox' \in [FD -> Seq(IpcPiece)]
  <2>1. WireTypes
        BY DEF IpcTypes
  <2>2. [outbox EXCEPT ![fd] = @ \o I!Pieces(<<m>>, m)] \in [FD -> Seq(IpcPiece)]
        BY <1>6, <1>7, <2>1, SentPieces
  <2>3. outbox \in [FD -> Seq(IpcPiece)]
        BY <2>1 DEF WireTypes
  <2> QED
    BY <1>11, <2>2, <2>3
<1>13. ClientTypes' /\ WireTypes'
       BY <1>1, <1>5, <1>12 DEF IpcTypes, ClientTypes, WireTypes
<1> QED
  BY <1>10, <1>13 DEF IpcTypes

\* What is known of a thread that closes a descriptor.
LEMMA CloserTypes ==
  ASSUME IpcTypes, NEW t \in I!Thread, at[t] \in {"off", "close"}
  PROVE  of[t] \in IpcArg /\ of[t].close \in FD /\ (t \in Worker => of[t].fd \in FD)
  BY DEF IpcTypes, ThreadTypes, Fits

LEMMA CloseTypes ==
  ASSUME IpcTypes, NEW t \in I!Thread, I!toldOff(t) \/ I!closeFd(t)
  PROVE  IpcTypes'
<1> USE DEF I!clientVars, I!wireVars, I!tableVars
<1>1. /\ at[t] \in {"off", "close"}
      /\ UNCHANGED <<link, life, named, strings, vals, val, queue, handedTo>>
      BY DEF I!toldOff, I!closeFd
<1>2. CASE I!toldOff(t)
  <2>1. /\ at' = [at EXCEPT ![t] = "close"] /\ UNCHANGED <<owner, inbox, outbox, of>>
        /\ \/ UNCHANGED names
           \/ \E c \in Conn : names' = [names EXCEPT ![c] = None]
        BY <1>2 DEF I!toldOff, I!Goto
  <2>2. of' = [of EXCEPT ![t] = of[t]]
        BY <2>1 DEF IpcTypes, ThreadTypes
  <2>3. Fits(t, "close", of[t])
        BY <1>1, CloserTypes DEF Fits
  <2>4. ThreadTypes'
        BY <1>1, <2>1, <2>2, <2>3, CloserTypes, ThreadGoes
  <2>5. ClientTypes' /\ WireTypes'
        BY <1>1, <2>1 DEF IpcTypes, ClientTypes, WireTypes
  <2> QED
    BY <2>4, <2>5 DEF IpcTypes
<1>3. CASE I!closeFd(t)
  <2>1. PICK fd \in FD : fd = of[t].close
        BY <1>1, CloserTypes
  <2>2. PICK a : a = [of[t] EXCEPT !.close = 0]
        OBVIOUS
  <2>3. PICK s : s = IF t \in Worker THEN "clear" ELSE "idle"
        OBVIOUS
  <2>4. /\ at' = [at EXCEPT ![t] = s] /\ UNCHANGED names
        /\ owner' = [owner EXCEPT ![fd] = None] /\ inbox' = [inbox EXCEPT ![fd] = <<>>]
        /\ outbox' = [outbox EXCEPT ![fd] = <<>>]
        /\ of' = [of EXCEPT ![t].close = 0]
        BY <1>3, <2>1, <2>3 DEF I!closeFd, I!Goto
  <2>5. of' = [of EXCEPT ![t] = a]
        BY <2>2, <2>4 DEF IpcTypes, ThreadTypes, IpcArg
  <2>6. a \in IpcArg /\ a.fd = of[t].fd
        BY <1>1, <2>2, CloserTypes DEF IpcArg
  <2>7. Fits(t, s, a)
        BY <1>1, <2>3, <2>6, CloserTypes DEF Fits
  <2>8. ThreadTypes'
    <3>1. s \in {"idle", "clear"}
          BY <2>3
    <3> QED
      BY <2>4, <2>5, <2>6, <2>7, <3>1, ThreadGoes
  <2>9. ClientTypes'
        BY <1>1, <2>4 DEF IpcTypes, ClientTypes
  <2>10. WireTypes'
    <3>1. <<>> \in Seq(IpcPiece)
          OBVIOUS
    <3>2. inbox' \in [FD -> Seq(IpcPiece)] /\ outbox' \in [FD -> Seq(IpcPiece)]
          BY <2>4, <3>1 DEF IpcTypes, WireTypes
    <3> QED
      BY <1>1, <3>2 DEF IpcTypes, WireTypes
  <2> QED
    BY <2>8, <2>9, <2>10 DEF IpcTypes
<1> QED
  BY <1>2, <1>3

LEMMA EndSeenTypes ==
  ASSUME IpcTypes, NEW fd \in FD, I!endSeen(fd)
  PROVE  IpcTypes'
<1> USE DEF I!clientVars, I!wireVars, I!tableVars
<1>1. /\ I!beginClose(I!Listener, fd) /\ I!Listener \in I!Thread /\ I!Listener \notin Worker
      /\ UNCHANGED <<link, life, owner, names, named, strings, inbox, outbox, vals, val, queue,
                     handedTo>>
      BY IpcConstant DEF I!endSeen
<1>2. ThreadTypes'
      BY <1>1, BeginCloseTypes
<1> QED
  BY <1>1, <1>2 DEF IpcTypes, ClientTypes, WireTypes

LEMMA CallMessageTypes ==
  ASSUME IpcTypes, NEW n \in I!Name, I!callMessage(n)
  PROVE  IpcTypes'
<1> USE DEF I!clientVars, I!wireVars, I!tableVars
<1>1. /\ UNCHANGED <<link, life, owner, names, named, strings, inbox, outbox, vals, val, at, of>>
      /\ handedTo' = [handedTo EXCEPT ![n] = Append(@, Head(queue[n]))]
      /\ queue' = [queue EXCEPT ![n] = Tail(@)] /\ queue[n] # <<>>
      BY DEF I!callMessage
<1>2. queue[n] \in Seq(IpcFrame) /\ handedTo[n] \in Seq(IpcFrame)
      BY DEF IpcTypes, WireTypes
<1>3. Head(queue[n]) \in IpcFrame /\ Tail(queue[n]) \in Seq(IpcFrame)
      BY <1>1, <1>2, HeadTailProperties
<1>4. Append(handedTo[n], Head(queue[n])) \in Seq(IpcFrame)
      BY <1>2, <1>3, AppendProperties
<1>5. queue' \in [I!Name -> Seq(IpcFrame)] /\ handedTo' \in [I!Name -> Seq(IpcFrame)]
      BY <1>1, <1>3, <1>4 DEF IpcTypes, WireTypes
<1> QED
  BY <1>1, <1>5 DEF IpcTypes, ClientTypes, WireTypes, ThreadTypes

LEMMA IpcNextTypes == IpcTypes /\ [I!Next]_ipcVars => IpcTypes'
<1> SUFFICES ASSUME IpcTypes, [I!Next]_ipcVars PROVE IpcTypes'
    OBVIOUS
<1>1. ASSUME NEW c \in Conn,
             \/ I!Connect(c) \/ I!Disconnect(c) \/ I!clientRecv(c) \/ I!serverSend(c)
             \/ \E to \in I!Name \ {c} : I!sendString(c, to)
      PROVE  IpcTypes'
      BY <1>1, ClientStepTypes, ServerSendTypes
<1>2. ASSUME NEW n \in I!Name, I!callMessage(n) PROVE IpcTypes'
      BY <1>2, CallMessageTypes
<1>3. ASSUME NEW w \in Worker, I!onRecv(w) PROVE IpcTypes'
      BY <1>3, GatherTypes, RegisterTypes, PassTypes DEF I!onRecv
<1>4. ASSUME NEW w \in Worker, NEW fd \in FD, I!recv(w, fd) PROVE IpcTypes'
      BY <1>4, RecvTypes
<1>5. ASSUME NEW fd \in FD, I!endSeen(fd) PROVE IpcTypes'
      BY <1>5, EndSeenTypes
<1>6. ASSUME NEW t \in I!Thread, I!closeClient(t) PROVE IpcTypes'
      BY <1>6, CloseTypes DEF I!closeClient
<1>7. CASE UNCHANGED ipcVars
      BY <1>7 DEF ipcVars, IpcTypes, ClientTypes, WireTypes, ThreadTypes
<1> QED
  BY <1>1, <1>2, <1>3, <1>4, <1>5, <1>6, <1>7 DEF I!Next

-----------------------------------------------------------------------------
(* StringIpc: names lead to connections *)

\* A descriptor belongs to a connection that was made, and to one at a time.
Owned ==
  /\ \A fd \in FD : owner[fd] # None => owner[fd][2] <= life[owner[fd][1]]
  /\ \A d, fd \in FD : owner[d] # None /\ owner[d] = owner[fd] => d = fd
  /\ \A c \in Conn : link[c] # None => owner[link[c]] = <<c, life[c]>>

\* Who closes a descriptor does it alone, and its client has left it.
ClosersApart ==
  /\ \A t, u \in I!Thread :
       at[t] \in {"off", "close"} /\ at[u] \in {"off", "close"} /\ of[t].close = of[u].close
         => t = u
  /\ \A t \in I!Thread : at[t] \in {"off", "close"} =>
       /\ owner[of[t].close] # None
       /\ \A c \in Conn : link[c] # of[t].close
       /\ at[t] = "close" => \A c \in Conn : names[c] # of[t].close

\* A name leads to a descriptor of its client, the present one if that was named.
Led ==
  \A c \in Conn :
    /\ names[c] # None => owner[names[c]] # None /\ owner[names[c]][1] = c
    /\ named[c] <= life[c]
    /\ I!Connected(c) /\ named[c] = life[c] => names[c] = link[c]

Followed == misnamed \/ ipcRaced \/ (Owned /\ ClosersApart /\ Led)

\* A step that moves no connection, no name and no closer.
LEMMA Unmoved ==
  ASSUME Followed, UNCHANGED <<link, life, owner, names, named>>,
         misnamed => misnamed', ipcRaced => ipcRaced',
         \A t \in I!Thread : at'[t] \in {"off", "close"} =>
           at[t] = at'[t] /\ of[t].close = of'[t].close
  PROVE  Followed'
<1>1. CASE misnamed \/ ipcRaced
      BY <1>1 DEF Followed
<1>2. CASE Owned /\ ClosersApart /\ Led
  <2>1. Owned'
        BY <1>2 DEF Owned
  <2>2. Led'
        BY <1>2 DEF Led, I!Connected
  <2>3. ClosersApart'
        BY <1>2 DEF ClosersApart
  <2> QED
    BY <2>1, <2>2, <2>3 DEF Followed
<1> QED
  BY <1>1, <1>2 DEF Followed

LEMMA FollowedInit == I!Init => Followed
<1> SUFFICES ASSUME I!Init PROVE Followed
    OBVIOUS
<1>1. /\ \A c \in Conn : link[c] = None /\ life[c] = 0 /\ names[c] = None /\ named[c] = 0
      /\ \A fd \in FD : owner[fd] = None
      /\ \A t \in I!Thread : at[t] = "idle"
      BY DEF I!Init
<1> QED
  BY <1>1 DEF Followed, Owned, ClosersApart, Led, I!Connected

LEMMA ConnectFollowed ==
  ASSUME IpcTypes, Followed, NEW c \in Conn, I!Connect(c)
  PROVE  Followed'
<1> USE DEF I!clientVars, I!wireVars, I!tableVars
<1>1. /\ link[c] = None /\ life' = [life EXCEPT ![c] = @ + 1]
      /\ UNCHANGED <<names, named, misnamed, ipcRaced, at, of>>
      BY DEF I!Connect
<1>2. PICK fd \in FD : /\ owner[fd] = None /\ link' = [link EXCEPT ![c] = fd]
                       /\ owner' = [owner EXCEPT ![fd] = <<c, life[c] + 1>>]
      BY DEF I!Connect
<1>3. CASE misnamed \/ ipcRaced
      BY <1>1, <1>3 DEF Followed
<1>4. CASE Owned /\ ClosersApart /\ Led
  <2>1. /\ \A d \in Conn : link[d] \in FD \cup {None} /\ names[d] \in FD \cup {None}
        /\ \A d \in FD : owner[d] \in (Conn \X Nat) \cup {None}
        /\ \A d \in Conn : life[d] \in Nat /\ named[d] \in Nat
        /\ owner \in [FD -> (Conn \X Nat) \cup {None}]
        /\ life \in [Conn -> Nat] /\ link \in [Conn -> FD \cup {None}]
        BY DEF IpcTypes, ClientTypes
  <2>2. /\ life'[c] = life[c] + 1 /\ link'[c] = fd /\ owner'[fd] = <<c, life[c] + 1>>
        /\ \A d \in Conn \ {c} : life'[d] = life[d] /\ link'[d] = link[d]
        /\ \A d \in FD \ {fd} : owner'[d] = owner[d]
        BY <1>1, <1>2, <2>1
  <2>3. owner'[fd] # None
        BY <2>1, <2>2, IpcConstant
  <2>4. \A d \in FD : owner[d] # None => d # fd /\ owner[d] # <<c, life[c] + 1>>
        BY <1>2, <1>4, <2>1 DEF Owned
  <2>5. \A d \in Conn \ {c} : link[d] # None => link[d] # fd
        BY <1>2, <1>4, <2>1, IpcConstant DEF Owned
  <2>6. \A d \in Conn : names[d] # None => names[d] # fd
        BY <1>2, <1>4 DEF Led
  <2>7. Owned'
    <3>1. ASSUME NEW d \in FD, owner'[d] # None PROVE owner'[d][2] <= life'[owner'[d][1]]
      <4>1. CASE d = fd
            BY <2>1, <2>2, <4>1
      <4>2. CASE d # fd
        <5>1. owner[d] \in Conn \X Nat /\ owner'[d] = owner[d]
              BY <2>1, <2>2, <3>1, <4>2
        <5>2. owner[d][1] \in Conn /\ owner[d][2] \in Nat /\ owner[d][2] <= life[owner[d][1]]
              BY <1>4, <2>2, <3>1, <4>2, <5>1 DEF Owned
        <5> QED
          BY <2>1, <2>2, <5>1, <5>2
      <4> QED
        BY <4>1, <4>2
    <3>2. \A d, e \in FD : owner'[d] # None /\ owner'[d] = owner'[e] => d = e
          BY <1>4, <2>2, <2>3, <2>4 DEF Owned
    <3>3. \A d \in Conn : link'[d] # None => owner'[link'[d]] = <<d, life'[d]>>
          BY <1>4, <2>1, <2>2, <2>5 DEF Owned
    <3> QED
      BY <3>1, <3>2, <3>3 DEF Owned
  <2>8. ClosersApart'
    <3>1. \A t \in I!Thread : at[t] \in {"off", "close"} =>
            of[t].close \in FD /\ of[t].close # fd
          BY <1>2, <1>4, CloserTypes DEF ClosersApart
    <3> QED
      BY <1>1, <1>4, <2>2, <3>1 DEF ClosersApart
  <2>9. Led'
    <3>1. ASSUME NEW d \in Conn, names[d] # None
          PROVE  owner'[names[d]] # None /\ owner'[names[d]][1] = d
          BY <1>4, <2>1, <2>2, <2>6, <3>1 DEF Led
    <3>2. \A d \in Conn : named[d] <= life'[d] /\ named[c] # life'[c]
          BY <1>4, <2>1, <2>2 DEF Led
    <3>3. ASSUME NEW d \in Conn \ {c}, I!Connected(d)' PROVE I!Connected(d)
      <4>1. link[d] # None /\ link[d] \in FD /\ link[d] # fd
            BY <2>1, <2>2, <2>5, <3>3 DEF I!Connected
      <4> QED
        BY <2>2, <3>3, <4>1 DEF I!Connected
    <3> QED
      BY <1>1, <1>4, <2>2, <3>1, <3>2, <3>3 DEF Led
  <2> QED
    BY <2>7, <2>8, <2>9 DEF Followed
<1> QED
  BY <1>3, <1>4 DEF Followed

LEMMA DisconnectFollowed ==
  ASSUME IpcTypes, Followed, NEW c \in Conn, I!Disconnect(c)
  PROVE  Followed'
<1> USE DEF I!clientVars, I!wireVars, I!tableVars
<1>1. /\ link' = [link EXCEPT ![c] = None]
      /\ UNCHANGED <<life, owner, names, named, misnamed, ipcRaced, at, of>>
      BY DEF I!Disconnect
<1>2. \A d \in Conn : link'[d] = None \/ link'[d] = link[d]
      BY <1>1 DEF IpcTypes, ClientTypes
<1>3. CASE misnamed \/ ipcRaced
      BY <1>1, <1>3 DEF Followed
<1>4. CASE Owned /\ ClosersApart /\ Led
  <2>1. Owned'
        BY <1>1, <1>2, <1>4 DEF Owned
  <2>2. ClosersApart'
    <3>1. ASSUME NEW t \in I!Thread, at[t] \in {"off", "close"}, NEW d \in Conn
          PROVE  link'[d] # of[t].close
          BY <1>2, <1>4, <3>1, CloserTypes, IpcConstant DEF ClosersApart
    <3> QED
      BY <1>1, <1>4, <3>1 DEF ClosersApart
  <2>3. Led'
    <3>1. \A d \in Conn : I!Connected(d)' => I!Connected(d) /\ link'[d] = link[d]
          BY <1>1, <1>2 DEF I!Connected
    <3> QED
      BY <1>1, <1>4, <3>1 DEF Led
  <2> QED
    BY <2>1, <2>2, <2>3 DEF Followed
<1> QED
  BY <1>3, <1>4 DEF Followed

LEMMA RegisterFollowed ==
  ASSUME IpcTypes, Followed, NEW w \in Worker, I!register(w)
  PROVE  Followed'
<1> USE DEF I!clientVars, I!wireVars, I!tableVars
<1>1. w \in I!Thread /\ at[w] = "hand"
      BY IpcConstant DEF I!register
<1>2. PICK fd \in FD : fd = of[w].fd
      BY <1>1 DEF IpcTypes, ThreadTypes, Fits
<1>3. vals[fd] \in Seq(IpcMessage) /\ vals[fd] # <<>>
      BY <1>2 DEF I!register, IpcTypes, WireTypes
<1>4. PICK m \in IpcMessage : m = Head(vals[fd])
      BY <1>3, HeadTailProperties
<1>5. /\ UNCHANGED <<link, life, owner, ipcRaced>>
      /\ at' = [at EXCEPT ![w] = "pass"]
      /\ names' = [names EXCEPT ![m.from] = fd]
      /\ named' = [named EXCEPT ![m.from] = m.conn]
      /\ misnamed' = (misnamed \/ ~I!Rightly(m, fd))
      BY <1>2, <1>4 DEF I!register, I!Goto, I!setClientFD
<1>6. \A t \in I!Thread : at'[t] \in {"off", "close"} =>
        t # w /\ at[t] = at'[t] /\ of[t].close = of'[t].close
  <2>1. of' = [of EXCEPT ![w].heads = vals[fd], ![w].tail = @.msg]
        BY <1>2 DEF I!register
  <2> QED
    BY <1>1, <1>5, <2>1 DEF IpcTypes, ThreadTypes
<1>7. CASE misnamed \/ ~I!Rightly(m, fd) \/ ipcRaced
      BY <1>5, <1>7 DEF Followed
<1>8. CASE ~misnamed /\ I!Rightly(m, fd) /\ ~ipcRaced
  <2>1. Owned /\ ClosersApart /\ Led
        BY <1>8 DEF Followed
  <2>2. m.from \in I!Name /\ m.conn \in Nat
        BY DEF IpcMessage
  <2>3. CASE m.from \notin Conn
    <3>1. names' = names /\ named' = named
          BY <1>5, <2>3 DEF IpcTypes, ClientTypes
    <3>2. (misnamed => misnamed') /\ (ipcRaced => ipcRaced')
          BY <1>5
    <3> QED
      BY <1>5, <1>6, <3>1, <3>2, Unmoved
  <2>4. CASE m.from \in Conn
    <3>1. PICK c \in Conn : c = m.from
          BY <2>4
    <3>2. /\ owner[fd] = <<c, m.conn>>
          /\ \A t \in I!Thread : ~(at[t] = "close" /\ of[t].close = fd)
          BY <1>8, <3>1 DEF I!Rightly, I!Origin
    <3>3. owner[fd] # None /\ owner[fd][1] = c /\ m.conn <= life[c]
      <4>1. owner[fd] \in Conn \X Nat /\ owner[fd][1] = c /\ owner[fd][2] = m.conn
            BY <2>2, <3>2
      <4>2. owner[fd] # None
            BY <4>1, IpcConstant
      <4> QED
        BY <2>1, <4>1, <4>2 DEF Owned
    <3>4. /\ names'[c] = fd /\ named'[c] = m.conn
          /\ \A d \in Conn \ {c} : names'[d] = names[d] /\ named'[d] = named[d]
          BY <1>5, <3>1 DEF IpcTypes, ClientTypes
    <3>5. Owned'
          BY <1>5, <2>1 DEF Owned
    <3>6. ClosersApart'
          BY <1>5, <1>6, <2>1, <3>2, <3>4 DEF ClosersApart
    <3>7. I!Connected(c) /\ m.conn = life[c] => link[c] = fd
          BY <2>1, <3>2, <3>3 DEF Owned, I!Connected, IpcTypes, ClientTypes
    <3>8. Led'
      <4>1. \A d \in Conn : I!Connected(d)' <=> I!Connected(d)
            BY <1>5 DEF I!Connected
      <4> QED
        BY <1>5, <2>1, <3>3, <3>4, <3>7, <4>1 DEF Led
    <3> QED
      BY <3>5, <3>6, <3>8 DEF Followed
  <2> QED
    BY <2>3, <2>4
<1> QED
  BY <1>7, <1>8

LEMMA BeginCloseFollowed ==
  ASSUME IpcTypes, Followed, NEW t \in I!Thread, NEW fd \in FD, I!beginClose(t, fd), I!Dead(fd),
         at[t] \notin {"off", "close"},
         UNCHANGED <<link, life, owner, names, named, misnamed>>
  PROVE  Followed'
<1>1. /\ owner[fd] # None
      /\ at' = [at EXCEPT ![t] = "off"] /\ of' = [of EXCEPT ![t].close = fd]
      /\ ipcRaced' = (ipcRaced \/ I!Closing(fd) # {})
      BY DEF I!beginClose, I!Goto
<1>2. CASE misnamed \/ ipcRaced \/ I!Closing(fd) # {}
      BY <1>1, <1>2 DEF Followed
<1>3. CASE ~misnamed /\ ~ipcRaced /\ I!Closing(fd) = {}
  <2>1. Owned /\ ClosersApart /\ Led
        BY <1>3 DEF Followed
  <2>2. \A u \in I!Thread : at[u] \in {"off", "close"} => of[u].close # fd
        BY <1>3 DEF I!Closing
  <2>3. /\ at'[t] = "off" /\ of'[t].close = fd
        /\ \A u \in I!Thread \ {t} : at'[u] = at[u] /\ of'[u] = of[u]
        BY <1>1 DEF IpcTypes, ThreadTypes, IpcArg
  <2>4. ASSUME NEW c \in Conn PROVE link[c] # fd
    <3>1. SUFFICES ASSUME link[c] = fd PROVE FALSE
          OBVIOUS
    <3>2. owner[fd] = <<c, life[c]>>
          BY <2>1, <3>1, IpcConstant DEF Owned
    <3> QED
      BY <3>1, <3>2, IpcConstant DEF I!Dead, I!Connected
  <2>5. Owned'
        BY <2>1 DEF Owned
  <2>6. Led'
        BY <2>1 DEF Led, I!Connected
  <2>7. ClosersApart'
        BY <1>1, <2>1, <2>2, <2>3, <2>4 DEF ClosersApart
  <2> QED
    BY <2>5, <2>6, <2>7 DEF Followed
<1> QED
  BY <1>2, <1>3

LEMMA EndSeenFollowed ==
  ASSUME IpcTypes, Followed, NEW fd \in FD, I!endSeen(fd)
  PROVE  Followed'
<1>1. /\ I!beginClose(I!Listener, fd) /\ I!Dead(fd) /\ at[I!Listener] = "idle"
      /\ UNCHANGED <<link, life, owner, names, named, misnamed>>
      BY DEF I!endSeen, I!clientVars, I!wireVars
<1> QED
  BY <1>1, IpcConstant, BeginCloseFollowed

LEMMA PassFollowed ==
  ASSUME IpcTypes, Followed, NEW w \in Worker, I!pass(w)
  PROVE  Followed'
<1>1. /\ at[w] = "pass" /\ w \in I!Thread
      /\ UNCHANGED <<link, life, owner, names, named, misnamed>>
      BY IpcConstant DEF I!pass, I!clientVars
<1>2. PICK to \in I!Name : to = Head(of[w].heads).to
      BY <1>1, PassedFrame
<1>3. ASSUME I!Goto(w, "clear"), UNCHANGED <<of, ipcRaced>> PROVE Followed'
  <2>1. \A t \in I!Thread : at'[t] \in {"off", "close"} => at[t] = at'[t]
        BY <1>3 DEF I!Goto, IpcTypes, ThreadTypes
  <2> QED
    BY <1>1, <1>3, <2>1, Unmoved
<1>4. CASE to = IpcServer \/ names[to] = None
  <2>1. I!Goto(w, "clear") /\ UNCHANGED <<of, ipcRaced>>
        BY <1>2, <1>4 DEF I!pass
  <2> QED
    BY <1>3, <2>1
<1>5. CASE to # IpcServer /\ names[to] # None
  <2>1. PICK fd \in FD : fd = names[to]
        BY <1>5 DEF I!Name, IpcTypes, ClientTypes
  <2>2. I!sendFrame(w, fd, of[w].heads, of[w].tail, "clear")
        BY <1>2, <1>5, <2>1 DEF I!pass
  <2>3. CASE I!Goto(w, "clear") /\ UNCHANGED <<of, ipcRaced>>
        BY <1>3, <2>3
  <2>4. CASE I!beginClose(w, fd) /\ (owner[fd] = None \/ I!Dead(fd))
    <3>1. I!Dead(fd)
          BY <2>4 DEF I!beginClose
    <3> QED
      BY <1>1, <2>4, <3>1, BeginCloseFollowed
  <2> QED
    BY <2>2, <2>3, <2>4 DEF I!sendFrame
<1> QED
  BY <1>4, <1>5

LEMMA ServerSendFollowed ==
  ASSUME IpcTypes, Followed, NEW c \in Conn, I!serverSend(c)
  PROVE  Followed'
<1>1. /\ at[I!App] = "idle" /\ I!App \in I!Thread /\ names[c] # None
      /\ UNCHANGED <<link, life, owner, names, named, misnamed>>
      BY IpcConstant DEF I!serverSend, I!clientVars
<1>2. PICK fd \in FD : fd = names[c]
      BY <1>1 DEF IpcTypes, ClientTypes
<1>3. PICK m : I!sendFrame(I!App, fd, <<m>>, m, "idle")
      BY <1>2 DEF I!serverSend
<1>4. CASE I!Goto(I!App, "idle") /\ UNCHANGED <<of, ipcRaced>>
  <2>1. \A t \in I!Thread : at'[t] \in {"off", "close"} => at[t] = at'[t]
        BY <1>4 DEF I!Goto, IpcTypes, ThreadTypes
  <2> QED
    BY <1>1, <1>4, <2>1, Unmoved
<1>5. CASE I!beginClose(I!App, fd) /\ (owner[fd] = None \/ I!Dead(fd))
  <2>1. I!Dead(fd)
        BY <1>5 DEF I!beginClose
  <2> QED
    BY <1>1, <1>5, <2>1, BeginCloseFollowed
<1> QED
  BY <1>3, <1>4, <1>5 DEF I!sendFrame

LEMMA ToldOffFollowed ==
  ASSUME IpcTypes, Followed, NEW t \in I!Thread, I!toldOff(t)
  PROVE  Followed'
<1>1. /\ at[t] = "off" /\ at' = [at EXCEPT ![t] = "close"]
      /\ UNCHANGED <<link, life, owner, named, misnamed, ipcRaced, of>>
      BY DEF I!toldOff, I!Goto, I!clientVars, I!wireVars
<1>2. PICK fd \in FD : fd = of[t].close
      BY <1>1, CloserTypes
<1>3. CASE misnamed \/ ipcRaced
      BY <1>1, <1>3 DEF Followed
<1>4. CASE Owned /\ ClosersApart /\ Led
  <2>1. /\ \A c \in Conn : names'[c] = names[c] \/ (names[c] = fd /\ names'[c] = None)
        /\ \A c \in Conn : names'[c] # fd
    <3>1. PICK on : on = {c \in Conn : names[c] = fd}
          OBVIOUS
    <3>2. \/ on = {} /\ UNCHANGED names
          \/ \E c \in on : names' = [names EXCEPT ![c] = None]
          BY <1>2, <3>1 DEF I!toldOff
    <3>3. CASE on = {} /\ UNCHANGED names
          BY <3>1, <3>3
    <3>4. ASSUME NEW c \in on, names' = [names EXCEPT ![c] = None]
          PROVE  /\ \A d \in Conn : names'[d] = names[d] \/ (names[d] = fd /\ names'[d] = None)
                 /\ \A d \in Conn : names'[d] # fd
      <4>1. c \in Conn /\ names[c] = fd
            BY <3>1, <3>4
      <4>2. names'[c] = None /\ \A d \in Conn \ {c} : names'[d] = names[d]
            BY <3>4, <4>1 DEF IpcTypes, ClientTypes
      <4>3. \A d \in Conn \ {c} : names[d] # fd
            BY <1>4, <4>1, IpcConstant DEF Led
      <4> QED
        BY <4>1, <4>2, <4>3, IpcConstant
    <3> QED
      BY <3>2, <3>3, <3>4
  <2>2. Owned'
        BY <1>1, <1>4 DEF Owned
  <2>3. /\ at'[t] = "close" /\ \A u \in I!Thread \ {t} : at'[u] = at[u]
        BY <1>1 DEF IpcTypes, ThreadTypes
  <2>4. ClosersApart'
    <3>1. ASSUME NEW u \in I!Thread, at'[u] = "close", NEW c \in Conn
          PROVE  names'[c] # of[u].close
      <4>1. CASE u = t
            BY <1>2, <2>1, <4>1
      <4>2. CASE u # t
        <5>1. of[u].close \in FD /\ names[c] # of[u].close
              BY <1>4, <2>3, <3>1, <4>2, CloserTypes DEF ClosersApart
        <5> QED
          BY <2>1, <5>1, IpcConstant
      <4> QED
        BY <4>1, <4>2
    <3>2. \A u \in I!Thread : at'[u] \in {"off", "close"} <=> at[u] \in {"off", "close"}
          BY <1>1, <2>3
    <3>3. \A u, v \in I!Thread :
            at'[u] \in {"off", "close"} /\ at'[v] \in {"off", "close"}
              /\ of'[u].close = of'[v].close => u = v
          BY <1>1, <1>4, <3>2 DEF ClosersApart
    <3>4. \A u \in I!Thread : at'[u] \in {"off", "close"} =>
            owner'[of'[u].close] # None /\ \A c \in Conn : link'[c] # of'[u].close
          BY <1>1, <1>4, <3>2 DEF ClosersApart
    <3> QED
      BY <1>1, <3>1, <3>3, <3>4 DEF ClosersApart
  <2>5. Led'
    <3>1. \A c \in Conn : I!Connected(c)' => I!Connected(c) /\ link[c] # fd
          BY <1>1, <1>2, <1>4 DEF ClosersApart, I!Connected
    <3> QED
      BY <1>1, <1>4, <2>1, <3>1 DEF Led
  <2> QED
    BY <2>2, <2>4, <2>5 DEF Followed
<1> QED
  BY <1>3, <1>4 DEF Followed

LEMMA CloseFdFollowed ==
  ASSUME IpcTypes, Followed, NEW t \in I!Thread, I!closeFd(t)
  PROVE  Followed'
<1>1. PICK fd \in FD : fd = of[t].close
      BY CloserTypes DEF I!closeFd
<1>2. /\ at[t] = "close" /\ owner' = [owner EXCEPT ![fd] = None]
      /\ at' = [at EXCEPT ![t] = IF t \in Worker THEN "clear" ELSE "idle"]
      /\ of' = [of EXCEPT ![t].close = 0]
      /\ UNCHANGED <<link, life, names, named, misnamed, ipcRaced>>
      BY <1>1 DEF I!closeFd, I!Goto, I!clientVars, I!tableVars
<1>3. CASE misnamed \/ ipcRaced
      BY <1>2, <1>3 DEF Followed
<1>4. CASE Owned /\ ClosersApart /\ Led
  <2>1. owner'[fd] = None /\ \A d \in FD \ {fd} : owner'[d] = owner[d]
        BY <1>2 DEF IpcTypes, ClientTypes
  <2>2. \A c \in Conn : link[c] # fd /\ names[c] # fd
        BY <1>1, <1>2, <1>4 DEF ClosersApart
  <2>3. \A c \in Conn : link[c] \in FD \cup {None} /\ names[c] \in FD \cup {None}
        BY DEF IpcTypes, ClientTypes
  <2>4. \A u \in I!Thread : at'[u] \in {"off", "close"} =>
          /\ u # t /\ at'[u] = at[u] /\ of'[u].close = of[u].close
          /\ of[u].close \in FD /\ of[u].close # fd
    <3>1. \A u \in I!Thread : at'[u] \in {"off", "close"} =>
            u # t /\ at'[u] = at[u] /\ of'[u].close = of[u].close
      <4>1. DOMAIN at = I!Thread /\ DOMAIN of = I!Thread
            BY DEF IpcTypes, ThreadTypes
      <4>2. at'[t] \notin {"off", "close"}
            BY <1>2, <4>1
      <4> QED
        BY <1>2, <4>1, <4>2
    <3> QED
      BY <1>1, <1>2, <1>4, <3>1, CloserTypes DEF ClosersApart
  <2>5. Owned'
        BY <1>2, <1>4, <2>1, <2>2, <2>3 DEF Owned
  <2>6. ClosersApart'
        BY <1>2, <1>4, <2>1, <2>4 DEF ClosersApart
  <2>7. Led'
    <3>1. \A c \in Conn : I!Connected(c)' => I!Connected(c)
          BY <1>2, <2>1, <2>2, <2>3 DEF I!Connected
    <3> QED
      BY <1>2, <1>4, <2>1, <2>2, <2>3, <3>1 DEF Led
  <2> QED
    BY <2>5, <2>6, <2>7 DEF Followed
<1> QED
  BY <1>3, <1>4 DEF Followed

LEMMA OtherFollowed ==
  ASSUME IpcTypes, Followed,
         \/ \E c \in Conn : \/ I!clientRecv(c)
                            \/ \E to \in I!Name \ {c} : I!sendString(c, to)
         \/ \E n \in I!Name : I!callMessage(n)
         \/ \E w \in Worker : I!gather(w) \/ I!clearVal(w) \/ \E fd \in FD : I!recv(w, fd)
  PROVE  Followed'
<1> USE DEF I!clientVars, I!wireVars, I!tableVars
<1>1. ASSUME UNCHANGED <<link, life, owner, names, named, misnamed, ipcRaced, at, of>>
      PROVE  Followed'
      BY <1>1, Unmoved
<1>2. ASSUME NEW w \in Worker, NEW s \in {"idle", "hand"}, at' = [at EXCEPT ![w] = s],
             \A t \in I!Thread \ {w} : of'[t] = of[t],
             UNCHANGED <<link, life, owner, names, named, misnamed, ipcRaced>>
      PROVE  Followed'
  <2>1. \A t \in I!Thread : at'[t] \in {"off", "close"} =>
          at[t] = at'[t] /\ of[t].close = of'[t].close
        BY <1>2, IpcConstant DEF IpcTypes, ThreadTypes
  <2> QED
    BY <1>2, <2>1, Unmoved
<1>3. ASSUME NEW c \in Conn,
             \/ I!clientRecv(c) \/ \E to \in I!Name \ {c} : I!sendString(c, to)
      PROVE  Followed'
      BY <1>1, <1>3 DEF I!clientRecv, I!sendString
<1>4. ASSUME NEW n \in I!Name, I!callMessage(n) PROVE Followed'
      BY <1>1, <1>4 DEF I!callMessage
<1>5. ASSUME NEW w \in Worker, I!gather(w) \/ I!clearVal(w) PROVE Followed'
  <2>1. /\ at' = [at EXCEPT ![w] = "idle"] /\ of' = [of EXCEPT ![w] = I!Idle]
        /\ UNCHANGED <<link, life, owner, names, named, misnamed, ipcRaced>>
        BY <1>5 DEF I!gather, I!clearVal, I!Goto
  <2>2. \A t \in I!Thread \ {w} : of'[t] = of[t]
        BY <2>1 DEF IpcTypes, ThreadTypes
  <2> QED
    BY <1>2, <2>1, <2>2
<1>6. ASSUME NEW w \in Worker, NEW fd \in FD, I!recv(w, fd) PROVE Followed'
  <2>1. /\ at' = [at EXCEPT ![w] = "hand"]
        /\ UNCHANGED <<link, life, owner, names, named, misnamed, ipcRaced>>
        BY <1>6 DEF I!recv, I!Goto
  <2>2. \A t \in I!Thread \ {w} : of'[t] = of[t]
        BY <1>6 DEF I!recv, IpcTypes, ThreadTypes
  <2> QED
    BY <1>2, <2>1, <2>2
<1> QED
  BY <1>3, <1>4, <1>5, <1>6

LEMMA IpcNextFollowed == IpcTypes /\ Followed /\ [I!Next]_ipcVars => Followed'
<1> SUFFICES ASSUME IpcTypes, Followed, [I!Next]_ipcVars PROVE Followed'
    OBVIOUS
<1>1. ASSUME NEW c \in Conn,
             \/ I!Connect(c) \/ I!Disconnect(c) \/ I!clientRecv(c) \/ I!serverSend(c)
             \/ \E to \in I!Name \ {c} : I!sendString(c, to)
      PROVE  Followed'
      BY <1>1, ConnectFollowed, DisconnectFollowed, ServerSendFollowed, OtherFollowed
<1>2. ASSUME NEW n \in I!Name, I!callMessage(n) PROVE Followed'
      BY <1>2, OtherFollowed
<1>3. ASSUME NEW w \in Worker, I!onRecv(w) PROVE Followed'
      BY <1>3, OtherFollowed, RegisterFollowed, PassFollowed DEF I!onRecv
<1>4. ASSUME NEW w \in Worker, NEW fd \in FD, I!recv(w, fd) PROVE Followed'
      BY <1>4, OtherFollowed
<1>5. ASSUME NEW fd \in FD, I!endSeen(fd) PROVE Followed'
      BY <1>5, EndSeenFollowed
<1>6. ASSUME NEW t \in I!Thread, I!closeClient(t) PROVE Followed'
      BY <1>6, ToldOffFollowed, CloseFdFollowed DEF I!closeClient
<1>7. CASE UNCHANGED ipcVars
      BY <1>7, Unmoved DEF ipcVars
<1> QED
  BY <1>1, <1>2, <1>3, <1>4, <1>5, <1>6, <1>7 DEF I!Next

\* A name of ComStringIpcServer leads to an open connection of its client, and to
\* the present one once a frame from that was taken, for any number of clients,
\* threads and strings, unless a frame was registered late or two threads closed
\* one connection (com_socket.cpp: clients, removeClientFD).
THEOREM NamesFollowClients == ServersSpec => []NamesFollow
<1>1. ServersInit => IpcTypes /\ Followed
      BY IpcInitTypes, FollowedInit DEF ServersInit
<1>2. IpcTypes /\ Followed /\ [ServersNext]_<<part, vars, ipcVars>> => (IpcTypes /\ Followed)'
  <2> SUFFICES ASSUME IpcTypes, Followed, [ServersNext]_<<part, vars, ipcVars>>
               PROVE  (IpcTypes /\ Followed)'
      OBVIOUS
  <2>1. [I!Next]_ipcVars
        BY DEF ServersNext
  <2> QED
    BY <2>1, IpcNextTypes, IpcNextFollowed
<1>3. Followed => NamesFollow
      BY DEF Followed, Led, NamesFollow, I!NamesFollow
<1> QED
  BY <1>1, <1>2, <1>3, PTL DEF ServersSpec

-----------------------------------------------------------------------------
(* StringIpc: the steps, by what they move *)

Busy(w) == at[w] # "idle"

\* No reader takes or gives up anything, or goes on to do so.
Rests ==
  \A w \in Worker :
    /\ Busy(w)' <=> Busy(w)
    /\ Busy(w) => of'[w].fd = of[w].fd /\ of'[w].conn = of[w].conn
    /\ at[w] = "hand" => at'[w] = "hand"
    /\ at'[w] \in {"hand", "pass"} =>
         at'[w] = at[w] /\ of'[w].heads = of[w].heads /\ of'[w].tail = of[w].tail

\* Who is connected was so before.
LinksStay == \A c \in Conn : I!Connected(c)' => I!Connected(c) /\ link'[c] = link[c]

QuietStep ==
  /\ Rests /\ LinksStay
  /\ UNCHANGED <<life, owner, inbox, outbox, vals, val, queue, handedTo, mixed>>
  /\ \A n \in I!Name : strings[n] <= strings'[n]

ConnectStep(c, fd) ==
  /\ Rests
  /\ owner[fd] = None /\ link[c] = None
  /\ link' = [link EXCEPT ![c] = fd] /\ life' = [life EXCEPT ![c] = @ + 1]
  /\ owner' = [owner EXCEPT ![fd] = <<c, life[c] + 1>>]
  /\ UNCHANGED <<inbox, outbox, vals, val, queue, handedTo, mixed, strings>>

\* A message of s gets a number of its own.
Numbers(s, m) == m.from = s /\ m.n = strings[s] + 1 /\ strings' = [strings EXCEPT ![s] = @ + 1]

SendStep(c, fd, m) ==
  /\ Rests /\ LinksStay
  /\ owner[fd] = <<c, life[c]>> /\ Numbers(c, m) /\ m.conn = life[c]
  /\ inbox' = [inbox EXCEPT ![fd] = @ \o I!Pieces(<<m>>, m)]
  /\ UNCHANGED <<life, owner, outbox, vals, val, queue, handedTo, mixed>>

ServerSendStep(fd, m) ==
  /\ Rests /\ LinksStay
  /\ owner[fd] # None /\ Numbers(IpcServer, m)
  /\ outbox' = [outbox EXCEPT ![fd] = @ \o I!Pieces(<<m>>, m)]
  /\ UNCHANGED <<life, owner, inbox, vals, val, queue, handedTo, mixed>>

ClientRecvStep(c, fd, p) ==
  /\ Rests /\ LinksStay
  /\ I!Connected(c) /\ fd = link[c] /\ outbox[fd] # <<>> /\ p = Head(outbox[fd])
  /\ outbox' = [outbox EXCEPT ![fd] = Tail(@)]
  /\ val' = [val EXCEPT ![c] = IF p.end THEN <<>> ELSE Append(@, p.msg)]
  /\ queue' = IF p.end /\ val[c] # <<>> /\ Head(val[c]).to = c
              THEN [queue EXCEPT ![c] = Append(@, [heads |-> val[c], tail |-> p.msg])]
              ELSE queue
  /\ UNCHANGED <<life, owner, inbox, vals, handedTo, mixed, strings>>

CallStep(n) ==
  /\ Rests /\ LinksStay
  /\ queue[n] # <<>>
  /\ handedTo' = [handedTo EXCEPT ![n] = Append(@, Head(queue[n]))]
  /\ queue' = [queue EXCEPT ![n] = Tail(@)]
  /\ UNCHANGED <<life, owner, inbox, outbox, vals, val, mixed, strings>>

\* A closed descriptor has nothing on the way.
CloseStep(fd) ==
  /\ Rests /\ LinksStay
  /\ owner' = [owner EXCEPT ![fd] = None]
  /\ inbox' = [inbox EXCEPT ![fd] = <<>>] /\ outbox' = [outbox EXCEPT ![fd] = <<>>]
  /\ UNCHANGED <<life, vals, val, queue, handedTo, mixed, strings>>

Others(w) == \A v \in Worker \ {w} : at'[v] = at[v] /\ of'[v] = of[v]

RecvStep(w, fd) ==
  /\ Others(w) /\ LinksStay
  /\ ~Busy(w) /\ owner[fd] # None /\ inbox[fd] # <<>>
  /\ at'[w] = "hand" /\ of'[w].fd = fd /\ of'[w].conn = owner[fd]
  /\ of'[w].tail = Head(inbox[fd])
  /\ inbox' = [inbox EXCEPT ![fd] = Tail(@)]
  /\ mixed \subseteq mixed'
  /\ \A v \in Worker : Busy(v) /\ of[v].fd = fd => {owner[fd], of[v].conn} \subseteq mixed'
  /\ UNCHANGED <<life, owner, outbox, vals, val, queue, handedTo, strings>>

GatherStep(w, fd, p) ==
  /\ Others(w) /\ LinksStay
  /\ at[w] = "hand" /\ fd = of[w].fd /\ p = of[w].tail /\ at'[w] = "idle"
  /\ p.end => vals[fd] = <<>>
  /\ vals' = [vals EXCEPT ![fd] = IF p.end THEN <<>> ELSE Append(@, p.msg)]
  /\ UNCHANGED <<life, owner, inbox, outbox, val, queue, handedTo, mixed, strings>>

RegisterStep(w, fd) ==
  /\ Others(w) /\ LinksStay
  /\ at[w] = "hand" /\ fd = of[w].fd /\ of[w].tail.end /\ vals[fd] # <<>>
  /\ at'[w] = "pass" /\ of'[w].fd = fd /\ of'[w].conn = of[w].conn
  /\ of'[w].heads = vals[fd] /\ of'[w].tail = of[w].tail.msg
  /\ UNCHANGED <<life, owner, inbox, outbox, vals, val, queue, handedTo, mixed, strings>>

\* The reader goes on with what it has in hand.
Clears(w) ==
  /\ Others(w) /\ LinksStay
  /\ at[w] = "pass" /\ at'[w] = "clear" /\ of'[w] = of[w]

ToQueueStep(w) ==
  /\ Clears(w) /\ Head(of[w].heads).to = IpcServer
  /\ queue' = [queue EXCEPT ![IpcServer] =
                 Append(@, [heads |-> of[w].heads, tail |-> of[w].tail])]
  /\ UNCHANGED <<life, owner, inbox, outbox, vals, val, handedTo, mixed, strings>>

ToOutboxStep(w, fd) ==
  /\ Clears(w) /\ owner[fd] # None
  /\ outbox' = [outbox EXCEPT ![fd] = @ \o I!Pieces(of[w].heads, of[w].tail)]
  /\ UNCHANGED <<life, owner, inbox, vals, val, queue, handedTo, mixed, strings>>

ClearStep(w, fd) ==
  /\ Others(w) /\ LinksStay
  /\ at[w] = "clear" /\ fd = of[w].fd /\ at'[w] = "idle"
  /\ vals' = [vals EXCEPT ![fd] = <<>>]
  /\ UNCHANGED <<life, owner, inbox, outbox, val, queue, handedTo, mixed, strings>>

IpcStep ==
  \/ QuietStep
  \/ \E c \in Conn, fd \in FD : ConnectStep(c, fd)
  \/ \E c \in Conn, fd \in FD, m \in IpcMessage : SendStep(c, fd, m)
  \/ \E fd \in FD, m \in IpcMessage : ServerSendStep(fd, m)
  \/ \E c \in Conn, fd \in FD, p \in IpcPiece : ClientRecvStep(c, fd, p)
  \/ \E n \in I!Name : CallStep(n)
  \/ \E fd \in FD : CloseStep(fd)
  \/ \E w \in Worker, fd \in FD : \/ RecvStep(w, fd) \/ RegisterStep(w, fd)
                                  \/ ToOutboxStep(w, fd) \/ ClearStep(w, fd)
  \/ \E w \in Worker, fd \in FD, p \in IpcPiece : GatherStep(w, fd, p)
  \/ \E w \in Worker : ToQueueStep(w)

LEMMA SameThreads ==
  UNCHANGED <<at, of>> => Rests
  BY DEF Rests, Busy

LEMMA SameLinks ==
  UNCHANGED <<link, life, owner>> => LinksStay
  BY DEF LinksStay, I!Connected

LEMMA ClientStepIs ==
  ASSUME IpcTypes, NEW c \in Conn,
         \/ I!Connect(c) \/ I!Disconnect(c) \/ I!clientRecv(c) \/ I!serverSend(c)
         \/ \E to \in I!Name \ {c} : I!sendString(c, to)
  PROVE  IpcStep
<1> USE DEF I!wireVars, I!clientVars, I!tableVars
<1>1. strings \in [I!Name -> Nat] /\ Conn \subseteq I!Name /\ IpcServer \in I!Name
      BY DEF IpcTypes, ClientTypes, I!Name
<1>2. CASE I!Connect(c)
  <2>1. PICK fd \in FD : ConnectStep(c, fd)
        BY <1>2, SameThreads DEF I!Connect, ConnectStep
  <2> QED
    BY <2>1 DEF IpcStep
<1>3. CASE I!Disconnect(c)
  <2>1. /\ UNCHANGED <<at, of, life, owner, inbox, outbox, vals, val, queue, handedTo, mixed,
                       strings>>
        /\ link' = [link EXCEPT ![c] = None]
        BY <1>3 DEF I!Disconnect
  <2>2. LinksStay
        BY <2>1 DEF LinksStay, I!Connected, IpcTypes, ClientTypes
  <2>3. QuietStep
        BY <1>1, <2>1, <2>2, SameThreads DEF QuietStep
  <2> QED
    BY <2>3 DEF IpcStep
<1>4. CASE I!clientRecv(c)
  <2>1. /\ UNCHANGED <<at, of, link, life, owner, inbox, vals, handedTo, mixed, strings>>
        /\ I!Connected(c) /\ outbox[link[c]] # <<>>
        BY <1>4 DEF I!clientRecv
  <2>2. PICK fd \in FD : fd = link[c]
        BY <2>1 DEF IpcTypes, ClientTypes, I!Connected
  <2>3. outbox[fd] \in Seq(IpcPiece)
        BY DEF IpcTypes, WireTypes
  <2>4. PICK p \in IpcPiece : p = Head(outbox[fd])
        BY <2>1, <2>2, <2>3, HeadTailProperties
  <2>5. ClientRecvStep(c, fd, p)
        BY <1>4, <2>1, <2>2, <2>4, SameThreads, SameLinks DEF I!clientRecv, ClientRecvStep
  <2> QED
    BY <2>5 DEF IpcStep
<1>5. CASE I!serverSend(c)
  <2>1. /\ UNCHANGED <<link, life, owner, inbox, vals, val, queue, handedTo, mixed>>
        /\ strings' = [strings EXCEPT ![IpcServer] = @ + 1]
        /\ names[c] # None
        BY <1>5 DEF I!serverSend
  <2>2. PICK fd \in FD : fd = names[c]
        BY <2>1 DEF IpcTypes, ClientTypes
  <2>3. PICK m : m = [from |-> IpcServer, conn |-> 0, n |-> strings[IpcServer] + 1, to |-> c]
        OBVIOUS
  <2>4. m \in IpcMessage /\ Numbers(IpcServer, m)
        BY <1>1, <2>1, <2>3 DEF IpcMessage, Numbers
  <2>5. I!sendFrame(I!App, fd, <<m>>, m, "idle")
        BY <1>5, <2>2, <2>3 DEF I!serverSend
  <2>6. Rests /\ LinksStay
    <3>1. Worker \subseteq I!Thread /\ I!App \notin Worker
          BY IpcConstant
    <3>2. \/ at' = [at EXCEPT ![I!App] = "idle"] /\ of' = of
          \/ at' = [at EXCEPT ![I!App] = "off"] /\ of' = [of EXCEPT ![I!App].close = fd]
          BY <2>5 DEF I!sendFrame, I!beginClose, I!Goto
    <3>3. \A v \in Worker : at'[v] = at[v] /\ of'[v] = of[v]
          BY <3>1, <3>2 DEF IpcTypes, ThreadTypes
    <3> QED
      BY <2>1, <3>3, SameLinks DEF Rests, Busy
  <2>7. CASE UNCHANGED outbox
    <3>1. QuietStep
          BY <1>1, <2>1, <2>6, <2>7 DEF QuietStep
    <3> QED
      BY <3>1 DEF IpcStep
  <2>8. CASE owner[fd] # None /\ outbox' = [outbox EXCEPT ![fd] = @ \o I!Pieces(<<m>>, m)]
    <3>1. ServerSendStep(fd, m)
          BY <2>1, <2>4, <2>6, <2>8 DEF ServerSendStep
    <3> QED
      BY <2>4, <3>1 DEF IpcStep
  <2> QED
    BY <2>5, <2>7, <2>8 DEF I!sendFrame
<1>6. ASSUME NEW to \in I!Name, I!sendString(c, to)
      PROVE  IpcStep
  <2>1. /\ UNCHANGED <<at, of, link, life, owner, outbox, vals, val, queue, handedTo, mixed>>
        /\ strings' = [strings EXCEPT ![c] = @ + 1]
        /\ link[c] # None
        BY <1>6 DEF I!sendString
  <2>2. Rests /\ LinksStay
        BY <2>1, SameThreads, SameLinks
  <2>3. PICK fd \in FD : fd = link[c]
        BY <2>1 DEF IpcTypes, ClientTypes
  <2>4. PICK m : m = [from |-> c, conn |-> life[c], n |-> strings[c] + 1, to |-> to]
        OBVIOUS
  <2>5. m \in IpcMessage /\ Numbers(c, m) /\ m.conn = life[c]
        BY <1>1, <2>1, <2>4 DEF IpcMessage, Numbers, IpcTypes, ClientTypes
  <2>6. inbox' = IF I!Connected(c) THEN [inbox EXCEPT ![fd] = @ \o I!Pieces(<<m>>, m)]
                 ELSE inbox
        BY <1>6, <2>3, <2>4 DEF I!sendString
  <2>7. CASE UNCHANGED inbox
    <3>1. QuietStep
          BY <1>1, <2>1, <2>2, <2>7 DEF QuietStep
    <3> QED
      BY <3>1 DEF IpcStep
  <2>8. CASE I!Connected(c) /\ inbox' = [inbox EXCEPT ![fd] = @ \o I!Pieces(<<m>>, m)]
    <3>1. SendStep(c, fd, m)
          BY <2>1, <2>2, <2>3, <2>5, <2>8 DEF SendStep, I!Connected
    <3> QED
      BY <2>5, <3>1 DEF IpcStep
  <2> QED
    BY <2>6, <2>7, <2>8
<1> QED
  BY <1>2, <1>3, <1>4, <1>5, <1>6

LEMMA ReaderStepIs ==
  ASSUME IpcTypes, NEW w \in Worker, I!onRecv(w) \/ \E fd \in FD : I!recv(w, fd)
  PROVE  IpcStep
<1> USE DEF I!wireVars, I!clientVars, I!tableVars
<1>1. /\ w \in I!Thread /\ Worker \subseteq I!Thread
      /\ at \in [I!Thread -> {"idle", "hand", "pass", "clear", "off", "close"}]
      /\ of \in [I!Thread -> IpcArg] /\ strings \in [I!Name -> Nat]
      BY IpcConstant DEF IpcTypes, ThreadTypes, ClientTypes
<1>2. ASSUME NEW s, at' = [at EXCEPT ![w] = s], \A v \in Worker \ {w} : of'[v] = of[v]
      PROVE  Others(w) /\ at'[w] = s
      BY <1>1, <1>2 DEF Others
<1>3. ASSUME NEW fd \in FD, I!recv(w, fd)
      PROVE  IpcStep
  <2>1. PICK a : a = [I!Idle EXCEPT !.fd = fd, !.conn = owner[fd], !.tail = Head(inbox[fd])]
        OBVIOUS
  <2>2. a.fd = fd /\ a.conn = owner[fd] /\ a.tail = Head(inbox[fd])
        BY <2>1 DEF I!Idle
  <2>3. /\ UNCHANGED <<link, life, owner, outbox, vals, val, queue, handedTo, strings>>
        /\ at[w] = "idle" /\ owner[fd] # None /\ inbox[fd] # <<>>
        /\ at' = [at EXCEPT ![w] = "hand"] /\ of' = [of EXCEPT ![w] = a]
        /\ inbox' = [inbox EXCEPT ![fd] = Tail(@)]
        BY <1>3, <2>1 DEF I!recv, I!Goto
  <2>4. /\ mixed \subseteq mixed'
        /\ \A v \in Worker : Busy(v) /\ of[v].fd = fd => {owner[fd], of[v].conn} \subseteq mixed'
    <3>1. mixed' = IF I!BusyWith(fd) = {} THEN mixed
                   ELSE mixed \cup {owner[fd]} \cup {of[v].conn : v \in I!BusyWith(fd)}
          BY <1>3 DEF I!recv
    <3>2. \A v \in Worker : Busy(v) /\ of[v].fd = fd => v \in I!BusyWith(fd)
          BY DEF Busy, I!BusyWith
    <3> QED
      BY <3>1, <3>2
  <2>5. of'[w] = a /\ \A v \in Worker \ {w} : of'[v] = of[v]
        BY <1>1, <2>3
  <2>6. RecvStep(w, fd)
        BY <1>2, <2>2, <2>3, <2>4, <2>5, SameLinks DEF RecvStep, Busy
  <2> QED
    BY <2>6 DEF IpcStep
<1>4. CASE I!gather(w)
  <2>1. PICK fd \in FD, p \in IpcPiece : fd = of[w].fd /\ p = of[w].tail
        BY <1>1, <1>4 DEF I!gather, IpcTypes, ThreadTypes, Fits
  <2>2. /\ at[w] = "hand" /\ at' = [at EXCEPT ![w] = "idle"] /\ of' = [of EXCEPT ![w] = I!Idle]
        /\ p.end => vals[fd] = <<>>
        /\ vals' = [vals EXCEPT ![fd] = IF p.end THEN <<>> ELSE Append(@, p.msg)]
        /\ UNCHANGED <<link, life, owner, inbox, outbox, val, queue, handedTo, mixed, strings>>
        BY <1>4, <2>1 DEF I!gather, I!Goto
  <2>3. \A v \in Worker \ {w} : of'[v] = of[v]
        BY <1>1, <2>2
  <2>4. GatherStep(w, fd, p)
        BY <1>2, <2>1, <2>2, <2>3, SameLinks DEF GatherStep
  <2> QED
    BY <2>4 DEF IpcStep
<1>5. CASE I!clearVal(w)
  <2>1. PICK fd \in FD : fd = of[w].fd
        BY <1>1, <1>5 DEF I!clearVal, IpcTypes, ThreadTypes, Fits
  <2>2. /\ at[w] = "clear" /\ at' = [at EXCEPT ![w] = "idle"] /\ of' = [of EXCEPT ![w] = I!Idle]
        /\ vals' = [vals EXCEPT ![fd] = <<>>]
        /\ UNCHANGED <<link, life, owner, inbox, outbox, val, queue, handedTo, mixed, strings>>
        BY <1>5, <2>1 DEF I!clearVal, I!Goto
  <2>3. \A v \in Worker \ {w} : of'[v] = of[v]
        BY <1>1, <2>2
  <2>4. ClearStep(w, fd)
        BY <1>2, <2>1, <2>2, <2>3, SameLinks DEF ClearStep
  <2> QED
    BY <2>4 DEF IpcStep
<1>6. CASE I!register(w)
  <2>1. PICK fd \in FD : fd = of[w].fd
        BY <1>1, <1>6 DEF I!register, IpcTypes, ThreadTypes, Fits
  <2>2. /\ at[w] = "hand" /\ at' = [at EXCEPT ![w] = "pass"]
        /\ of' = [of EXCEPT ![w].heads = vals[fd], ![w].tail = @.msg]
        /\ of[w].tail.end /\ vals[fd] # <<>>
        /\ UNCHANGED <<link, life, owner, inbox, outbox, vals, val, queue, handedTo, mixed,
                       strings>>
        BY <1>6, <2>1 DEF I!register, I!Goto
  <2>3. /\ \A v \in Worker \ {w} : of'[v] = of[v]
        /\ of'[w].fd = of[w].fd /\ of'[w].conn = of[w].conn
        /\ of'[w].heads = vals[fd] /\ of'[w].tail = of[w].tail.msg
        BY <1>1, <2>2 DEF IpcArg
  <2>4. RegisterStep(w, fd)
        BY <1>2, <2>1, <2>2, <2>3, SameLinks DEF RegisterStep
  <2> QED
    BY <2>4 DEF IpcStep
<1>7. CASE I!pass(w)
  <2>1. /\ at[w] = "pass"
        /\ UNCHANGED <<link, life, owner, names, strings, inbox, vals, val, handedTo, mixed>>
        BY <1>7 DEF I!pass
  <2>2. LinksStay
        BY <2>1, SameLinks
  <2>3. PICK to \in I!Name : to = Head(of[w].heads).to
        BY <2>1, PassedFrame
  <2>4. ASSUME I!Goto(w, "clear"), UNCHANGED of PROVE Clears(w) /\ Rests
    <3>1. at' = [at EXCEPT ![w] = "clear"]
          BY <2>4 DEF I!Goto
    <3>2. Others(w) /\ at'[w] = "clear"
          BY <1>2, <2>4, <3>1
    <3>3. Rests
          BY <2>1, <2>4, <3>2 DEF Others, Rests, Busy
    <3> QED
      BY <2>1, <2>2, <2>4, <3>2, <3>3 DEF Clears
  <2>5. ASSUME NEW fd \in FD, I!beginClose(w, fd) PROVE Rests
    <3>1. at' = [at EXCEPT ![w] = "off"] /\ of' = [of EXCEPT ![w].close = fd]
          BY <2>5 DEF I!beginClose, I!Goto
    <3>2. at'[w] = "off" /\ of'[w].fd = of[w].fd /\ of'[w].conn = of[w].conn
          BY <1>1, <3>1 DEF IpcArg
    <3>3. \A v \in Worker \ {w} : at'[v] = at[v] /\ of'[v] = of[v]
          BY <1>1, <3>1
    <3> QED
      BY <2>1, <3>2, <3>3 DEF Rests, Busy
  <2>6. ASSUME Rests, UNCHANGED <<queue, outbox>> PROVE IpcStep
    <3>1. QuietStep
          BY <1>1, <2>1, <2>2, <2>6 DEF QuietStep
    <3> QED
      BY <3>1 DEF IpcStep
  <2>7. CASE to = IpcServer
    <3>1. /\ queue' = [queue EXCEPT ![IpcServer] =
                         Append(@, [heads |-> of[w].heads, tail |-> of[w].tail])]
          /\ I!Goto(w, "clear") /\ UNCHANGED <<outbox, of>>
          BY <1>7, <2>3, <2>7 DEF I!pass
    <3>2. ToQueueStep(w)
          BY <2>1, <2>3, <2>4, <2>7, <3>1 DEF ToQueueStep
    <3> QED
      BY <3>2 DEF IpcStep
  <2>8. CASE to # IpcServer /\ names[to] = None
    <3>1. I!Goto(w, "clear") /\ UNCHANGED <<outbox, of, queue>>
          BY <1>7, <2>3, <2>8 DEF I!pass
    <3> QED
      BY <2>4, <2>6, <3>1
  <2>9. CASE to # IpcServer /\ names[to] # None
    <3>1. PICK fd \in FD : fd = names[to]
          BY <2>9 DEF I!Name, IpcTypes, ClientTypes
    <3>2. I!sendFrame(w, fd, of[w].heads, of[w].tail, "clear") /\ UNCHANGED queue
          BY <1>7, <2>3, <2>9, <3>1 DEF I!pass
    <3>3. CASE /\ owner[fd] # None
               /\ outbox' = [outbox EXCEPT ![fd] = @ \o I!Pieces(of[w].heads, of[w].tail)]
               /\ I!Goto(w, "clear") /\ UNCHANGED of
      <4>1. ToOutboxStep(w, fd)
            BY <2>1, <2>4, <3>2, <3>3 DEF ToOutboxStep
      <4> QED
        BY <4>1 DEF IpcStep
    <3>4. CASE UNCHANGED outbox /\ I!Goto(w, "clear") /\ UNCHANGED of
          BY <2>4, <2>6, <3>2, <3>4
    <3>5. CASE UNCHANGED outbox /\ I!beginClose(w, fd)
          BY <2>5, <2>6, <3>2, <3>5
    <3> QED
      BY <3>2, <3>3, <3>4, <3>5 DEF I!sendFrame
  <2> QED
    BY <2>7, <2>8, <2>9
<1> QED
  BY <1>3, <1>4, <1>5, <1>6, <1>7 DEF I!onRecv

LEMMA CloserStepIs ==
  ASSUME IpcTypes,
         \/ \E fd \in FD : I!endSeen(fd)
         \/ \E t \in I!Thread : I!closeClient(t)
  PROVE  IpcStep
<1> USE DEF I!wireVars, I!clientVars, I!tableVars
<1>1. /\ Worker \subseteq I!Thread /\ I!Listener \in I!Thread \ Worker
      /\ at \in [I!Thread -> {"idle", "hand", "pass", "clear", "off", "close"}]
      /\ of \in [I!Thread -> IpcArg] /\ strings \in [I!Name -> Nat]
      BY IpcConstant DEF IpcTypes, ThreadTypes, ClientTypes
<1>2. ASSUME Rests, UNCHANGED <<link, life, owner, inbox, outbox, vals, val, queue, handedTo,
                                mixed, strings>>
      PROVE  IpcStep
  <2>1. QuietStep
        BY <1>1, <1>2, SameLinks DEF QuietStep
  <2> QED
    BY <2>1 DEF IpcStep
<1>3. ASSUME NEW fd \in FD, I!endSeen(fd) PROVE IpcStep
  <2>1. /\ at' = [at EXCEPT ![I!Listener] = "off"] /\ of' = [of EXCEPT ![I!Listener].close = fd]
        /\ UNCHANGED <<link, life, owner, inbox, outbox, vals, val, queue, handedTo, mixed,
                       strings>>
        BY <1>3 DEF I!endSeen, I!beginClose, I!Goto
  <2>2. \A v \in Worker : at'[v] = at[v] /\ of'[v] = of[v]
        BY <1>1, <2>1
  <2> QED
    BY <1>2, <2>1, <2>2 DEF Rests, Busy
<1>4. ASSUME NEW t \in I!Thread, I!toldOff(t) PROVE IpcStep
  <2>1. /\ at[t] = "off" /\ at' = [at EXCEPT ![t] = "close"]
        /\ UNCHANGED <<link, life, owner, inbox, outbox, vals, val, queue, handedTo, mixed,
                       strings, of>>
        BY <1>4 DEF I!toldOff, I!Goto
  <2>2. \A v \in Worker : at'[v] = at[v] \/ (at[v] = "off" /\ at'[v] = "close")
        BY <1>1, <2>1
  <2> QED
    BY <1>2, <2>1, <2>2 DEF Rests, Busy
<1>5. ASSUME NEW t \in I!Thread, I!closeFd(t) PROVE IpcStep
  <2>1. PICK fd \in FD : fd = of[t].close
        BY <1>5, CloserTypes DEF I!closeFd
  <2>2. /\ at[t] = "close" /\ owner' = [owner EXCEPT ![fd] = None]
        /\ inbox' = [inbox EXCEPT ![fd] = <<>>] /\ outbox' = [outbox EXCEPT ![fd] = <<>>]
        /\ at' = [at EXCEPT ![t] = IF t \in Worker THEN "clear" ELSE "idle"]
        /\ of' = [of EXCEPT ![t].close = 0]
        /\ UNCHANGED <<link, life, vals, val, queue, handedTo, mixed, strings>>
        BY <1>5, <2>1 DEF I!closeFd, I!Goto
  <2>3. \A v \in Worker : /\ at'[v] = at[v] \/ (at[v] = "close" /\ at'[v] = "clear")
                          /\ of'[v].fd = of[v].fd /\ of'[v].conn = of[v].conn
                          /\ of'[v].heads = of[v].heads /\ of'[v].tail = of[v].tail
    <3>1. \A v \in Worker : at'[v] = at[v] \/ (at[v] = "close" /\ at'[v] = "clear")
          BY <1>1, <2>2
    <3>2. \A v \in Worker : /\ of'[v].fd = of[v].fd /\ of'[v].conn = of[v].conn
                            /\ of'[v].heads = of[v].heads /\ of'[v].tail = of[v].tail
          BY <1>1, <2>2 DEF IpcArg
    <3> QED
      BY <3>1, <3>2
  <2>4. Rests
        BY <2>3 DEF Rests, Busy
  <2>5. LinksStay
    <3>1. ASSUME NEW c \in Conn, I!Connected(c)' PROVE I!Connected(c)
      <4>1. link[c] # None /\ link[c] \in FD /\ owner'[link[c]] = <<c, life[c]>>
            BY <2>2, <3>1 DEF I!Connected, IpcTypes, ClientTypes
      <4>2. life[c] \in Nat
            BY DEF IpcTypes, ClientTypes
      <4>3. <<c, life[c]>> # None
            BY <4>2, IpcConstant
      <4>4. owner'[link[c]] = owner[link[c]]
            BY <2>2, <4>1, <4>3 DEF IpcTypes, ClientTypes
      <4> QED
        BY <4>1, <4>4 DEF I!Connected
    <3> QED
      BY <2>2, <3>1 DEF LinksStay
  <2>6. CloseStep(fd)
        BY <2>2, <2>4, <2>5 DEF CloseStep
  <2> QED
    BY <2>6 DEF IpcStep
<1> QED
  BY <1>3, <1>4, <1>5 DEF I!closeClient

LEMMA CallStepIs ==
  ASSUME NEW n \in I!Name, I!callMessage(n)
  PROVE  IpcStep
<1>1. /\ UNCHANGED <<at, of, link, life, owner, inbox, outbox, vals, val, mixed, strings>>
      /\ handedTo' = [handedTo EXCEPT ![n] = Append(@, Head(queue[n]))]
      /\ queue' = [queue EXCEPT ![n] = Tail(@)] /\ queue[n] # <<>>
      BY DEF I!callMessage, I!clientVars, I!wireVars, I!tableVars
<1>2. CallStep(n)
      BY <1>1, SameThreads, SameLinks DEF CallStep
<1> QED
  BY <1>2 DEF IpcStep

LEMMA IpcNextSteps == IpcTypes /\ [I!Next]_ipcVars => IpcStep
<1> SUFFICES ASSUME IpcTypes, [I!Next]_ipcVars PROVE IpcStep
    OBVIOUS
<1>1. ASSUME NEW c \in Conn,
             \/ I!Connect(c) \/ I!Disconnect(c) \/ I!clientRecv(c) \/ I!serverSend(c)
             \/ \E to \in I!Name \ {c} : I!sendString(c, to)
      PROVE  IpcStep
      BY <1>1, ClientStepIs
<1>2. ASSUME NEW n \in I!Name, I!callMessage(n) PROVE IpcStep
      BY <1>2, CallStepIs
<1>3. ASSUME NEW w \in Worker, I!onRecv(w) \/ \E fd \in FD : I!recv(w, fd) PROVE IpcStep
      BY <1>3, ReaderStepIs
<1>4. ASSUME \/ \E fd \in FD : I!endSeen(fd)
             \/ \E t \in I!Thread : I!closeClient(t)
      PROVE  IpcStep
      BY <1>4, CloserStepIs
<1>5. CASE UNCHANGED ipcVars
  <2>1. /\ UNCHANGED <<at, of, link, life, owner, inbox, outbox, vals, val, queue, handedTo, mixed,
                       strings>>
        /\ \A n \in I!Name : strings[n] \in Nat
        BY <1>5 DEF ipcVars, IpcTypes, ClientTypes
  <2>2. QuietStep
        BY <2>1, SameThreads, SameLinks DEF QuietStep
  <2> QED
    BY <2>2 DEF IpcStep
<1> QED
  BY <1>1, <1>2, <1>3, <1>4, <1>5 DEF I!Next

-----------------------------------------------------------------------------
(* StringIpc: messages are handed over whole *)

\* The connections that no two readers were busy with at once.
Pure(m) == I!Origin(m) \notin mixed

\* A connection is on one descriptor, and so are those who read it; two who read one
\* descriptor at once mix their connections.
ReadersApart ==
  /\ \A fd \in FD : owner[fd] # None => owner[fd][2] <= life[owner[fd][1]]
  /\ \A d, fd \in FD : owner[d] # None /\ owner[d] = owner[fd] => d = fd
  /\ \A w \in Worker : Busy(w) =>
       /\ of[w].fd \in FD /\ of[w].conn # None
       /\ of[w].conn[2] <= life[of[w].conn[1]]
       /\ \A fd \in FD : owner[fd] = of[w].conn => fd = of[w].fd
  /\ \A v, w \in Worker : Busy(v) /\ Busy(w) /\ v # w =>
       /\ of[v].conn = of[w].conn => of[v].fd = of[w].fd
       /\ of[v].fd = of[w].fd => of[v].conn \in mixed

\* What is on the way came from the connection it is on.
InboxOwned ==
  \A fd \in FD : \A i \in 1 .. Len(inbox[fd]) : I!Origin(inbox[fd][i].msg) = owner[fd]

HandsOwned ==
  \A w \in Worker :
    /\ at[w] = "hand" => I!Origin(of[w].tail.msg) = of[w].conn
    /\ at[w] = "pass" => I!Origin(of[w].tail) = of[w].conn

ValsOwned ==
  \A fd \in FD : \A k \in 1 .. Len(vals[fd]) :
    vals[fd][k].from \in Conn /\ vals[fd][k].conn <= life[vals[fd][k].from]

NothingUnowned == \A fd \in FD : owner[fd] = None => inbox[fd] = <<>> /\ outbox[fd] = <<>>

FromOwner == InboxOwned /\ HandsOwned /\ ValsOwned /\ NothingUnowned

\* Heads and ends take turns.
Cut(s) ==
  /\ \A i \in 1 .. Len(s) - 1 :
       /\ s[i].end => ~s[i + 1].end
       /\ ~s[i].end => s[i + 1].end /\ s[i + 1].msg = s[i].msg
  /\ s # <<>> => s[Len(s)].end

\* The heads end with that of m, the only one of its connection.
EndsAlone(heads, m) ==
  /\ heads # <<>>
  /\ heads[Len(heads)] = m
  /\ \A k \in 1 .. Len(heads) - 1 : I!Origin(heads[k]) # I!Origin(m)

NoneOf(heads, o) == \A k \in 1 .. Len(heads) : I!Origin(heads[k]) # o

Begins(fd) == inbox[fd] # <<>> /\ Head(inbox[fd]).end
HoldsHead(w) == at[w] = "hand" /\ ~of[w].tail.end

\* A reader of a pure connection finds the head of the end it has in hand.
ReadersFind ==
  \A w \in Worker : Busy(w) /\ of[w].conn \notin mixed =>
    /\ at[w] = "hand" => IF of[w].tail.end THEN EndsAlone(vals[of[w].fd], of[w].tail.msg)
                         ELSE NoneOf(vals[of[w].fd], of[w].conn)
    /\ at[w] = "pass" => EndsAlone(of[w].heads, of[w].tail)

\* An end comes first only where its head is in hand,
EndsFollow ==
  \A fd \in FD : owner[fd] # None /\ owner[fd] \notin mixed =>
    \A w \in Worker : Busy(w) /\ of[w].fd = fd =>
      IF of[w].conn = owner[fd] /\ HoldsHead(w)
      THEN Begins(fd) /\ Head(inbox[fd]).msg = of[w].tail.msg
      ELSE ~Begins(fd)

\* or was gathered.
HeadsWait ==
  \A fd \in FD :
    /\ owner[fd] # None /\ owner[fd] \notin mixed
    /\ \A w \in Worker : Busy(w) => of[w].conn # owner[fd]
    => IF Begins(fd) THEN EndsAlone(vals[fd], Head(inbox[fd]).msg)
       ELSE NoneOf(vals[fd], owner[fd])

InboxCut == \A fd \in FD : Cut(inbox[fd])

Gathered == InboxCut /\ ReadersFind /\ EndsFollow /\ HeadsWait

\* What a client has and what is on the way to it.
HeadPieces(h) == [i \in 1 .. Len(h) |-> [msg |-> h[i], end |-> FALSE]]
Line(c) == HeadPieces(val[c]) \o outbox[link[c]]

\* k and i are of one frame, which i ends.
SameFrame(s, k, i) == \A j \in k .. i - 1 : ~s[j].end

\* An end stands after its head, and in a client's first connection no other piece of
\* its frame is of its connection.
Whole(s) ==
  \A i \in 1 .. Len(s) : s[i].end =>
    /\ i > 1 /\ ~s[i - 1].end
    /\ Pure(s[i].msg) => s[i - 1].msg = s[i].msg

Alone(s) ==
  /\ s # <<>> => s[Len(s)].end
  /\ \A i \in 1 .. Len(s) : \A k \in 1 .. i - 2 :
       s[i].end /\ Pure(s[i].msg) /\ SameFrame(s, k, i) =>
         I!Origin(s[k].msg) # I!Origin(s[i].msg)

FrameOk(n, f) ==
  /\ f.heads # <<>> /\ Head(f.heads).to = n
  /\ Pure(f.tail) =>
       /\ f.heads[Len(f.heads)] = f.tail
       /\ \A k \in 1 .. Len(f.heads) - 1 :
            \/ I!Origin(f.heads[k]) # I!Origin(f.tail)
            \/ n \in Conn /\ life[n] > 1

LinesWhole ==
  \A c \in Conn : I!Connected(c) => Whole(Line(c)) /\ (life[c] = 1 => Alone(Line(c)))

FirstLife ==
  \A c \in Conn : (I!Connected(c) => life[c] > 0) /\ (life[c] = 0 => val[c] = <<>>)

QueuesWhole ==
  \A n \in I!Name :
    /\ \A i \in 1 .. Len(queue[n]) : FrameOk(n, queue[n][i])
    /\ \A i \in 1 .. Len(handedTo[n]) : FrameOk(n, handedTo[n][i])

FramesWhole == LinesWhole /\ FirstLife /\ QueuesWhole

\* Where the end of a message can be.
Place ==
  ({"in", "out"} \X FD \X Nat) \cup ({"hand"} \X Worker \X {0})
    \cup ({"queue", "handed"} \X I!Name \X Nat)

End(m) == [msg |-> m, end |-> TRUE]

Holds(p, m) ==
  LET x == p[2]  i == p[3] IN
  \/ p[1] = "in" /\ i \in 1 .. Len(inbox[x]) /\ inbox[x][i] = End(m)
  \/ p[1] = "out" /\ i \in 1 .. Len(outbox[x]) /\ outbox[x][i] = End(m)
  \/ /\ p[1] = "hand"
     /\ \/ at[x] = "hand" /\ of[x].tail = End(m)
        \/ at[x] = "pass" /\ of[x].tail = m
  \/ p[1] = "queue" /\ i \in 1 .. Len(queue[x]) /\ queue[x][i].tail = m
  \/ p[1] = "handed" /\ i \in 1 .. Len(handedTo[x]) /\ handedTo[x][i].tail = m

\* p is nearer to a receiver than q.
Before(p, q) ==
  \/ p[1] = q[1] /\ p[2] = q[2] /\ p[3] < q[3]
  \/ p[1] = "handed" /\ q[1] = "queue" /\ p[2] = q[2]
  \/ p[1] \in {"handed", "queue"} /\ q[1] = "out" /\ p[2] \in Conn /\ I!Connected(p[2]) /\ q[2] = link[p[2]]
  \/ p[1] \in {"handed", "queue", "out"} /\ q[1] \in {"hand", "in"}
  \/ p[1] = "hand" /\ q[1] = "in"

\* A message is in one place, and those of a connection keep their order.
Placed ==
  /\ \A p \in Place : \A m \in IpcMessage : Holds(p, m) =>
       /\ m.n <= strings[m.from]
       /\ \A q \in Place : Holds(q, m) => p = q
  /\ \A p, q \in Place : \A m, o \in IpcMessage :
       Holds(p, m) /\ Holds(q, o) /\ Before(p, q) /\ I!Origin(m) = I!Origin(o) /\ Pure(m) =>
         m.n < o.n

-----------------------------------------------------------------------------
(* StringIpc: readers and the origin of what is on the way *)

\* Who reads goes on, or stops.
NobodyBegins ==
  /\ UNCHANGED <<life, mixed>>
  /\ \A w \in Worker : Busy(w)' =>
       Busy(w) /\ of'[w].fd = of[w].fd /\ of'[w].conn = of[w].conn
  /\ \A fd \in FD : owner'[fd] \in {owner[fd], None}

LEMMA WhoBegins ==
  ASSUME IpcTypes, IpcStep
  PROVE  \/ NobodyBegins
         \/ \E c \in Conn, fd \in FD : ConnectStep(c, fd)
         \/ \E w \in Worker, fd \in FD : RecvStep(w, fd)
<1>1. owner \in [FD -> (Conn \X Nat) \cup {None}]
      BY DEF IpcTypes, ClientTypes
<1>2. CASE \/ QuietStep
           \/ \E c \in Conn, fd \in FD, m \in IpcMessage : SendStep(c, fd, m)
           \/ \E fd \in FD, m \in IpcMessage : ServerSendStep(fd, m)
           \/ \E c \in Conn, fd \in FD, p \in IpcPiece : ClientRecvStep(c, fd, p)
           \/ \E n \in I!Name : CallStep(n)
           \/ \E fd \in FD : CloseStep(fd)
  <2>1. /\ Rests /\ UNCHANGED <<life, mixed>>
        /\ owner' = owner \/ \E fd \in FD : owner' = [owner EXCEPT ![fd] = None]
        BY <1>2 DEF QuietStep, SendStep, ServerSendStep, ClientRecvStep, CallStep, CloseStep
  <2>2. \A fd \in FD : owner'[fd] \in {owner[fd], None}
        BY <1>1, <2>1
  <2> QED
    BY <2>1, <2>2 DEF NobodyBegins, Rests
<1>3. CASE \/ \E w \in Worker, fd \in FD : \/ RegisterStep(w, fd) \/ ToOutboxStep(w, fd)
                                           \/ ClearStep(w, fd)
           \/ \E w \in Worker, fd \in FD, p \in IpcPiece : GatherStep(w, fd, p)
           \/ \E w \in Worker : ToQueueStep(w)
  <2>1. PICK w \in Worker :
          /\ Others(w) /\ UNCHANGED <<life, mixed, owner>> /\ Busy(w)
          /\ \/ at'[w] = "idle"
             \/ of'[w].fd = of[w].fd /\ of'[w].conn = of[w].conn
        BY <1>3 DEF RegisterStep, ToOutboxStep, ClearStep, GatherStep, ToQueueStep, Clears, Busy
  <2> QED
    BY <2>1 DEF NobodyBegins, Others, Busy
<1> QED
  BY <1>2, <1>3 DEF IpcStep

LEMMA ReadersInit == I!Init => ReadersApart
  BY IpcConstant DEF I!Init, ReadersApart, Busy, I!Thread

LEMMA ReadersStep ==
  ASSUME IpcTypes, ReadersApart, IpcStep
  PROVE  ReadersApart'
<1>1. /\ owner \in [FD -> (Conn \X Nat) \cup {None}]
      /\ life \in [Conn -> Nat]
      /\ \A w \in Worker : of[w].conn \in (Conn \X Nat) \cup {None}
      /\ None \notin Conn \X Nat
      BY IpcConstant DEF IpcTypes, ClientTypes, ThreadTypes, IpcArg
<1>2. CASE NobodyBegins
      BY <1>1, <1>2 DEF NobodyBegins, ReadersApart
<1>3. ASSUME NEW c \in Conn, NEW fd \in FD, ConnectStep(c, fd) PROVE ReadersApart'
  <2>1. PICK o \in Conn \X Nat : o = <<c, life[c] + 1>>
    <3>1. life[c] + 1 \in Nat
          BY <1>1
    <3> QED
      BY <3>1
  <2>2. o[1] = c /\ o[2] = life[c] + 1 /\ o # None
        BY <1>1, <2>1
  <2>3. /\ owner' = [owner EXCEPT ![fd] = o] /\ life' = [life EXCEPT ![c] = @ + 1]
        /\ mixed' = mixed /\ Rests
        BY <1>3, <2>1 DEF ConnectStep
  <2>4. /\ owner'[fd] = o /\ \A d \in FD \ {fd} : owner'[d] = owner[d]
        /\ life'[c] = life[c] + 1 /\ \A d \in Conn \ {c} : life'[d] = life[d]
        BY <1>1, <2>3
  <2>5. \A x \in Conn \X Nat : x[2] <= life[x[1]] => x # o /\ x[2] <= life'[x[1]]
        BY <1>1, <2>2, <2>4
  <2>6. \A d \in FD : owner[d] # None => owner[d] # o /\ owner[d][2] <= life'[owner[d][1]]
        BY <1>1, <2>5 DEF ReadersApart
  <2>7. \A w \in Worker : Busy(w) => of[w].conn # o /\ of[w].conn[2] <= life'[of[w].conn[1]]
        BY <1>1, <2>5 DEF ReadersApart
  <2>8. \A d \in FD : owner'[d] # None => owner'[d][2] <= life'[owner'[d][1]]
        BY <2>2, <2>4, <2>6, <1>1
  <2>9. \A d, e \in FD : owner'[d] # None /\ owner'[d] = owner'[e] => d = e
        BY <2>2, <2>4, <2>6 DEF ReadersApart
  <2>10. \A w \in Worker : Busy(w)' => Busy(w) /\ of'[w].fd = of[w].fd /\ of'[w].conn = of[w].conn
         BY <2>3 DEF Rests
  <2>11. \A w \in Worker : Busy(w)' =>
           /\ of'[w].fd \in FD /\ of'[w].conn # None
           /\ of'[w].conn[2] <= life'[of'[w].conn[1]]
           /\ \A d \in FD : owner'[d] = of'[w].conn => d = of'[w].fd
         BY <2>4, <2>7, <2>10 DEF ReadersApart
  <2>12. \A v, w \in Worker : Busy(v)' /\ Busy(w)' /\ v # w =>
           /\ of'[v].conn = of'[w].conn => of'[v].fd = of'[w].fd
           /\ of'[v].fd = of'[w].fd => of'[v].conn \in mixed'
         BY <2>3, <2>10 DEF ReadersApart
  <2> QED
    BY <2>8, <2>9, <2>11, <2>12 DEF ReadersApart
<1>4. ASSUME NEW w \in Worker, NEW fd \in FD, RecvStep(w, fd) PROVE ReadersApart'
  <2>1. /\ UNCHANGED <<life, owner>> /\ Others(w) /\ owner[fd] # None
        /\ of'[w].fd = fd /\ of'[w].conn = owner[fd] /\ mixed \subseteq mixed'
        /\ \A v \in Worker : Busy(v) /\ of[v].fd = fd => {owner[fd], of[v].conn} \subseteq mixed'
        BY <1>4 DEF RecvStep
  <2>2. \A v \in Worker \ {w} : (Busy(v)' <=> Busy(v)) /\ of'[v] = of[v]
        BY <2>1 DEF Others, Busy
  <2>3. /\ \A d \in FD : owner'[d] # None => owner'[d][2] <= life'[owner'[d][1]]
        /\ \A d, e \in FD : owner'[d] # None /\ owner'[d] = owner'[e] => d = e
        BY <2>1 DEF ReadersApart
  <2>4. \A v \in Worker : Busy(v)' =>
          /\ of'[v].fd \in FD /\ of'[v].conn # None
          /\ of'[v].conn[2] <= life'[of'[v].conn[1]]
          /\ \A d \in FD : owner'[d] = of'[v].conn => d = of'[v].fd
        BY <2>1, <2>2 DEF ReadersApart
  <2>5. \A v \in Worker \ {w} : Busy(v)' =>
          /\ of'[v].conn = of'[w].conn => of'[v].fd = of'[w].fd
          /\ of'[v].fd = of'[w].fd => {of'[v].conn, of'[w].conn} \subseteq mixed'
        BY <2>1, <2>2 DEF ReadersApart
  <2>6. \A u, v \in Worker : Busy(u)' /\ Busy(v)' /\ u # v =>
          /\ of'[u].conn = of'[v].conn => of'[u].fd = of'[v].fd
          /\ of'[u].fd = of'[v].fd => of'[u].conn \in mixed'
        BY <2>1, <2>2, <2>5 DEF ReadersApart
  <2> QED
    BY <2>3, <2>4, <2>6 DEF ReadersApart
<1> QED
  BY <1>2, <1>3, <1>4, WhoBegins

\* A message that is sent, in two pieces.
LEMMA SentAlone ==
  ASSUME NEW s \in Seq(IpcPiece), NEW m \in IpcMessage
  PROVE  /\ s \o I!Pieces(<<m>>, m) \in Seq(IpcPiece)
         /\ Len(s \o I!Pieces(<<m>>, m)) = Len(s) + 2
         /\ \A i \in 1 .. Len(s) : (s \o I!Pieces(<<m>>, m))[i] = s[i]
         /\ (s \o I!Pieces(<<m>>, m))[Len(s) + 1] = [msg |-> m, end |-> FALSE]
         /\ (s \o I!Pieces(<<m>>, m))[Len(s) + 2] = [msg |-> m, end |-> TRUE]
<1>1. <<m>> \in Seq(IpcMessage) /\ Len(<<m>>) = 1 /\ <<m>>[1] = m
      OBVIOUS
<1>2. PICK h \in Seq(IpcMessage) : h = <<m>>
      BY <1>1
<1>3. Len(h) = 1 /\ h[1] = m
      BY <1>1, <1>2
<1>4. PICK p : p = I!Pieces(h, m)
      OBVIOUS
<1>5. /\ p \in Seq(IpcPiece) /\ Len(p) = Len(h) + 1
      /\ \A i \in 1 .. Len(h) : p[i] = [msg |-> h[i], end |-> FALSE]
      /\ p[Len(h) + 1] = [msg |-> m, end |-> TRUE]
      BY <1>4, PiecesFrame
<1>6. Len(p) = 2 /\ p[1] = [msg |-> m, end |-> FALSE] /\ p[2] = [msg |-> m, end |-> TRUE]
      BY <1>3, <1>5
<1>7. /\ s \o p \in Seq(IpcPiece) /\ Len(s \o p) = Len(s) + 2
      /\ \A i \in 1 .. Len(s) : (s \o p)[i] = s[i]
      /\ (s \o p)[Len(s) + 1] = p[1] /\ (s \o p)[Len(s) + 2] = p[2]
      BY <1>5, <1>6, ConcatProperties
<1> QED
  BY <1>2, <1>4, <1>6, <1>7

LEMMA WiresAre ==
  ASSUME IpcTypes
  PROVE  /\ inbox \in [FD -> Seq(IpcPiece)] /\ outbox \in [FD -> Seq(IpcPiece)]
         /\ vals \in [FD -> Seq(IpcMessage)] /\ val \in [Conn -> Seq(IpcMessage)]
         /\ owner \in [FD -> (Conn \X Nat) \cup {None}] /\ life \in [Conn -> Nat]
         /\ link \in [Conn -> FD \cup {None}]
         /\ queue \in [I!Name -> Seq(IpcFrame)] /\ handedTo \in [I!Name -> Seq(IpcFrame)]
         /\ strings \in [I!Name -> Nat]
  BY DEF IpcTypes, ClientTypes, WireTypes

LEMMA HandsAre ==
  ASSUME IpcTypes, NEW w \in Worker
  PROVE  /\ of[w].conn \in (Conn \X Nat) \cup {None}
         /\ at[w] \in {"hand", "pass", "clear"} => of[w].fd \in FD
         /\ at[w] = "hand" => of[w].tail \in IpcPiece
         /\ at[w] = "pass" => /\ of[w].tail \in IpcMessage
                              /\ of[w].heads \in Seq(IpcMessage) /\ of[w].heads # <<>>
  BY IpcConstant DEF IpcTypes, ThreadTypes, Fits, IpcArg

LEMMA FromOwnerInit == I!Init => FromOwner
  BY IpcConstant DEF I!Init, FromOwner, InboxOwned, HandsOwned, ValsOwned, NothingUnowned, I!Thread

LEMMA UnownedStep ==
  ASSUME IpcTypes, NothingUnowned, IpcStep
  PROVE  NothingUnowned'
<1>1. /\ inbox \in [FD -> Seq(IpcPiece)] /\ outbox \in [FD -> Seq(IpcPiece)]
      /\ owner \in [FD -> (Conn \X Nat) \cup {None}] /\ life \in [Conn -> Nat]
      /\ link \in [Conn -> FD \cup {None}] /\ None \notin Conn \X Nat
      BY WiresAre, IpcConstant
<1>2. ASSUME UNCHANGED <<owner, inbox, outbox>> PROVE NothingUnowned'
      BY <1>2 DEF NothingUnowned
<1>3. ASSUME NEW c \in Conn, NEW fd \in FD, ConnectStep(c, fd) PROVE NothingUnowned'
  <2>1. PICK n \in Nat : n = life[c] + 1
        BY <1>1
  <2>2. UNCHANGED <<inbox, outbox>> /\ owner' = [owner EXCEPT ![fd] = <<c, n>>]
        BY <1>3, <2>1 DEF ConnectStep
  <2> QED
    BY <1>1, <2>2 DEF NothingUnowned
<1>4. ASSUME NEW fd \in FD, owner[fd] # None, UNCHANGED owner,
             \A d \in FD \ {fd} : inbox'[d] = inbox[d] /\ outbox'[d] = outbox[d]
      PROVE  NothingUnowned'
      BY <1>4 DEF NothingUnowned
<1>5. ASSUME NEW c \in Conn, NEW fd \in FD, NEW m \in IpcMessage, SendStep(c, fd, m)
      PROVE  NothingUnowned'
  <2>1. owner[fd] # None
        BY <1>1, <1>5 DEF SendStep
  <2> QED
    BY <1>1, <1>4, <1>5, <2>1 DEF SendStep
<1>6. ASSUME NEW fd \in FD, NEW m \in IpcMessage, ServerSendStep(fd, m)
      PROVE  NothingUnowned'
      BY <1>1, <1>4, <1>6 DEF ServerSendStep
<1>7. ASSUME NEW c \in Conn, NEW fd \in FD, NEW p \in IpcPiece, ClientRecvStep(c, fd, p)
      PROVE  NothingUnowned'
  <2>1. /\ UNCHANGED <<owner, inbox>> /\ outbox' = [outbox EXCEPT ![fd] = Tail(@)]
        /\ outbox[fd] # <<>>
        BY <1>7 DEF ClientRecvStep
  <2>2. CASE owner[fd] # None
        BY <1>1, <1>4, <2>1, <2>2
  <2>3. CASE owner[fd] = None
        BY <2>1, <2>3 DEF NothingUnowned
  <2> QED
    BY <2>2, <2>3
<1>8. ASSUME NEW fd \in FD, CloseStep(fd) PROVE NothingUnowned'
      BY <1>1, <1>8 DEF CloseStep, NothingUnowned
<1>9. ASSUME NEW w \in Worker, NEW fd \in FD, RecvStep(w, fd) \/ ToOutboxStep(w, fd)
      PROVE  NothingUnowned'
      BY <1>1, <1>4, <1>9 DEF RecvStep, ToOutboxStep
<1>10. ASSUME \/ QuietStep
              \/ \E n \in I!Name : CallStep(n)
              \/ \E w \in Worker, fd \in FD : RegisterStep(w, fd) \/ ClearStep(w, fd)
              \/ \E w \in Worker, fd \in FD, p \in IpcPiece : GatherStep(w, fd, p)
              \/ \E w \in Worker : ToQueueStep(w)
       PROVE  NothingUnowned'
  <2>1. UNCHANGED <<owner, inbox, outbox>>
        BY <1>10 DEF QuietStep, CallStep, RegisterStep, ClearStep, GatherStep, ToQueueStep
  <2> QED
    BY <1>2, <2>1
<1> QED
  BY <1>3, <1>5, <1>6, <1>7, <1>8, <1>9, <1>10 DEF IpcStep

LEMMA InboxStep ==
  ASSUME IpcTypes, NothingUnowned, InboxOwned, IpcStep
  PROVE  InboxOwned'
<1>1. /\ inbox \in [FD -> Seq(IpcPiece)]
      /\ owner \in [FD -> (Conn \X Nat) \cup {None}] /\ life \in [Conn -> Nat]
      BY WiresAre
<1>2. ASSUME UNCHANGED <<owner, inbox>> PROVE InboxOwned'
      BY <1>2 DEF InboxOwned
<1>3. ASSUME NEW c \in Conn, NEW fd \in FD, ConnectStep(c, fd) PROVE InboxOwned'
  <2>1. /\ UNCHANGED inbox /\ inbox[fd] = <<>>
        /\ \A d \in FD \ {fd} : owner'[d] = owner[d]
        BY <1>1, <1>3 DEF ConnectStep, NothingUnowned
  <2> QED
    BY <2>1 DEF InboxOwned
<1>4. ASSUME NEW fd \in FD, UNCHANGED owner, \A d \in FD \ {fd} : inbox'[d] = inbox[d],
             \A i \in 1 .. Len(inbox'[fd]) : I!Origin(inbox'[fd][i].msg) = owner[fd]
      PROVE  InboxOwned'
      BY <1>4 DEF InboxOwned
<1>5. ASSUME NEW c \in Conn, NEW fd \in FD, NEW m \in IpcMessage, SendStep(c, fd, m)
      PROVE  InboxOwned'
  <2>1. PICK s \in Seq(IpcPiece) : s = inbox[fd]
        BY <1>1
  <2>2. PICK t : t = inbox'[fd]
        OBVIOUS
  <2>3. /\ UNCHANGED owner /\ I!Origin(m) = owner[fd]
        /\ \A d \in FD \ {fd} : inbox'[d] = inbox[d]
        /\ t = s \o I!Pieces(<<m>>, m)
        BY <1>1, <1>5, <2>1, <2>2 DEF SendStep, Numbers, I!Origin
  <2>4. /\ t \in Seq(IpcPiece) /\ Len(t) = Len(s) + 2 /\ \A i \in 1 .. Len(s) : t[i] = s[i]
        /\ t[Len(s) + 1] = [msg |-> m, end |-> FALSE] /\ t[Len(s) + 2] = [msg |-> m, end |-> TRUE]
        BY <2>3, SentAlone
  <2>5. t[Len(s) + 1].msg = m /\ t[Len(s) + 2].msg = m
        BY <2>4
  <2>6. \A i \in 1 .. Len(s) : I!Origin(s[i].msg) = owner[fd]
        BY <2>1 DEF InboxOwned
  <2>7. ASSUME NEW i \in 1 .. Len(t) PROVE I!Origin(t[i].msg) = owner[fd]
    <3>1. i \in 1 .. Len(s) \/ i = Len(s) + 1 \/ i = Len(s) + 2
          BY <2>4
    <3> QED
      BY <2>3, <2>4, <2>5, <2>6, <3>1
  <2> QED
    BY <1>4, <2>2, <2>3, <2>7
<1>6. ASSUME NEW fd \in FD, CloseStep(fd) PROVE InboxOwned'
  <2>1. /\ inbox'[fd] = <<>>
        /\ \A d \in FD \ {fd} : owner'[d] = owner[d] /\ inbox'[d] = inbox[d]
        BY <1>1, <1>6 DEF CloseStep
  <2> QED
    BY <2>1 DEF InboxOwned
<1>7. ASSUME NEW w \in Worker, NEW fd \in FD, RecvStep(w, fd) PROVE InboxOwned'
  <2>1. PICK s \in Seq(IpcPiece) : s = inbox[fd] /\ s # <<>>
        BY <1>1, <1>7 DEF RecvStep
  <2>2. /\ UNCHANGED owner /\ inbox'[fd] = Tail(s)
        /\ \A d \in FD \ {fd} : inbox'[d] = inbox[d]
        BY <1>1, <1>7, <2>1 DEF RecvStep
  <2>3. \A i \in 1 .. Len(s) : I!Origin(s[i].msg) = owner[fd]
        BY <2>1 DEF InboxOwned
  <2>4. \A i \in 1 .. Len(Tail(s)) : Tail(s)[i] = s[i + 1] /\ i + 1 \in 1 .. Len(s)
        BY <2>1
  <2>5. \A i \in 1 .. Len(Tail(s)) : I!Origin(Tail(s)[i].msg) = owner[fd]
        BY <2>3, <2>4
  <2> QED
    BY <1>4, <2>2, <2>5
<1>8. ASSUME \/ QuietStep
             \/ \E n \in I!Name : CallStep(n)
             \/ \E fd \in FD, m \in IpcMessage : ServerSendStep(fd, m)
             \/ \E c \in Conn, fd \in FD, p \in IpcPiece : ClientRecvStep(c, fd, p)
             \/ \E w \in Worker, fd \in FD : \/ RegisterStep(w, fd) \/ ClearStep(w, fd)
                                             \/ ToOutboxStep(w, fd)
             \/ \E w \in Worker, fd \in FD, p \in IpcPiece : GatherStep(w, fd, p)
             \/ \E w \in Worker : ToQueueStep(w)
      PROVE  InboxOwned'
  <2>1. UNCHANGED <<owner, inbox>>
        BY <1>8 DEF QuietStep, CallStep, ServerSendStep, ClientRecvStep, RegisterStep, ClearStep,
                    ToOutboxStep, GatherStep, ToQueueStep
  <2> QED
    BY <1>2, <2>1
<1> QED
  BY <1>3, <1>5, <1>6, <1>7, <1>8 DEF IpcStep

SameHand(w) ==
  /\ at'[w] = at[w] /\ of'[w].fd = of[w].fd /\ of'[w].conn = of[w].conn
  /\ of'[w].heads = of[w].heads /\ of'[w].tail = of[w].tail

LEMMA HandSteps ==
  ASSUME IpcStep, NEW w \in Worker, at'[w] \in {"hand", "pass"}
  PROVE  SameHand(w) \/ \E fd \in FD : RecvStep(w, fd) \/ RegisterStep(w, fd)
<1>1. CASE Rests
      BY <1>1 DEF Rests, Busy, SameHand
<1>2. ASSUME NEW v \in Worker, Others(v), at'[v] \in {"idle", "clear"} PROVE SameHand(w)
      BY <1>2 DEF Others, SameHand
<1>3. ASSUME NEW v \in Worker, NEW fd \in FD, RecvStep(v, fd) \/ RegisterStep(v, fd)
      PROVE  SameHand(w) \/ RecvStep(w, fd) \/ RegisterStep(w, fd)
  <2>1. Others(v)
        BY <1>3 DEF RecvStep, RegisterStep
  <2> QED
    BY <1>3, <2>1 DEF Others, SameHand
<1>4. ASSUME \/ QuietStep
             \/ \E c \in Conn, fd \in FD : ConnectStep(c, fd)
             \/ \E c \in Conn, fd \in FD, m \in IpcMessage : SendStep(c, fd, m)
             \/ \E fd \in FD, m \in IpcMessage : ServerSendStep(fd, m)
             \/ \E c \in Conn, fd \in FD, p \in IpcPiece : ClientRecvStep(c, fd, p)
             \/ \E n \in I!Name : CallStep(n)
             \/ \E fd \in FD : CloseStep(fd)
      PROVE  Rests
      BY <1>4 DEF QuietStep, ConnectStep, SendStep, ServerSendStep, ClientRecvStep, CallStep,
                  CloseStep
<1>5. ASSUME \/ \E v \in Worker, fd \in FD : ToOutboxStep(v, fd) \/ ClearStep(v, fd)
             \/ \E v \in Worker, fd \in FD, p \in IpcPiece : GatherStep(v, fd, p)
             \/ \E v \in Worker : ToQueueStep(v)
      PROVE  \E v \in Worker : Others(v) /\ at'[v] \in {"idle", "clear"}
      BY <1>5 DEF ToOutboxStep, ClearStep, GatherStep, ToQueueStep, Clears
<1> QED
  BY <1>1, <1>2, <1>3, <1>4, <1>5 DEF IpcStep

LEMMA HandsStep ==
  ASSUME IpcTypes, InboxOwned, HandsOwned, IpcStep
  PROVE  HandsOwned'
<1> SUFFICES ASSUME NEW w \in Worker, at'[w] \in {"hand", "pass"}
             PROVE  /\ at'[w] = "hand" => I!Origin(of'[w].tail.msg) = of'[w].conn
                    /\ at'[w] = "pass" => I!Origin(of'[w].tail) = of'[w].conn
    BY DEF HandsOwned
<1>1. CASE SameHand(w)
      BY <1>1 DEF SameHand, HandsOwned
<1>2. ASSUME NEW fd \in FD, RecvStep(w, fd)
      PROVE  at'[w] = "hand" /\ I!Origin(of'[w].tail.msg) = of'[w].conn
  <2>1. PICK s \in Seq(IpcPiece) : s = inbox[fd] /\ s # <<>>
        BY <1>2, WiresAre DEF RecvStep
  <2>2. at'[w] = "hand" /\ of'[w].conn = owner[fd] /\ of'[w].tail = Head(s)
        BY <1>2, <2>1 DEF RecvStep
  <2>3. Head(s) = s[1] /\ 1 \in 1 .. Len(s)
        BY <2>1
  <2> QED
    BY <2>1, <2>2, <2>3 DEF InboxOwned
<1>3. ASSUME NEW fd \in FD, RegisterStep(w, fd)
      PROVE  at'[w] = "pass" /\ I!Origin(of'[w].tail) = of'[w].conn
      BY <1>3 DEF RegisterStep, HandsOwned
<1> QED
  BY <1>1, <1>2, <1>3, HandSteps

LEMMA ValsStep ==
  ASSUME IpcTypes, ReadersApart, HandsOwned, ValsOwned, IpcStep
  PROVE  ValsOwned'
<1>1. vals \in [FD -> Seq(IpcMessage)] /\ life \in [Conn -> Nat] /\ None \notin Conn \X Nat
      BY WiresAre, IpcConstant
<1>2. ASSUME UNCHANGED <<vals, life>> PROVE ValsOwned'
      BY <1>2 DEF ValsOwned
<1>3. ASSUME NEW c \in Conn, NEW fd \in FD, ConnectStep(c, fd) PROVE ValsOwned'
  <2>1. UNCHANGED vals /\ life' = [life EXCEPT ![c] = @ + 1]
        BY <1>3 DEF ConnectStep
  <2>2. \A d \in Conn : life[d] <= life'[d] /\ life[d] \in Nat /\ life'[d] \in Nat
        BY <1>1, <2>1
  <2>3. ASSUME NEW d \in FD, NEW k \in 1 .. Len(vals[d])
        PROVE  vals[d][k].from \in Conn /\ vals[d][k].conn <= life'[vals[d][k].from]
    <3>1. vals[d][k] \in IpcMessage
          BY <1>1
    <3>2. vals[d][k].conn \in Nat
          BY <3>1 DEF IpcMessage
    <3>3. vals[d][k].from \in Conn /\ vals[d][k].conn <= life[vals[d][k].from]
          BY DEF ValsOwned
    <3> QED
      BY <2>2, <3>2, <3>3
  <2> QED
    BY <2>1, <2>3 DEF ValsOwned
<1>4. ASSUME NEW w \in Worker, NEW fd \in FD, ClearStep(w, fd) PROVE ValsOwned'
  <2>1. UNCHANGED life /\ vals'[fd] = <<>> /\ \A d \in FD \ {fd} : vals'[d] = vals[d]
        BY <1>1, <1>4 DEF ClearStep
  <2> QED
    BY <2>1 DEF ValsOwned
<1>5. ASSUME NEW w \in Worker, NEW fd \in FD, NEW p \in IpcPiece, GatherStep(w, fd, p)
      PROVE  ValsOwned'
  <2>1. PICK s \in Seq(IpcMessage) : s = vals[fd]
        BY <1>1
  <2>2. PICK m \in IpcMessage : m = p.msg
        BY DEF IpcPiece
  <2>3. /\ UNCHANGED life /\ \A d \in FD \ {fd} : vals'[d] = vals[d]
        /\ vals'[fd] = <<>> \/ vals'[fd] = Append(s, m)
        /\ at[w] = "hand" /\ p = of[w].tail
        BY <1>1, <1>5, <2>1, <2>2 DEF GatherStep
  <2>4. m.from \in Conn /\ m.conn <= life[m.from]
    <3>1. of[w].conn # None /\ of[w].conn[2] <= life[of[w].conn[1]]
          BY <2>3 DEF ReadersApart, Busy
    <3>2. of[w].conn \in Conn \X Nat
          BY <3>1, HandsAre
    <3>3. of[w].conn = <<m.from, m.conn>>
          BY <2>2, <2>3 DEF HandsOwned, I!Origin
    <3> QED
      BY <3>1, <3>2, <3>3
  <2>5. \A k \in 1 .. Len(s) : s[k].from \in Conn /\ s[k].conn <= life[s[k].from]
        BY <2>1 DEF ValsOwned
  <2>6. /\ Len(Append(s, m)) = Len(s) + 1
        /\ \A k \in 1 .. Len(s) : Append(s, m)[k] = s[k]
        /\ Append(s, m)[Len(s) + 1] = m
        BY AppendProperties
  <2>7. ASSUME NEW k \in 1 .. Len(Append(s, m))
        PROVE  Append(s, m)[k].from \in Conn /\ Append(s, m)[k].conn <= life[Append(s, m)[k].from]
    <3>1. k \in 1 .. Len(s) \/ k = Len(s) + 1
          BY <2>6
    <3> QED
      BY <2>4, <2>5, <2>6, <3>1
  <2>8. \A k \in 1 .. Len(vals'[fd]) :
          vals'[fd][k].from \in Conn /\ vals'[fd][k].conn <= life[vals'[fd][k].from]
        BY <2>3, <2>7
  <2> QED
    BY <2>3, <2>8 DEF ValsOwned
<1>6. ASSUME \/ QuietStep
             \/ \E c \in Conn, fd \in FD, m \in IpcMessage : SendStep(c, fd, m)
             \/ \E fd \in FD, m \in IpcMessage : ServerSendStep(fd, m)
             \/ \E c \in Conn, fd \in FD, p \in IpcPiece : ClientRecvStep(c, fd, p)
             \/ \E n \in I!Name : CallStep(n)
             \/ \E fd \in FD : CloseStep(fd)
             \/ \E w \in Worker, fd \in FD : \/ RecvStep(w, fd) \/ RegisterStep(w, fd)
                                             \/ ToOutboxStep(w, fd)
             \/ \E w \in Worker : ToQueueStep(w)
      PROVE  ValsOwned'
  <2>1. UNCHANGED <<vals, life>>
        BY <1>6 DEF QuietStep, SendStep, ServerSendStep, ClientRecvStep, CallStep, CloseStep,
                    RecvStep, RegisterStep, ToOutboxStep, ToQueueStep
  <2> QED
    BY <1>2, <2>1
<1> QED
  BY <1>3, <1>4, <1>5, <1>6 DEF IpcStep

LEMMA FromOwnerStep ==
  ASSUME IpcTypes, ReadersApart, FromOwner, IpcStep
  PROVE  FromOwner'
  BY UnownedStep, InboxStep, HandsStep, ValsStep DEF FromOwner

-----------------------------------------------------------------------------
(* StringIpc: heads are gathered with their ends *)

LEMMA MixedGrows ==
  ASSUME IpcStep
  PROVE  mixed \subseteq mixed'
<1>1. CASE \/ QuietStep
           \/ \E c \in Conn, fd \in FD : ConnectStep(c, fd)
           \/ \E c \in Conn, fd \in FD, m \in IpcMessage : SendStep(c, fd, m)
           \/ \E fd \in FD, m \in IpcMessage : ServerSendStep(fd, m)
      BY <1>1 DEF QuietStep, ConnectStep, SendStep, ServerSendStep
<1>2. CASE \/ \E c \in Conn, fd \in FD, p \in IpcPiece : ClientRecvStep(c, fd, p)
           \/ \E n \in I!Name : CallStep(n)
           \/ \E fd \in FD : CloseStep(fd)
      BY <1>2 DEF ClientRecvStep, CallStep, CloseStep
<1>3. CASE \E w \in Worker, fd \in FD : \/ RecvStep(w, fd) \/ RegisterStep(w, fd)
                                       \/ ToOutboxStep(w, fd) \/ ClearStep(w, fd)
      BY <1>3 DEF RecvStep, RegisterStep, ToOutboxStep, ClearStep
<1>4. CASE \/ \E w \in Worker, fd \in FD, p \in IpcPiece : GatherStep(w, fd, p)
           \/ \E w \in Worker : ToQueueStep(w)
      BY <1>4 DEF GatherStep, ToQueueStep
<1> QED
  BY <1>1, <1>2, <1>3, <1>4 DEF IpcStep

LEMMA GatheredInit == I!Init => Gathered
  BY IpcConstant DEF I!Init, Gathered, InboxCut, Cut, ReadersFind, EndsFollow, HeadsWait, Busy, I!Thread

LEMMA CutTail ==
  ASSUME NEW s \in Seq(IpcPiece), s # <<>>, Cut(s)
  PROVE  Cut(Tail(s))
<1>1. /\ Tail(s) \in Seq(IpcPiece) /\ Len(Tail(s)) = Len(s) - 1 /\ Len(s) \in Nat
      /\ \A i \in 1 .. Len(s) - 1 : Tail(s)[i] = s[i + 1]
      OBVIOUS
<1>2. ASSUME NEW i \in 1 .. Len(Tail(s)) - 1
      PROVE  /\ Tail(s)[i].end => ~Tail(s)[i + 1].end
             /\ ~Tail(s)[i].end => Tail(s)[i + 1].end /\ Tail(s)[i + 1].msg = Tail(s)[i].msg
  <2>1. /\ i + 1 \in 1 .. Len(s) - 1 /\ i \in 1 .. Len(s) - 1
        /\ Tail(s)[i] = s[i + 1] /\ Tail(s)[i + 1] = s[i + 1 + 1]
        BY <1>1
  <2> QED
    BY <2>1 DEF Cut
<1>3. ASSUME Tail(s) # <<>> PROVE Tail(s)[Len(Tail(s))].end
  <2>1. Len(Tail(s)) \in 1 .. Len(s) - 1 /\ Len(Tail(s)) + 1 = Len(s)
        BY <1>1, <1>3
  <2> QED
    BY <1>1, <2>1 DEF Cut
<1> QED
  BY <1>2, <1>3 DEF Cut

\* What begins a cut sequence.
LEMMA CutBegins ==
  ASSUME NEW s \in Seq(IpcPiece), s # <<>>, Cut(s)
  PROVE  IF Head(s).end THEN Tail(s) # <<>> => ~Head(Tail(s)).end
         ELSE Tail(s) # <<>> /\ Head(Tail(s)).end /\ Head(Tail(s)).msg = Head(s).msg
<1>1. /\ Head(s) = s[1] /\ Len(s) \in Nat /\ Len(s) >= 1
      /\ Tail(s) \in Seq(IpcPiece) /\ Len(Tail(s)) = Len(s) - 1
      OBVIOUS
<1>2. CASE Len(s) = 1
  <2>1. ASSUME Tail(s) # <<>> PROVE FALSE
    <3>1. PICK t \in Seq(IpcPiece) : t = Tail(s)
          BY <1>1
    <3>2. Len(t) = 0
          BY <1>1, <1>2, <3>1
    <3> QED
      BY <2>1, <3>1, <3>2
  <2>2. s[1].end
        BY <1>1, <1>2 DEF Cut
  <2> QED
    BY <1>1, <2>1, <2>2
<1>3. CASE Len(s) > 1
  <2>1. Tail(s) # <<>> /\ Head(Tail(s)) = Tail(s)[1] /\ Tail(s)[1] = s[1 + 1]
        BY <1>1, <1>3
  <2>2. 1 \in 1 .. Len(s) - 1
        BY <1>1, <1>3
  <2> QED
    BY <1>1, <2>1, <2>2 DEF Cut
<1> QED
  BY <1>1, <1>2, <1>3

LEMMA CutSent ==
  ASSUME NEW s \in Seq(IpcPiece), Cut(s), NEW m \in IpcMessage
  PROVE  Cut(s \o I!Pieces(<<m>>, m))
<1>1. PICK t : t = s \o I!Pieces(<<m>>, m)
      OBVIOUS
<1>2. /\ t \in Seq(IpcPiece) /\ Len(t) = Len(s) + 2 /\ \A i \in 1 .. Len(s) : t[i] = s[i]
      /\ t[Len(s) + 1] = [msg |-> m, end |-> FALSE] /\ t[Len(s) + 2] = [msg |-> m, end |-> TRUE]
      BY <1>1, SentAlone
<1>3. /\ ~t[Len(s) + 1].end /\ t[Len(s) + 2].end /\ t[Len(s) + 1].msg = t[Len(s) + 2].msg
      /\ Len(s) \in Nat
      BY <1>2
<1>4. ASSUME NEW i \in 1 .. Len(t) - 1
      PROVE  /\ t[i].end => ~t[i + 1].end
             /\ ~t[i].end => t[i + 1].end /\ t[i + 1].msg = t[i].msg
  <2>1. CASE i \in 1 .. Len(s) - 1
    <3>1. t[i] = s[i] /\ t[i + 1] = s[i + 1]
          BY <1>2, <1>3, <2>1
    <3> QED
      BY <2>1, <3>1 DEF Cut
  <2>2. CASE i = Len(s)
    <3>1. t[i] = s[Len(s)] /\ s # <<>>
          BY <1>2, <1>3, <2>2
    <3>2. t[i].end
          BY <3>1 DEF Cut
    <3> QED
      BY <1>3, <2>2, <3>2
  <2>3. CASE i = Len(s) + 1
    <3>1. t[i + 1] = t[Len(s) + 2]
          BY <1>3, <2>3
    <3> QED
      BY <1>3, <2>3, <3>1
  <2> QED
    BY <1>2, <1>3, <2>1, <2>2, <2>3
<1>5. t[Len(t)].end
      BY <1>2, <1>3
<1> QED
  BY <1>1, <1>4, <1>5 DEF Cut

LEMMA CutStep ==
  ASSUME IpcTypes, InboxCut, IpcStep
  PROVE  InboxCut'
<1>1. inbox \in [FD -> Seq(IpcPiece)]
      BY WiresAre
<1>2. ASSUME NEW fd \in FD, \A d \in FD \ {fd} : inbox'[d] = inbox[d], Cut(inbox'[fd])
      PROVE  InboxCut'
      BY <1>2 DEF InboxCut, Cut
<1>3. ASSUME NEW c \in Conn, NEW fd \in FD, NEW m \in IpcMessage, SendStep(c, fd, m)
      PROVE  InboxCut'
  <2>1. PICK s \in Seq(IpcPiece) : s = inbox[fd] /\ Cut(s)
        BY <1>1 DEF InboxCut
  <2>2. /\ \A d \in FD \ {fd} : inbox'[d] = inbox[d]
        /\ inbox'[fd] = s \o I!Pieces(<<m>>, m)
        BY <1>1, <1>3, <2>1 DEF SendStep
  <2>3. Cut(inbox'[fd])
        BY <2>1, <2>2, CutSent
  <2> QED
    BY <1>2, <2>2, <2>3
<1>4. ASSUME NEW fd \in FD, CloseStep(fd) PROVE InboxCut'
  <2>1. inbox'[fd] = <<>> /\ \A d \in FD \ {fd} : inbox'[d] = inbox[d]
        BY <1>1, <1>4 DEF CloseStep
  <2>2. Cut(<<>>)
        BY DEF Cut
  <2> QED
    BY <1>2, <2>1, <2>2
<1>5. ASSUME NEW w \in Worker, NEW fd \in FD, RecvStep(w, fd) PROVE InboxCut'
  <2>1. PICK s \in Seq(IpcPiece) : s = inbox[fd] /\ Cut(s) /\ s # <<>>
        BY <1>1, <1>5 DEF InboxCut, RecvStep
  <2>2. inbox'[fd] = Tail(s) /\ \A d \in FD \ {fd} : inbox'[d] = inbox[d]
        BY <1>1, <1>5, <2>1 DEF RecvStep
  <2>3. Cut(inbox'[fd])
        BY <2>1, <2>2, CutTail
  <2> QED
    BY <1>2, <2>2, <2>3
<1>6. ASSUME \/ QuietStep
             \/ \E c \in Conn, fd \in FD : ConnectStep(c, fd)
             \/ \E n \in I!Name : CallStep(n)
             \/ \E fd \in FD, m \in IpcMessage : ServerSendStep(fd, m)
             \/ \E c \in Conn, fd \in FD, p \in IpcPiece : ClientRecvStep(c, fd, p)
             \/ \E w \in Worker, fd \in FD : \/ RegisterStep(w, fd) \/ ClearStep(w, fd)
                                             \/ ToOutboxStep(w, fd)
             \/ \E w \in Worker, fd \in FD, p \in IpcPiece : GatherStep(w, fd, p)
             \/ \E w \in Worker : ToQueueStep(w)
      PROVE  InboxCut'
  <2>1. inbox' = inbox
        BY <1>6 DEF QuietStep, ConnectStep, CallStep, ServerSendStep, ClientRecvStep,
                    RegisterStep, ClearStep, ToOutboxStep, GatherStep, ToQueueStep
  <2> QED
    BY <2>1 DEF InboxCut, Cut
<1> QED
  BY <1>3, <1>4, <1>5, <1>6 DEF IpcStep

\* Who reads a pure connection is alone with what was gathered of it.
LEMMA ValsKept ==
  ASSUME IpcTypes, ReadersApart, IpcStep, NEW w \in Worker, Busy(w), Busy(w)',
         of[w].conn \notin mixed
  PROVE  vals'[of[w].fd] = vals[of[w].fd]
<1>1. vals \in [FD -> Seq(IpcMessage)]
      BY WiresAre
<1>2. ASSUME NEW v \in Worker, NEW fd \in FD,
             ClearStep(v, fd) \/ \E p \in IpcPiece : GatherStep(v, fd, p)
      PROVE  vals'[of[w].fd] = vals[of[w].fd]
  <2>1. /\ at[v] \in {"hand", "clear"} /\ at'[v] = "idle" /\ fd = of[v].fd
        /\ \A d \in FD \ {fd} : vals'[d] = vals[d]
        BY <1>1, <1>2 DEF ClearStep, GatherStep
  <2>2. v # w /\ Busy(v)
        BY <2>1 DEF Busy
  <2>3. of[w].fd # fd /\ of[w].fd \in FD
        BY <2>1, <2>2 DEF ReadersApart
  <2> QED
    BY <2>1, <2>3
<1>3. ASSUME \/ QuietStep
             \/ \E c \in Conn, fd \in FD : ConnectStep(c, fd)
             \/ \E c \in Conn, fd \in FD, m \in IpcMessage : SendStep(c, fd, m)
             \/ \E fd \in FD, m \in IpcMessage : ServerSendStep(fd, m)
             \/ \E c \in Conn, fd \in FD, p \in IpcPiece : ClientRecvStep(c, fd, p)
             \/ \E n \in I!Name : CallStep(n)
             \/ \E fd \in FD : CloseStep(fd)
             \/ \E v \in Worker, fd \in FD : \/ RecvStep(v, fd) \/ RegisterStep(v, fd)
                                             \/ ToOutboxStep(v, fd)
             \/ \E v \in Worker : ToQueueStep(v)
      PROVE  vals' = vals
      BY <1>3 DEF QuietStep, ConnectStep, SendStep, ServerSendStep, ClientRecvStep, CallStep,
                  CloseStep, RecvStep, RegisterStep, ToOutboxStep, ToQueueStep
<1> QED
  BY <1>2, <1>3 DEF IpcStep

LEMMA RecvFinds ==
  ASSUME IpcTypes, ReadersApart, HeadsWait, NEW w \in Worker, NEW fd \in FD, RecvStep(w, fd),
         owner[fd] \notin mixed'
  PROVE  /\ owner[fd] # None /\ owner[fd] \notin mixed
         /\ \A v \in Worker : Busy(v) => of[v].fd # fd /\ of[v].conn # owner[fd]
         /\ IF Head(inbox[fd]).end THEN EndsAlone(vals[fd], Head(inbox[fd]).msg)
            ELSE NoneOf(vals[fd], owner[fd])
<1>1. /\ owner[fd] # None /\ mixed \subseteq mixed' /\ inbox[fd] # <<>>
      /\ \A v \in Worker : Busy(v) /\ of[v].fd = fd => owner[fd] \in mixed'
      BY DEF RecvStep
<1>2. \A v \in Worker : Busy(v) => of[v].fd # fd /\ of[v].conn # owner[fd]
      BY <1>1 DEF ReadersApart
<1> QED
  BY <1>1, <1>2 DEF HeadsWait, Begins

LEMMA FindStep ==
  ASSUME IpcTypes, ReadersApart, ReadersFind, HeadsWait, IpcStep
  PROVE  ReadersFind'
<1> SUFFICES ASSUME NEW w \in Worker, at'[w] \in {"hand", "pass"}, of'[w].conn \notin mixed'
             PROVE  /\ at'[w] = "hand" =>
                         IF of'[w].tail.end THEN EndsAlone(vals'[of'[w].fd], of'[w].tail.msg)
                         ELSE NoneOf(vals'[of'[w].fd], of'[w].conn)
                    /\ at'[w] = "pass" => EndsAlone(of'[w].heads, of'[w].tail)
    BY DEF ReadersFind, EndsAlone, NoneOf, I!Origin
<1>1. CASE SameHand(w)
  <2>1. Busy(w) /\ Busy(w)' /\ of[w].conn \notin mixed
        BY <1>1, MixedGrows DEF SameHand, Busy
  <2>2. vals'[of[w].fd] = vals[of[w].fd]
        BY <2>1, ValsKept
  <2> QED
    BY <1>1, <2>1, <2>2 DEF SameHand, ReadersFind
<1>2. ASSUME NEW fd \in FD, RecvStep(w, fd)
      PROVE  /\ at'[w] = "hand"
             /\ IF of'[w].tail.end THEN EndsAlone(vals'[of'[w].fd], of'[w].tail.msg)
                ELSE NoneOf(vals'[of'[w].fd], of'[w].conn)
  <2>1. /\ at'[w] = "hand" /\ of'[w].fd = fd /\ of'[w].conn = owner[fd]
        /\ of'[w].tail = Head(inbox[fd]) /\ vals' = vals
        BY <1>2 DEF RecvStep
  <2>2. IF Head(inbox[fd]).end THEN EndsAlone(vals[fd], Head(inbox[fd]).msg)
        ELSE NoneOf(vals[fd], owner[fd])
        BY <1>2, <2>1, RecvFinds
  <2> QED
    BY <2>1, <2>2
<1>3. ASSUME NEW fd \in FD, RegisterStep(w, fd)
      PROVE  at'[w] = "pass" /\ EndsAlone(of'[w].heads, of'[w].tail)
  <2>1. /\ at'[w] = "pass" /\ at[w] = "hand" /\ fd = of[w].fd /\ of[w].tail.end
        /\ of'[w].conn = of[w].conn
        /\ of'[w].heads = vals[fd] /\ of'[w].tail = of[w].tail.msg
        BY <1>3 DEF RegisterStep
  <2>2. of[w].conn \notin mixed
        BY <2>1, MixedGrows
  <2> QED
    BY <2>1, <2>2 DEF ReadersFind, Busy
<1> QED
  BY <1>1, <1>2, <1>3, HandSteps

\* What a reader is busy with stays the same until it is done.
LEMMA BusyBefore ==
  ASSUME IpcTypes, IpcStep, NEW w \in Worker, Busy(w)'
  PROVE  \/ \E fd \in FD : RecvStep(w, fd)
         \/ /\ Busy(w) /\ of'[w].fd = of[w].fd /\ of'[w].conn = of[w].conn
            /\ HoldsHead(w)' <=> HoldsHead(w)
            /\ HoldsHead(w) => of'[w].tail = of[w].tail
<1> DEFINE Same == /\ Busy(w) /\ of'[w].fd = of[w].fd /\ of'[w].conn = of[w].conn
                   /\ HoldsHead(w)' <=> HoldsHead(w)
                   /\ HoldsHead(w) => of'[w].tail = of[w].tail
<1>1. ASSUME Rests PROVE Same
      BY <1>1 DEF Rests, HoldsHead
<1>2. ASSUME NEW v \in Worker, v # w, Others(v) PROVE Same
      BY <1>2 DEF Others, HoldsHead, Busy
<1>3. ASSUME \/ \E fd \in FD : RegisterStep(w, fd) \/ ToOutboxStep(w, fd)
             \/ ToQueueStep(w)
      PROVE  Same
      BY <1>3 DEF RegisterStep, ToOutboxStep, ToQueueStep, Clears, HoldsHead, Busy
<1>4. ASSUME \/ \E fd \in FD : ClearStep(w, fd)
             \/ \E fd \in FD, p \in IpcPiece : GatherStep(w, fd, p)
      PROVE  FALSE
      BY <1>4 DEF ClearStep, GatherStep, Busy
<1>5. ASSUME \/ QuietStep
             \/ \E c \in Conn, fd \in FD : ConnectStep(c, fd)
             \/ \E c \in Conn, fd \in FD, m \in IpcMessage : SendStep(c, fd, m)
             \/ \E fd \in FD, m \in IpcMessage : ServerSendStep(fd, m)
             \/ \E c \in Conn, fd \in FD, p \in IpcPiece : ClientRecvStep(c, fd, p)
             \/ \E n \in I!Name : CallStep(n)
             \/ \E fd \in FD : CloseStep(fd)
      PROVE  Rests
      BY <1>5 DEF QuietStep, ConnectStep, SendStep, ServerSendStep, ClientRecvStep, CallStep,
                  CloseStep
<1>6. ASSUME NEW v \in Worker,
             \/ \E fd \in FD : \/ RecvStep(v, fd) \/ RegisterStep(v, fd) \/ ToOutboxStep(v, fd)
                               \/ ClearStep(v, fd)
             \/ \E fd \in FD, p \in IpcPiece : GatherStep(v, fd, p)
             \/ ToQueueStep(v)
      PROVE  Others(v)
      BY <1>6 DEF RecvStep, RegisterStep, ToOutboxStep, ClearStep, GatherStep, ToQueueStep, Clears
<1> HIDE DEF Same
<1>7. ASSUME NEW v \in Worker,
             \/ \E fd \in FD : \/ RecvStep(v, fd) \/ RegisterStep(v, fd) \/ ToOutboxStep(v, fd)
                               \/ ClearStep(v, fd)
             \/ \E fd \in FD, p \in IpcPiece : GatherStep(v, fd, p)
             \/ ToQueueStep(v)
      PROVE  Same \/ \E fd \in FD : RecvStep(w, fd)
  <2>1. CASE v # w
        BY <1>2, <1>6, <1>7, <2>1
  <2>2. CASE v = w
        BY <1>3, <1>4, <1>7, <2>2
  <2> QED
    BY <2>1, <2>2
<1>8. Same \/ \E fd \in FD : RecvStep(w, fd)
      BY <1>1, <1>5, <1>7 DEF IpcStep
<1> QED
  BY <1>8 DEF Same

\* How what is on the way to the server moves, while its connection stays.
LEMMA BeginsStep ==
  ASSUME IpcTypes, IpcStep, NEW fd \in FD, owner'[fd] # None
  PROVE  \/ /\ owner'[fd] = owner[fd]
            /\ Begins(fd)' <=> Begins(fd)
            /\ Begins(fd) => Head(inbox'[fd]) = Head(inbox[fd])
         \/ /\ owner'[fd] = owner[fd] /\ \E w \in Worker : RecvStep(w, fd)
         \/ \E c \in Conn : ConnectStep(c, fd)
<1> DEFINE Same == /\ owner'[fd] = owner[fd]
                   /\ Begins(fd)' <=> Begins(fd)
                   /\ Begins(fd) => Head(inbox'[fd]) = Head(inbox[fd])
<1>1. /\ inbox \in [FD -> Seq(IpcPiece)] /\ life \in [Conn -> Nat]
      /\ owner \in [FD -> (Conn \X Nat) \cup {None}]
      BY WiresAre
<1>2. ASSUME owner'[fd] = owner[fd], inbox'[fd] = inbox[fd] PROVE Same
      BY <1>2 DEF Begins
<1>3. ASSUME NEW c \in Conn, NEW d \in FD, ConnectStep(c, d), d # fd PROVE Same
      BY <1>1, <1>2, <1>3 DEF ConnectStep
<1>4. ASSUME NEW c \in Conn, NEW d \in FD, NEW m \in IpcMessage, SendStep(c, d, m)
      PROVE  Same
  <2>1. CASE d # fd
        BY <1>1, <1>2, <1>4, <2>1 DEF SendStep
  <2>2. CASE d = fd
    <3>1. PICK s \in Seq(IpcPiece) : s = inbox[fd]
          BY <1>1
    <3>2. PICK t : t = s \o I!Pieces(<<m>>, m)
          OBVIOUS
    <3>3. owner'[fd] = owner[fd] /\ inbox'[fd] = t
          BY <1>1, <1>4, <2>2, <3>1, <3>2 DEF SendStep
    <3>4. /\ t \in Seq(IpcPiece) /\ Len(t) = Len(s) + 2 /\ \A i \in 1 .. Len(s) : t[i] = s[i]
          /\ t[Len(s) + 1] = [msg |-> m, end |-> FALSE]
          BY <3>2, SentAlone
    <3>5. t # <<>> /\ Head(t) = t[1] /\ Len(s) \in Nat
          BY <3>4
    <3>6. CASE s = <<>>
      <4>1. Head(t) = [msg |-> m, end |-> FALSE]
            BY <3>4, <3>5, <3>6
      <4> QED
        BY <3>1, <3>3, <3>6, <4>1 DEF Begins
    <3>7. CASE s # <<>>
      <4>1. Head(t) = Head(s)
            BY <3>4, <3>5, <3>7
      <4> QED
        BY <3>1, <3>3, <3>5, <3>7, <4>1 DEF Begins
    <3> QED
      BY <3>6, <3>7
  <2> QED
    BY <2>1, <2>2
<1>5. ASSUME NEW d \in FD, CloseStep(d) PROVE Same
      BY <1>1, <1>2, <1>5 DEF CloseStep
<1>6. ASSUME NEW w \in Worker, NEW d \in FD, RecvStep(w, d)
      PROVE  Same \/ (owner'[fd] = owner[fd] /\ RecvStep(w, fd))
  <2>1. owner' = owner /\ (d # fd => inbox'[fd] = inbox[fd])
        BY <1>1, <1>6 DEF RecvStep
  <2> QED
    BY <1>2, <1>6, <2>1
<1>7. ASSUME \/ QuietStep
             \/ \E n \in I!Name : CallStep(n)
             \/ \E d \in FD, m \in IpcMessage : ServerSendStep(d, m)
             \/ \E c \in Conn, d \in FD, p \in IpcPiece : ClientRecvStep(c, d, p)
             \/ \E w \in Worker, d \in FD : \/ RegisterStep(w, d) \/ ClearStep(w, d)
                                            \/ ToOutboxStep(w, d)
             \/ \E w \in Worker, d \in FD, p \in IpcPiece : GatherStep(w, d, p)
             \/ \E w \in Worker : ToQueueStep(w)
      PROVE  UNCHANGED <<inbox, owner>>
      BY <1>7 DEF QuietStep, CallStep, ServerSendStep, ClientRecvStep, RegisterStep, ClearStep,
                  ToOutboxStep, GatherStep, ToQueueStep
<1>8. ASSUME UNCHANGED <<inbox, owner>> PROVE Same
      BY <1>2, <1>8
<1> HIDE DEF Same
<1>9. \/ Same
      \/ owner'[fd] = owner[fd] /\ \E w \in Worker : RecvStep(w, fd)
      \/ \E c \in Conn : ConnectStep(c, fd)
      BY <1>3, <1>4, <1>5, <1>6, <1>7, <1>8 DEF IpcStep
<1> QED
  BY <1>9 DEF Same

LEMMA ConnectPure ==
  ASSUME IpcTypes, ReadersApart, FromOwner, NEW c \in Conn, NEW fd \in FD, ConnectStep(c, fd)
  PROVE  /\ UNCHANGED <<inbox, vals, mixed>> /\ Rests
         /\ \A d \in FD \ {fd} : owner'[d] = owner[d]
         /\ owner'[fd] # None /\ ~Begins(fd) /\ NoneOf(vals[fd], owner'[fd])
         /\ \A w \in Worker : Busy(w) => of[w].conn # owner'[fd]
<1>1. /\ inbox \in [FD -> Seq(IpcPiece)] /\ life \in [Conn -> Nat]
      /\ owner \in [FD -> (Conn \X Nat) \cup {None}] /\ vals \in [FD -> Seq(IpcMessage)]
      /\ None \notin Conn \X Nat
      BY WiresAre, IpcConstant
<1>2. PICK n \in Nat : n = life[c] + 1
      BY <1>1
<1>3. /\ UNCHANGED <<inbox, vals, mixed>> /\ Rests /\ owner[fd] = None
      /\ owner' = [owner EXCEPT ![fd] = <<c, n>>]
      BY <1>2 DEF ConnectStep
<1>4. /\ owner'[fd] = <<c, n>> /\ <<c, n>> # None
      /\ \A d \in FD \ {fd} : owner'[d] = owner[d]
      BY <1>1, <1>3
<1>5. ~Begins(fd)
      BY <1>3 DEF Begins, FromOwner, NothingUnowned
<1>6. ASSUME NEW k \in 1 .. Len(vals[fd]) PROVE I!Origin(vals[fd][k]) # <<c, n>>
  <2>1. vals[fd][k].from \in Conn /\ vals[fd][k].conn <= life[vals[fd][k].from]
        BY DEF FromOwner, ValsOwned
  <2> QED
    BY <1>1, <1>2, <2>1 DEF I!Origin
<1>7. ASSUME NEW w \in Worker, Busy(w) PROVE of[w].conn # <<c, n>>
      BY <1>1, <1>2, <1>7 DEF ReadersApart
<1> QED
  BY <1>3, <1>4, <1>5, <1>6, <1>7 DEF NoneOf

LEMMA FollowStep ==
  ASSUME IpcTypes, ReadersApart, FromOwner, Gathered, IpcStep
  PROVE  EndsFollow'
<1> SUFFICES ASSUME NEW fd \in FD, owner'[fd] # None, owner'[fd] \notin mixed',
                    NEW w \in Worker, Busy(w)', of'[w].fd = fd
             PROVE  IF of'[w].conn = owner'[fd] /\ HoldsHead(w)'
                    THEN Begins(fd)' /\ Head(inbox'[fd]).msg = of'[w].tail.msg
                    ELSE ~Begins(fd)'
    BY DEF EndsFollow
<1>1. owner'[fd] \notin mixed
      BY MixedGrows
<1>2. CASE /\ Busy(w) /\ of'[w].fd = of[w].fd /\ of'[w].conn = of[w].conn
           /\ HoldsHead(w)' <=> HoldsHead(w)
           /\ HoldsHead(w) => of'[w].tail = of[w].tail
  <2>1. CASE /\ owner'[fd] = owner[fd]
             /\ Begins(fd)' <=> Begins(fd)
             /\ Begins(fd) => Head(inbox'[fd]) = Head(inbox[fd])
    <3>1. IF of[w].conn = owner[fd] /\ HoldsHead(w)
          THEN Begins(fd) /\ Head(inbox[fd]).msg = of[w].tail.msg
          ELSE ~Begins(fd)
          BY <1>1, <1>2, <2>1 DEF Gathered, EndsFollow
    <3> QED
      BY <1>2, <2>1, <3>1
  <2>2. ASSUME NEW v \in Worker, RecvStep(v, fd), owner'[fd] = owner[fd] PROVE FALSE
    <3>1. of[w].fd # fd
          BY <1>2, <2>2, RecvFinds DEF Gathered
    <3> QED
      BY <1>2, <3>1
  <2>3. ASSUME NEW c \in Conn, ConnectStep(c, fd)
        PROVE  of'[w].conn # owner'[fd] /\ ~Begins(fd)'
    <3>1. UNCHANGED inbox /\ ~Begins(fd) /\ of[w].conn # owner'[fd]
          BY <1>2, <2>3, ConnectPure
    <3> QED
      BY <1>2, <3>1 DEF Begins
  <2> QED
    BY <2>1, <2>2, <2>3, BeginsStep
<1>3. ASSUME NEW d \in FD, RecvStep(w, d)
      PROVE  IF of'[w].conn = owner'[fd] /\ HoldsHead(w)'
             THEN Begins(fd)' /\ Head(inbox'[fd]).msg = of'[w].tail.msg
             ELSE ~Begins(fd)'
  <2>1. /\ d = fd /\ owner' = owner /\ at'[w] = "hand" /\ of'[w].conn = owner[fd]
        /\ of'[w].tail = Head(inbox[fd])
        BY <1>3 DEF RecvStep
  <2>2. PICK s \in Seq(IpcPiece) : s = inbox[fd] /\ s # <<>> /\ Cut(s)
        BY <1>3, <2>1, WiresAre DEF RecvStep, Gathered, InboxCut
  <2>3. inbox'[fd] = Tail(s)
        BY <1>3, <2>1, <2>2, WiresAre DEF RecvStep
  <2>4. IF Head(s).end THEN Tail(s) # <<>> => ~Head(Tail(s)).end
        ELSE Tail(s) # <<>> /\ Head(Tail(s)).end /\ Head(Tail(s)).msg = Head(s).msg
        BY <2>2, CutBegins
  <2> QED
    BY <2>1, <2>2, <2>3, <2>4 DEF HoldsHead, Begins
<1> QED
  BY <1>2, <1>3, BusyBefore

LEMMA EndsAloneAppend ==
  ASSUME NEW h \in Seq(IpcMessage), NEW m \in IpcMessage, NoneOf(h, I!Origin(m))
  PROVE  EndsAlone(Append(h, m), m)
<1>1. /\ Append(h, m) # <<>> /\ Len(Append(h, m)) = Len(h) + 1 /\ Len(h) \in Nat
      /\ Append(h, m)[Len(h) + 1] = m
      /\ \A k \in 1 .. Len(h) : Append(h, m)[k] = h[k]
      BY AppendProperties
<1>2. 1 .. Len(Append(h, m)) - 1 = 1 .. Len(h)
      BY <1>1
<1> QED
  BY <1>1, <1>2 DEF EndsAlone, NoneOf

LEMMA NoneOfAppend ==
  ASSUME NEW h \in Seq(IpcMessage), NEW m \in IpcMessage, NEW o, NoneOf(h, o), I!Origin(m) # o
  PROVE  NoneOf(Append(h, m), o)
<1>1. /\ Len(Append(h, m)) = Len(h) + 1 /\ Len(h) \in Nat
      /\ Append(h, m)[Len(h) + 1] = m
      /\ \A k \in 1 .. Len(h) : Append(h, m)[k] = h[k]
      BY AppendProperties
<1>2. \A k \in 1 .. Len(Append(h, m)) : k \in 1 .. Len(h) \/ k = Len(h) + 1
      BY <1>1
<1> QED
  BY <1>1, <1>2 DEF NoneOf

LEMMA WaitStep ==
  ASSUME IpcTypes, ReadersApart, FromOwner, Gathered, IpcStep
  PROVE  HeadsWait'
<1>1. /\ vals \in [FD -> Seq(IpcMessage)] /\ inbox \in [FD -> Seq(IpcPiece)]
      BY WiresAre
<1> SUFFICES ASSUME NEW fd \in FD, owner'[fd] # None, owner'[fd] \notin mixed',
                    \A w \in Worker : Busy(w)' => of'[w].conn # owner'[fd]
             PROVE  IF Begins(fd)' THEN EndsAlone(vals'[fd], Head(inbox'[fd]).msg)
                    ELSE NoneOf(vals'[fd], owner'[fd])
    BY DEF HeadsWait, EndsAlone, NoneOf, I!Origin
<1>2. owner'[fd] \notin mixed
      BY MixedGrows
<1>3. ASSUME NEW w \in Worker, RecvStep(w, fd) PROVE FALSE
      BY <1>3 DEF RecvStep, Busy
<1>4. ASSUME NEW c \in Conn, ConnectStep(c, fd)
      PROVE  ~Begins(fd)' /\ NoneOf(vals'[fd], owner'[fd])
  <2>1. /\ UNCHANGED <<inbox, vals>> /\ ~Begins(fd) /\ NoneOf(vals[fd], owner'[fd])
        BY <1>4, ConnectPure
  <2> QED
    BY <2>1 DEF Begins
<1>5. ASSUME owner'[fd] = owner[fd],
             Begins(fd)' <=> Begins(fd),
             Begins(fd) => Head(inbox'[fd]) = Head(inbox[fd])
      PROVE  IF Begins(fd)' THEN EndsAlone(vals'[fd], Head(inbox'[fd]).msg)
             ELSE NoneOf(vals'[fd], owner'[fd])
  <2>1. ASSUME vals'[fd] = vals[fd], \A w \in Worker : Busy(w) => of[w].conn # owner[fd]
        PROVE  IF Begins(fd)' THEN EndsAlone(vals'[fd], Head(inbox'[fd]).msg)
               ELSE NoneOf(vals'[fd], owner'[fd])
    <3>1. IF Begins(fd) THEN EndsAlone(vals[fd], Head(inbox[fd]).msg)
          ELSE NoneOf(vals[fd], owner[fd])
          BY <1>2, <1>5, <2>1 DEF Gathered, HeadsWait
    <3> QED
      BY <1>5, <2>1, <3>1
  <2>2. ASSUME NEW w \in Worker, NEW p \in IpcPiece, GatherStep(w, fd, p)
        PROVE  IF Begins(fd)' THEN EndsAlone(vals'[fd], Head(inbox'[fd]).msg)
               ELSE NoneOf(vals'[fd], owner'[fd])
    <3>1. /\ at[w] = "hand" /\ fd = of[w].fd /\ p = of[w].tail
          /\ p.end => vals[fd] = <<>>
          /\ vals'[fd] = IF p.end THEN <<>> ELSE Append(vals[fd], p.msg)
          /\ Others(w)
          BY <1>1, <2>2 DEF GatherStep
    <3>2. IF of[w].conn = owner[fd] /\ ~p.end
          THEN Begins(fd) /\ Head(inbox[fd]).msg = p.msg
          ELSE ~Begins(fd)
          BY <1>2, <1>5, <3>1 DEF Gathered, EndsFollow, Busy, HoldsHead
    <3>3. p.msg \in IpcMessage /\ I!Origin(p.msg) = of[w].conn
          BY <3>1 DEF FromOwner, HandsOwned, IpcPiece
    <3>4. CASE of[w].conn = owner[fd]
      <4>1. IF p.end THEN EndsAlone(vals[fd], p.msg) ELSE NoneOf(vals[fd], owner[fd])
            BY <1>2, <1>5, <3>1, <3>4 DEF Gathered, ReadersFind, Busy
      <4>2. ~p.end
            BY <3>1, <4>1 DEF EndsAlone
      <4>3. EndsAlone(Append(vals[fd], p.msg), p.msg)
            BY <1>1, <3>3, <3>4, <4>1, <4>2, EndsAloneAppend
      <4> QED
        BY <1>5, <3>1, <3>2, <3>4, <4>2, <4>3
    <3>5. CASE of[w].conn # owner[fd]
      <4>1. \A v \in Worker : Busy(v) => of[v].conn # owner[fd]
            BY <1>5, <3>1, <3>5 DEF Others, Busy
      <4>2. NoneOf(vals[fd], owner[fd])
            BY <1>2, <1>5, <3>2, <3>5, <4>1 DEF Gathered, HeadsWait
      <4>3. NoneOf(Append(vals[fd], p.msg), owner[fd])
            BY <1>1, <3>3, <3>5, <4>2, NoneOfAppend
      <4>4. NoneOf(<<>>, owner[fd])
            BY DEF NoneOf
      <4> QED
        BY <1>5, <3>1, <3>2, <3>5, <4>3, <4>4
    <3> QED
      BY <3>4, <3>5
  <2>3. ASSUME NEW w \in Worker, ClearStep(w, fd)
        PROVE  IF Begins(fd)' THEN EndsAlone(vals'[fd], Head(inbox'[fd]).msg)
               ELSE NoneOf(vals'[fd], owner'[fd])
    <3>1. at[w] = "clear" /\ fd = of[w].fd /\ vals'[fd] = <<>>
          BY <1>1, <2>3 DEF ClearStep
    <3>2. ~Begins(fd)
          BY <1>2, <1>5, <3>1 DEF Gathered, EndsFollow, Busy, HoldsHead
    <3> QED
      BY <1>5, <3>1, <3>2 DEF NoneOf
  <2>4. ASSUME NEW w \in Worker, NEW d \in FD, d # fd,
               ClearStep(w, d) \/ \E p \in IpcPiece : GatherStep(w, d, p)
        PROVE  vals'[fd] = vals[fd] /\ \A v \in Worker : Busy(v) => of[v].conn # owner[fd]
    <3>1. /\ Others(w) /\ d = of[w].fd /\ at[w] \in {"hand", "clear"} /\ vals'[fd] = vals[fd]
          BY <1>1, <2>4 DEF ClearStep, GatherStep
    <3>2. of[w].conn # owner[fd]
          BY <2>4, <3>1 DEF ReadersApart, Busy
    <3> QED
      BY <1>5, <3>1, <3>2 DEF Others, Busy
  <2>5. ASSUME NEW w \in Worker, NEW d \in FD, RecvStep(w, d) \/ RegisterStep(w, d)
                                               \/ ToOutboxStep(w, d) \/ ToQueueStep(w)
        PROVE  vals'[fd] = vals[fd] /\ \A v \in Worker : Busy(v) => of[v].conn # owner[fd]
    <3>1. /\ Others(w) /\ vals' = vals
          /\ Busy(w) => Busy(w)' /\ of'[w].conn = of[w].conn
          BY <2>5 DEF RecvStep, RegisterStep, ToOutboxStep, ToQueueStep, Clears, Busy
    <3> QED
      BY <1>5, <3>1 DEF Others, Busy
  <2>6. ASSUME \/ QuietStep
               \/ \E c \in Conn, d \in FD : ConnectStep(c, d)
               \/ \E c \in Conn, d \in FD, m \in IpcMessage : SendStep(c, d, m)
               \/ \E d \in FD, m \in IpcMessage : ServerSendStep(d, m)
               \/ \E c \in Conn, d \in FD, p \in IpcPiece : ClientRecvStep(c, d, p)
               \/ \E n \in I!Name : CallStep(n)
               \/ \E d \in FD : CloseStep(d)
        PROVE  vals'[fd] = vals[fd] /\ \A v \in Worker : Busy(v) => of[v].conn # owner[fd]
    <3>1. Rests /\ vals' = vals
          BY <2>6 DEF QuietStep, ConnectStep, SendStep, ServerSendStep, ClientRecvStep, CallStep,
                      CloseStep
    <3> QED
      BY <1>5, <3>1 DEF Rests
  <2>7. \/ \E w \in Worker, p \in IpcPiece : GatherStep(w, fd, p)
        \/ \E w \in Worker : ClearStep(w, fd)
        \/ vals'[fd] = vals[fd] /\ \A v \in Worker : Busy(v) => of[v].conn # owner[fd]
        BY <2>4, <2>5, <2>6 DEF IpcStep
  <2> QED
    BY <2>1, <2>2, <2>3, <2>7
<1> QED
  BY <1>3, <1>4, <1>5, BeginsStep

LEMMA GatheredStep ==
  ASSUME IpcTypes, ReadersApart, FromOwner, Gathered, IpcStep
  PROVE  Gathered'
<1>1. InboxCut' /\ ReadersFind'
      BY CutStep, FindStep DEF Gathered
<1>2. EndsFollow' /\ HeadsWait'
      BY FollowStep, WaitStep
<1> QED
  BY <1>1, <1>2 DEF Gathered

-----------------------------------------------------------------------------
(* StringIpc: frames stay whole on the way to a client *)

LEMMA FramesInit == I!Init => FramesWhole
  BY IpcConstant DEF I!Init, FramesWhole, LinesWhole, FirstLife, QueuesWhole, I!Connected, I!Name

LEMMA WholeStays ==
  ASSUME mixed \subseteq mixed', NEW s
  PROVE  (Whole(s) => Whole(s)') /\ (Alone(s) => Alone(s)')
<1>1. \A m : Pure(m)' => Pure(m)
      BY DEF Pure, I!Origin
<1>2. Whole(s) => Whole(s)'
      BY <1>1 DEF Whole
<1>3. Alone(s) => Alone(s)'
      BY <1>1 DEF Alone, SameFrame, I!Origin
<1> QED
  BY <1>2, <1>3

LEMMA FrameStays ==
  ASSUME mixed \subseteq mixed', life \in [Conn -> Nat], life' \in [Conn -> Nat],
         \A c \in Conn : life[c] <= life'[c],
         NEW n, NEW f, FrameOk(n, f)
  PROVE  FrameOk(n, f)'
<1>1. \A m : Pure(m)' => Pure(m)
      BY DEF Pure, I!Origin
<1>2. n \in Conn /\ life[n] > 1 => life'[n] > 1
  <2>1. ASSUME n \in Conn PROVE life[n] \in Nat /\ life'[n] \in Nat /\ life[n] <= life'[n]
        BY <2>1
  <2> QED
    BY <2>1
<1> QED
  BY <1>1, <1>2 DEF FrameOk, I!Origin

LEMMA LineIs ==
  ASSUME NEW v \in Seq(IpcMessage), NEW s \in Seq(IpcPiece)
  PROVE  /\ HeadPieces(v) \in Seq(IpcPiece) /\ Len(HeadPieces(v)) = Len(v)
         /\ HeadPieces(v) \o s \in Seq(IpcPiece)
         /\ Len(HeadPieces(v) \o s) = Len(v) + Len(s)
         /\ \A i \in 1 .. Len(v) : (HeadPieces(v) \o s)[i] = [msg |-> v[i], end |-> FALSE]
         /\ \A i \in 1 .. Len(s) : (HeadPieces(v) \o s)[Len(v) + i] = s[i]
<1>1. PICK n \in Nat : n = Len(v)
      OBVIOUS
<1>2. PICK h : h = [i \in 1 .. n |-> [msg |-> v[i], end |-> FALSE]]
      OBVIOUS
<1>3. HeadPieces(v) = h
      BY <1>1, <1>2 DEF HeadPieces
<1>4. \A i \in 1 .. n : [msg |-> v[i], end |-> FALSE] \in IpcPiece
  <2>1. \A i \in 1 .. n : v[i] \in IpcMessage
        BY <1>1
  <2> QED
    BY <2>1 DEF IpcPiece
<1>5. h \in [1 .. n -> IpcPiece] /\ \A i \in 1 .. n : h[i] = [msg |-> v[i], end |-> FALSE]
      BY <1>2, <1>4
<1>6. h \in Seq(IpcPiece)
      BY <1>5, IsASeq
<1>7. Len(h) = n
      BY <1>5, <1>6, LenProperties
<1>8. /\ h \o s \in Seq(IpcPiece) /\ Len(h \o s) = n + Len(s)
      /\ \A i \in 1 .. n : (h \o s)[i] = h[i]
  <2>1. h \o s \in Seq(IpcPiece) /\ Len(h \o s) = Len(h) + Len(s)
        BY <1>6, ConcatProperties
  <2>2. \A i \in 1 .. n : i \in 1 .. Len(h) + Len(s) /\ i <= Len(h)
        BY <1>1, <1>6, <1>7
  <2>3. \A i \in 1 .. n : (h \o s)[i] = h[i]
        BY <1>6, <2>2, ConcatProperties
  <2> QED
    BY <1>7, <2>1, <2>3
<1>9. ASSUME NEW i \in 1 .. Len(s) PROVE (h \o s)[n + i] = s[i]
  <2>1. n + i \in 1 .. Len(h) + Len(s) /\ ~(n + i <= Len(h)) /\ (n + i) - Len(h) = i
        BY <1>1, <1>7
  <2> QED
    BY <1>6, <2>1, ConcatProperties
<1> QED
  BY <1>1, <1>3, <1>5, <1>6, <1>7, <1>8, <1>9

LEMMA LineSeq ==
  ASSUME NEW v \in Seq(IpcMessage), NEW s \in Seq(IpcPiece), NEW n \in Nat, n = Len(v)
  PROVE  \E t \in Seq(IpcPiece) :
           /\ t = HeadPieces(v) \o s /\ Len(t) = n + Len(s)
           /\ \A i \in 1 .. n : t[i] = [msg |-> v[i], end |-> FALSE]
           /\ \A i \in 1 .. Len(s) : t[n + i] = s[i]
<1>1. PICK t : t = HeadPieces(v) \o s
      OBVIOUS
<1>2. /\ t \in Seq(IpcPiece) /\ Len(t) = Len(v) + Len(s)
      /\ \A i \in 1 .. Len(v) : t[i] = [msg |-> v[i], end |-> FALSE]
      /\ \A i \in 1 .. Len(s) : t[Len(v) + i] = s[i]
      BY <1>1, LineIs
<1>3. /\ Len(t) = n + Len(s)
      /\ \A i \in 1 .. n : t[i] = [msg |-> v[i], end |-> FALSE]
      /\ \A i \in 1 .. Len(s) : t[n + i] = s[i]
      BY <1>2
<1> QED
  BY <1>1, <1>2, <1>3

LEMMA LinesJoin ==
  ASSUME NEW a \in Seq(IpcPiece), NEW b \in Seq(IpcPiece), NEW p \in Seq(IpcPiece)
  PROVE  (a \o b) \o p = a \o (b \o p)
  BY ConcatAssociative, SMT

\* A frame at the end of a line.
LEMMA FrameAdded ==
  ASSUME NEW s \in Seq(IpcPiece), NEW h \in Seq(IpcMessage), NEW m \in IpcMessage, h # <<>>,
         Pure(m) => EndsAlone(h, m)
  PROVE  /\ Whole(s) => Whole(s \o I!Pieces(h, m))
         /\ Alone(s) => Alone(s \o I!Pieces(h, m))
<1>1. PICK p : p = I!Pieces(h, m)
      OBVIOUS
<1>2. /\ p \in Seq(IpcPiece) /\ Len(p) = Len(h) + 1
      /\ \A i \in 1 .. Len(h) : p[i] = [msg |-> h[i], end |-> FALSE]
      /\ p[Len(h) + 1] = [msg |-> m, end |-> TRUE]
      BY <1>1, PiecesFrame
<1>3. PICK t \in Seq(IpcPiece) : t = s \o p
      BY <1>2, ConcatProperties
<1>4. Len(t) = Len(s) + Len(h) + 1 /\ Len(s) \in Nat /\ Len(h) \in Nat /\ Len(h) > 0
  <2>1. Len(s) \in Nat /\ Len(h) \in Nat /\ Len(h) > 0
        OBVIOUS
  <2>2. Len(t) = Len(s) + Len(p)
        BY <1>2, <1>3, ConcatProperties
  <2> QED
    BY <1>2, <2>1, <2>2
<1>5. \A i \in 1 .. Len(s) : t[i] = s[i]
      BY <1>2, <1>3, ConcatProperties
<1>6. ASSUME NEW i \in 1 .. Len(p) PROVE t[Len(s) + i] = p[i]
  <2>1. Len(s) + i \in 1 .. Len(s) + Len(p) /\ ~(Len(s) + i <= Len(s)) /\ (Len(s) + i) - Len(s) = i
        BY <1>4
  <2> QED
    BY <1>2, <1>3, <2>1, ConcatProperties
<1>7. \A i \in 1 .. Len(h) : ~t[Len(s) + i].end /\ t[Len(s) + i].msg = h[i]
  <2>1. ASSUME NEW i \in 1 .. Len(h) PROVE ~t[Len(s) + i].end /\ t[Len(s) + i].msg = h[i]
    <3>1. i \in 1 .. Len(p)
          BY <1>2, <1>4
    <3>2. t[Len(s) + i] = p[i] /\ p[i] = [msg |-> h[i], end |-> FALSE]
          BY <1>2, <1>6, <3>1
    <3> QED
      BY <3>2
  <2> QED
    BY <2>1
<1>8. t[Len(t)].end /\ t[Len(t)].msg = m /\ Len(t) \in 1 .. Len(t)
  <2>1. Len(h) + 1 \in 1 .. Len(p) /\ Len(t) = Len(s) + (Len(h) + 1)
        BY <1>2, <1>4
  <2>2. t[Len(t)] = p[Len(h) + 1]
        BY <1>6, <2>1
  <2> QED
    BY <1>2, <1>4, <2>2
<1>9. ASSUME NEW i \in 1 .. Len(t), t[i].end
      PROVE  i \in 1 .. Len(s) \/ i = Len(t)
  <2>1. ASSUME i \notin 1 .. Len(s), i # Len(t) PROVE FALSE
    <3>a. PICK a \in Nat, b \in Nat : a = Len(s) /\ b = Len(h)
          BY <1>4
    <3>b. i \in 1 .. a + b + 1 /\ i # a + b + 1 /\ ~(i \in 1 .. a)
          BY <1>4, <2>1, <3>a
    <3>c. i - a \in 1 .. b /\ a + (i - a) = i
          BY <3>b
    <3>1. i - Len(s) \in 1 .. Len(h) /\ Len(s) + (i - Len(s)) = i
          BY <3>a, <3>c
    <3> QED
      BY <1>7, <1>9, <3>1
  <2> QED
    BY <2>1
<1>10. ASSUME Whole(s) PROVE Whole(t)
  <2> SUFFICES ASSUME NEW i \in 1 .. Len(t), t[i].end
               PROVE  i > 1 /\ ~t[i - 1].end /\ (Pure(t[i].msg) => t[i - 1].msg = t[i].msg)
      BY DEF Whole
  <2>1. CASE i \in 1 .. Len(s)
    <3>1. i > 1 /\ ~s[i - 1].end /\ (Pure(s[i].msg) => s[i - 1].msg = s[i].msg)
          BY <1>5, <1>10, <2>1 DEF Whole
    <3>2. i - 1 \in 1 .. Len(s)
          BY <2>1, <3>1
    <3> QED
      BY <1>5, <2>1, <3>1, <3>2
  <2>2. CASE i = Len(t)
    <3>1. i > 1 /\ i - 1 = Len(s) + Len(h) /\ Len(h) \in 1 .. Len(h)
          BY <1>4, <2>2
    <3>2. ~t[i - 1].end /\ t[i - 1].msg = h[Len(h)]
          BY <1>7, <3>1
    <3>3. Pure(m) => h[Len(h)] = m
          BY DEF EndsAlone
    <3> QED
      BY <1>8, <2>2, <3>1, <3>2, <3>3
  <2> QED
    BY <1>9, <2>1, <2>2
<1>11. ASSUME Alone(s) PROVE Alone(t)
  <2>1. ASSUME NEW i \in 1 .. Len(t), NEW k \in 1 .. i - 2, t[i].end, Pure(t[i].msg),
               SameFrame(t, k, i)
        PROVE  I!Origin(t[k].msg) # I!Origin(t[i].msg)
    <3>1. CASE i \in 1 .. Len(s)
      <4>1. k \in 1 .. Len(s) /\ \A j \in k .. i - 1 : j \in 1 .. Len(s)
            BY <1>4, <2>1, <3>1
      <4>2. SameFrame(s, k, i)
            BY <1>5, <2>1, <4>1 DEF SameFrame
      <4> QED
        BY <1>5, <1>11, <2>1, <3>1, <4>1, <4>2 DEF Alone
    <3>2. CASE i = Len(t) /\ k > Len(s)
      <4>1. k - Len(s) \in 1 .. Len(h) - 1 /\ Len(s) + (k - Len(s)) = k
            BY <1>4, <2>1, <3>2
      <4>2. t[k].msg = h[k - Len(s)]
            BY <1>4, <1>7, <4>1
      <4>3. I!Origin(h[k - Len(s)]) # I!Origin(m)
            BY <1>8, <2>1, <3>2, <4>1 DEF EndsAlone
      <4> QED
        BY <1>8, <3>2, <4>2, <4>3
    <3>3. CASE i = Len(t) /\ k <= Len(s)
      <4>1. Len(s) \in k .. i - 1 /\ Len(s) \in 1 .. Len(s)
            BY <1>4, <2>1, <3>3
      <4>2. s[Len(s)].end
            BY <4>1, <1>11 DEF Alone
      <4> QED
        BY <1>5, <2>1, <4>1, <4>2 DEF SameFrame
    <3> QED
      BY <1>4, <1>9, <2>1, <3>1, <3>2, <3>3
  <2> QED
    BY <1>8, <2>1 DEF Alone
<1> QED
  BY <1>1, <1>3, <1>10, <1>11

\* A client takes a head, and the line is as it was.
LEMMA HeadTaken ==
  ASSUME NEW v \in Seq(IpcMessage), NEW s \in Seq(IpcPiece), s # <<>>, ~Head(s).end
  PROVE  HeadPieces(Append(v, Head(s).msg)) \o Tail(s) = HeadPieces(v) \o s
<1>1. PICK m \in IpcMessage : m = Head(s).msg /\ s[1] = [msg |-> m, end |-> FALSE]
  <2>1. Head(s) \in IpcPiece /\ Head(s) = s[1]
        OBVIOUS
  <2> QED
    BY <2>1 DEF IpcPiece
<1>2. PICK n \in Nat : n = Len(v)
      OBVIOUS
<1>3. PICK w \in Seq(IpcMessage) : w = Append(v, m)
      BY AppendProperties
<1>4. Len(w) = n + 1 /\ w[n + 1] = m /\ \A i \in 1 .. n : w[i] = v[i]
      BY <1>2, <1>3, AppendProperties
<1>5. PICK r \in Seq(IpcPiece) : r = Tail(s)
      BY HeadTailProperties
<1>6. /\ Len(s) \in Nat /\ Len(r) = Len(s) - 1 /\ Len(s) >= 1
      /\ \A j \in 1 .. Len(r) : r[j] = s[j + 1]
      BY <1>5
<1>7. PICK t \in Seq(IpcPiece) :
        /\ t = HeadPieces(v) \o s /\ Len(t) = n + Len(s)
        /\ \A i \in 1 .. n : t[i] = [msg |-> v[i], end |-> FALSE]
        /\ \A i \in 1 .. Len(s) : t[n + i] = s[i]
      BY <1>2, LineSeq
<1>8. PICK u \in Seq(IpcPiece) :
        /\ u = HeadPieces(w) \o r /\ Len(u) = n + 1 + Len(r)
        /\ \A i \in 1 .. n + 1 : u[i] = [msg |-> w[i], end |-> FALSE]
        /\ \A i \in 1 .. Len(r) : u[n + 1 + i] = r[i]
  <2>1. PICK k \in Nat : k = n + 1
        OBVIOUS
  <2>2. k = Len(w)
        BY <1>4, <2>1
  <2>3. PICK u \in Seq(IpcPiece) :
          /\ u = HeadPieces(w) \o r /\ Len(u) = k + Len(r)
          /\ \A i \in 1 .. k : u[i] = [msg |-> w[i], end |-> FALSE]
          /\ \A i \in 1 .. Len(r) : u[k + i] = r[i]
        BY <2>2, LineSeq
  <2> QED
    BY <2>1, <2>3
<1>9. Len(u) = Len(t)
      BY <1>6, <1>7, <1>8
<1>10. ASSUME NEW i \in 1 .. Len(u) PROVE u[i] = t[i]
  <2>1. CASE i \in 1 .. n
    <3>1. i \in 1 .. n + 1
          BY <2>1
    <3>2. u[i] = [msg |-> w[i], end |-> FALSE] /\ t[i] = [msg |-> v[i], end |-> FALSE]
          BY <1>7, <1>8, <2>1, <3>1
    <3> QED
      BY <1>4, <2>1, <3>2
  <2>2. CASE i = n + 1
    <3>1. 1 \in 1 .. Len(s) /\ n + 1 \in 1 .. n + 1
          BY <1>6
    <3>2. t[n + 1] = s[1]
          BY <1>7, <3>1
    <3>3. u[n + 1] = [msg |-> w[n + 1], end |-> FALSE]
          BY <1>8, <3>1
    <3> QED
      BY <1>1, <1>4, <2>2, <3>2, <3>3
  <2>3. CASE i > n + 1
    <3>1. PICK j \in 1 .. Len(r) : i = n + 1 + j
      <4>1. i - (n + 1) \in 1 .. Len(r) /\ i = n + 1 + (i - (n + 1))
            BY <1>6, <1>8, <2>3
      <4> QED
        BY <4>1
    <3>2. u[i] = r[j] /\ r[j] = s[j + 1]
          BY <1>6, <1>8, <3>1
    <3>3. j + 1 \in 1 .. Len(s) /\ i = n + (j + 1)
          BY <1>6, <3>1
    <3>4. t[i] = s[j + 1]
          BY <1>7, <3>3
    <3> QED
      BY <3>2, <3>4
  <2> QED
    BY <1>8, <2>1, <2>2, <2>3
<1>11. u = t
       BY <1>9, <1>10, SeqEqual
<1> QED
  BY <1>1, <1>3, <1>5, <1>7, <1>8, <1>11

\* It takes an end, and what it has is the frame.
LEMMA EndTaken ==
  ASSUME NEW v \in Seq(IpcMessage), NEW s \in Seq(IpcPiece), s # <<>>, Head(s).end,
         Whole(HeadPieces(v) \o s)
  PROVE  /\ v # <<>> /\ (Pure(Head(s).msg) => v[Len(v)] = Head(s).msg)
         /\ Whole(HeadPieces(<<>>) \o Tail(s))
         /\ Alone(HeadPieces(v) \o s) =>
              /\ Alone(HeadPieces(<<>>) \o Tail(s))
              /\ Pure(Head(s).msg) =>
                   \A k \in 1 .. Len(v) - 1 : I!Origin(v[k]) # I!Origin(Head(s).msg)
<1>1. PICK n \in Nat : n = Len(v)
      OBVIOUS
<1>2. PICK r \in Seq(IpcPiece) : r = Tail(s)
      BY HeadTailProperties
<1>3. /\ Len(s) \in Nat /\ Len(r) = Len(s) - 1 /\ Len(s) >= 1 /\ Head(s) = s[1]
      /\ \A j \in 1 .. Len(r) : r[j] = s[j + 1]
      BY <1>2
<1>4. PICK t \in Seq(IpcPiece) :
        /\ t = HeadPieces(v) \o s /\ Len(t) = n + Len(s)
        /\ \A i \in 1 .. n : t[i] = [msg |-> v[i], end |-> FALSE]
        /\ \A i \in 1 .. Len(s) : t[n + i] = s[i]
      BY <1>1, LineSeq
<1>5. PICK e \in Seq(IpcMessage) : e = <<>> /\ Len(e) = 0
      BY EmptySeq
<1>6. PICK u \in Seq(IpcPiece) :
        /\ u = HeadPieces(<<>>) \o r /\ Len(u) = Len(r)
        /\ \A i \in 1 .. Len(r) : u[i] = r[i]
  <2>1. PICK k \in Nat : k = Len(e)
        BY <1>5
  <2>b. k = 0
        BY <1>5, <2>1
  <2>a. PICK u \in Seq(IpcPiece) :
          /\ u = HeadPieces(e) \o r /\ Len(u) = k + Len(r)
          /\ \A i \in 1 .. k : u[i] = [msg |-> e[i], end |-> FALSE]
          /\ \A i \in 1 .. Len(r) : u[k + i] = r[i]
        BY <2>1, LineSeq
  <2>2. Len(u) = Len(r)
        BY <2>a, <2>b
  <2>3. ASSUME NEW i \in 1 .. Len(r) PROVE u[i] = r[i]
    <3>1. k + i = i /\ u[k + i] = r[i]
          BY <2>a, <2>b
    <3> QED
      BY <3>1
  <2> QED
    BY <1>5, <2>a, <2>2, <2>3
<1>7. t[n + 1] = s[1] /\ n + 1 \in 1 .. Len(t)
  <2>1. 1 \in 1 .. Len(s) /\ n + 1 \in 1 .. Len(t)
        BY <1>3, <1>4
  <2> QED
    BY <1>4, <2>1
<1>8. n >= 1 /\ (Pure(t[n + 1].msg) => t[n].msg = t[n + 1].msg)
  <2>1. PICK l \in 1 .. Len(t) : l = n + 1 /\ t[l].end
        BY <1>3, <1>7
  <2>2. Whole(t)
        BY <1>4
  <2>3. l > 1 /\ (Pure(t[l].msg) => t[l - 1].msg = t[l].msg)
        BY <2>1, <2>2 DEF Whole
  <2>4. l - 1 = n /\ n >= 1
        BY <2>1, <2>3
  <2> QED
    BY <2>1, <2>3, <2>4
<1>9. n >= 1 /\ t[n].msg = v[n]
  <2>1. n \in 1 .. n
        BY <1>8
  <2>2. t[n] = [msg |-> v[n], end |-> FALSE]
        BY <1>4, <2>1
  <2> QED
    BY <1>8, <2>2
<1>10. v # <<>> /\ (Pure(Head(s).msg) => v[Len(v)] = Head(s).msg)
  <2>1. Pure(s[1].msg) => v[n] = s[1].msg
        BY <1>7, <1>8, <1>9
  <2> QED
    BY <1>1, <1>3, <1>9, <2>1
<1>11. ASSUME NEW i \in 1 .. Len(u) PROVE u[i] = t[n + 1 + i] /\ n + 1 + i \in 1 .. Len(t)
  <2>1. PICK a \in Nat : a = Len(s)
        BY <1>3
  <2>2. Len(r) = a - 1 /\ Len(u) = a - 1 /\ Len(t) = n + a
        BY <1>3, <1>4, <1>6, <2>1
  <2>3. i \in 1 .. a - 1
        BY <1>11, <2>2
  <2>4. i + 1 \in 1 .. Len(s) /\ i \in 1 .. Len(r) /\ n + 1 + i \in 1 .. Len(t)
        BY <2>1, <2>2, <2>3
  <2>5. u[i] = r[i] /\ r[i] = s[i + 1]
        BY <1>3, <1>6, <2>4
  <2>6. t[n + (i + 1)] = s[i + 1]
        BY <1>4, <2>4
  <2>7. n + 1 + i = n + (i + 1)
        BY <2>3
  <2> QED
    BY <2>4, <2>5, <2>6, <2>7
<1>12. Whole(u)
  <2> SUFFICES ASSUME NEW i \in 1 .. Len(u), u[i].end
               PROVE  i > 1 /\ ~u[i - 1].end /\ (Pure(u[i].msg) => u[i - 1].msg = u[i].msg)
      BY DEF Whole
  <2>1. PICK j \in 1 .. Len(t) : j = n + 1 + i /\ u[i] = t[j]
        BY <1>11
  <2>2. ~t[j - 1].end /\ (Pure(t[j].msg) => t[j - 1].msg = t[j].msg)
        BY <1>4, <2>1 DEF Whole
  <2>3. i # 1
    <3>1. ASSUME i = 1 PROVE FALSE
      <4>1. j - 1 = n + 1
            BY <2>1, <3>1
      <4> QED
        BY <1>3, <1>7, <2>2, <4>1
    <3> QED
      BY <3>1
  <2>4. i - 1 \in 1 .. Len(u) /\ j - 1 = n + 1 + (i - 1)
    <3>1. Len(u) \in Nat
          OBVIOUS
    <3> QED
      BY <2>1, <2>3, <3>1
  <2>5. u[i - 1] = t[j - 1]
        BY <1>11, <2>4
  <2> QED
    BY <2>1, <2>2, <2>3, <2>5
<1>13. ASSUME Alone(t) PROVE Alone(u)
  <2>1. ASSUME u # <<>> PROVE u[Len(u)].end
    <3>1. Len(u) \in 1 .. Len(u)
          BY <2>1
    <3>2. n + 1 + Len(u) = Len(t) /\ t # <<>>
      <4>1. n + 1 + Len(u) = Len(t)
        <5>1. PICK a \in Nat : a = Len(s)
              BY <1>3
        <5>2. Len(u) = a - 1 /\ Len(t) = n + a
              BY <1>3, <1>4, <1>6, <5>1
        <5> QED
          BY <5>2
      <4>2. ASSUME t = <<>> PROVE FALSE
        <5>1. Len(t) = 0
              BY <4>2
        <5> QED
          BY <1>7, <5>1
      <4> QED
        BY <4>1, <4>2
    <3>3. u[Len(u)] = t[Len(t)]
          BY <1>11, <3>1, <3>2
    <3> QED
      BY <1>13, <3>2, <3>3 DEF Alone
  <2>2. ASSUME NEW i \in 1 .. Len(u), NEW k \in 1 .. i - 2, u[i].end, Pure(u[i].msg),
               SameFrame(u, k, i)
        PROVE  I!Origin(u[k].msg) # I!Origin(u[i].msg)
    <3>1. PICK j \in 1 .. Len(t) : j = n + 1 + i /\ u[i] = t[j]
          BY <1>11
    <3>2. PICK l \in 1 .. j - 2 : l = n + 1 + k
          BY <1>6, <3>1
    <3>3. k \in 1 .. Len(u)
          BY <1>6, <2>2
    <3>4. u[k] = t[l]
          BY <1>11, <3>2, <3>3
    <3>5. ASSUME NEW x \in l .. j - 1 PROVE ~t[x].end
      <4>1. PICK y \in k .. i - 1 : x = n + 1 + y
        <5>1. x - (n + 1) \in k .. i - 1 /\ x = n + 1 + (x - (n + 1))
              BY <3>1, <3>2
        <5> QED
          BY <5>1
      <4>2. y \in 1 .. Len(u)
            BY <1>6, <3>3
      <4>3. u[y] = t[x]
            BY <1>11, <4>1, <4>2
      <4> QED
        BY <2>2, <4>3 DEF SameFrame
    <3>6. SameFrame(t, l, j)
          BY <3>5 DEF SameFrame
    <3> QED
      BY <1>13, <2>2, <3>1, <3>2, <3>4, <3>6 DEF Alone
  <2> QED
    BY <2>1, <2>2 DEF Alone
<1>14. ASSUME Alone(t), Pure(Head(s).msg), NEW k \in 1 .. n - 1
       PROVE  I!Origin(v[k]) # I!Origin(Head(s).msg)
  <2>1. k \in 1 .. (n + 1) - 2 /\ k \in 1 .. n
        OBVIOUS
  <2>2. \A j \in k .. (n + 1) - 1 : j \in 1 .. n
        OBVIOUS
  <2>3. ASSUME NEW j \in 1 .. n PROVE ~t[j].end /\ t[j].msg = v[j]
    <3>1. t[j] = [msg |-> v[j], end |-> FALSE]
          BY <1>4
    <3> QED
      BY <3>1
  <2>4. SameFrame(t, k, n + 1)
        BY <2>2, <2>3 DEF SameFrame
  <2>5. I!Origin(t[k].msg) # I!Origin(t[n + 1].msg)
    <3>1. PICK l \in 1 .. Len(t) : l = n + 1
          BY <1>7
    <3>2. t[l].end /\ Pure(t[l].msg) /\ k \in 1 .. l - 2 /\ SameFrame(t, k, l)
          BY <1>3, <1>7, <1>14, <2>1, <2>4, <3>1
    <3> QED
      BY <1>14, <3>1, <3>2 DEF Alone
  <2> QED
    BY <1>3, <1>7, <2>1, <2>3, <2>5
<1> QED
  BY <1>1, <1>2, <1>4, <1>6, <1>10, <1>12, <1>13, <1>14

\* How the line of a client that is connected moves.
LEMMA LineAdds ==
  ASSUME IpcTypes, NEW fd \in FD, NEW h \in Seq(IpcMessage), NEW m \in IpcMessage, h # <<>>,
         Pure(m) => EndsAlone(h, m), mixed' = mixed, UNCHANGED <<life, val>>, LinksStay,
         outbox' = [outbox EXCEPT ![fd] = @ \o I!Pieces(h, m)], LinesWhole
  PROVE  LinesWhole'
<1> SUFFICES ASSUME NEW c \in Conn, I!Connected(c)'
             PROVE  Whole(Line(c))' /\ (life'[c] = 1 => Alone(Line(c))')
    BY DEF LinesWhole
<1>1. /\ outbox \in [FD -> Seq(IpcPiece)] /\ val \in [Conn -> Seq(IpcMessage)]
      /\ link \in [Conn -> FD \cup {None}]
      BY WiresAre
<1>2. I!Connected(c) /\ link'[c] = link[c]
      BY DEF LinksStay
<1>3. PICK d \in FD : d = link[c]
      BY <1>1, <1>2 DEF I!Connected
<1>4. Whole(Line(c)) /\ (life[c] = 1 => Alone(Line(c)))
      BY <1>2 DEF LinesWhole
<1>5. PICK s : s = Line(c)
      OBVIOUS
<1>6. CASE d # fd
  <2>1. Line(c)' = s
        BY <1>1, <1>2, <1>3, <1>5, <1>6 DEF Line, HeadPieces
  <2>2. Whole(s)' /\ (life'[c] = 1 => Alone(s)')
        BY <1>4, <1>5, WholeStays
  <2>3. Whole(Line(c))'
        BY <2>1, <2>2 DEF Whole, Pure, I!Origin
  <2>4. Alone(s)' => Alone(Line(c))'
        BY <2>1 DEF Alone, SameFrame, Pure, I!Origin
  <2> QED
    BY <2>2, <2>3, <2>4
<1>7. CASE d = fd
  <2>1. PICK a \in Seq(IpcPiece), b \in Seq(IpcPiece), p \in Seq(IpcPiece) :
          a = HeadPieces(val[c]) /\ b = outbox[fd] /\ p = I!Pieces(h, m)
        BY <1>1, LineIs, PiecesFrame
  <2>2. s = a \o b /\ s \in Seq(IpcPiece)
        BY <1>3, <1>5, <1>7, <2>1, ConcatProperties DEF Line
  <2>3. Line(c)' = a \o (b \o p)
    <3>1. outbox'[fd] = b \o p
          BY <1>1, <2>1
    <3>2. Line(c)' = HeadPieces(val[c])' \o outbox'[fd]
          BY <1>2, <1>3, <1>7 DEF Line
    <3>3. HeadPieces(val[c])' = a
          BY <2>1 DEF HeadPieces
    <3> QED
      BY <3>1, <3>2, <3>3
  <2>4. Line(c)' = s \o p
    <3>1. (a \o b) \o p = a \o (b \o p)
          BY LinesJoin
    <3> QED
      BY <2>2, <2>3, <3>1
  <2>5. Whole(s \o p) /\ (life[c] = 1 => Alone(s \o p))
        BY <1>4, <1>5, <2>1, <2>2, FrameAdded
  <2>6. PICK t : t = s \o p /\ Line(c)' = t
        BY <2>4
  <2>7. Whole(t)' /\ (life'[c] = 1 => Alone(t)')
        BY <2>5, <2>6, WholeStays
  <2>8. Whole(Line(c))'
        BY <2>6, <2>7 DEF Whole, Pure, I!Origin
  <2>9. Alone(t)' => Alone(Line(c))'
        BY <2>6 DEF Alone, SameFrame, Pure, I!Origin
  <2> QED
    BY <2>7, <2>8, <2>9
<1> QED
  BY <1>6, <1>7

LEMMA LineKept ==
  ASSUME mixed \subseteq mixed', LinesWhole,
         \A c \in Conn : I!Connected(c)' =>
           I!Connected(c) /\ life'[c] = life[c] /\ Line(c)' = Line(c)
  PROVE  LinesWhole'
<1> SUFFICES ASSUME NEW c \in Conn, I!Connected(c)'
             PROVE  Whole(Line(c))' /\ (life'[c] = 1 => Alone(Line(c))')
    BY DEF LinesWhole
<1>1. PICK s : s = Line(c) /\ Line(c)' = s
      OBVIOUS
<1>2. Whole(s)' /\ (life'[c] = 1 => Alone(s)')
      BY <1>1, WholeStays DEF LinesWhole
<1> QED
  BY <1>1, <1>2 DEF Whole, Alone, SameFrame, Pure, I!Origin

LEMMA LineConnects ==
  ASSUME IpcTypes, NothingUnowned, FirstLife, LinesWhole, NEW c \in Conn, NEW fd \in FD,
         ConnectStep(c, fd)
  PROVE  LinesWhole' /\ FirstLife'
<1>1. /\ outbox \in [FD -> Seq(IpcPiece)] /\ val \in [Conn -> Seq(IpcMessage)]
      /\ link \in [Conn -> FD \cup {None}] /\ life \in [Conn -> Nat]
      /\ owner \in [FD -> (Conn \X Nat) \cup {None}] /\ None \notin FD /\ None \notin Conn \X Nat
      BY WiresAre, IpcConstant
<1>2. PICK n \in Nat : n = life[c] + 1
      BY <1>1
<1>3. /\ UNCHANGED <<outbox, val, mixed>> /\ owner[fd] = None
      /\ link' = [link EXCEPT ![c] = fd] /\ life' = [life EXCEPT ![c] = @ + 1]
      /\ owner' = [owner EXCEPT ![fd] = <<c, n>>]
      BY <1>2 DEF ConnectStep
<1>4. /\ outbox[fd] = <<>> /\ life'[c] = n /\ link'[c] = fd
      BY <1>1, <1>2, <1>3 DEF NothingUnowned
<1>5. ASSUME NEW d \in Conn, d # c, I!Connected(d)'
      PROVE  I!Connected(d) /\ life'[d] = life[d] /\ Line(d)' = Line(d)
  <2>1. link'[d] = link[d] /\ life'[d] = life[d]
        BY <1>1, <1>3, <1>5
  <2>2. link[d] \in FD /\ owner'[link[d]] = <<d, life[d]>>
        BY <1>1, <1>5, <2>1 DEF I!Connected
  <2>3. link[d] # fd
        BY <1>1, <1>3, <1>5, <2>2
  <2>4. owner[link[d]] = <<d, life[d]>> /\ link[d] # None
        BY <1>1, <1>3, <2>2, <2>3
  <2> QED
    BY <1>3, <2>1, <2>4 DEF I!Connected, Line, HeadPieces
<1>6. Line(c)' = HeadPieces(val[c])
  <2>1. Line(c)' = HeadPieces(val[c]) \o <<>>
        BY <1>3, <1>4 DEF Line, HeadPieces
  <2>2. HeadPieces(val[c]) \in Seq(IpcPiece)
        BY <1>1, LineIs
  <2> QED
    BY <2>1, <2>2, ConcatEmptySeq
<1>7. PICK v \in Seq(IpcMessage) : v = val[c]
      BY <1>1
<1>8. /\ HeadPieces(v) \in Seq(IpcPiece) /\ Len(HeadPieces(v)) = Len(v)
      /\ \A i \in 1 .. Len(v) : ~HeadPieces(v)[i].end
  <2>1. <<>> \in Seq(IpcPiece)
        BY EmptySeq
  <2>2. /\ HeadPieces(v) \in Seq(IpcPiece) /\ Len(HeadPieces(v)) = Len(v)
        /\ \A i \in 1 .. Len(v) : (HeadPieces(v) \o <<>>)[i] = [msg |-> v[i], end |-> FALSE]
        BY <2>1, LineIs
  <2>3. HeadPieces(v) \o <<>> = HeadPieces(v)
        BY <2>2, ConcatEmptySeq
  <2>4. ASSUME NEW i \in 1 .. Len(v) PROVE ~HeadPieces(v)[i].end
    <3>1. HeadPieces(v)[i] = [msg |-> v[i], end |-> FALSE]
          BY <2>2, <2>3
    <3> QED
      BY <3>1
  <2> QED
    BY <2>2, <2>4
<1>9. PICK s : s = HeadPieces(v)
      OBVIOUS
<1>10. Whole(s)
      BY <1>8, <1>9 DEF Whole
<1>11. n = 1 => Alone(s)
  <2>1. ASSUME n = 1 PROVE Alone(s)
    <3>1. v = <<>>
          BY <1>1, <1>2, <1>7, <2>1 DEF FirstLife
    <3>2. s = <<>>
          BY <1>8, <1>9, <3>1, EmptySeq
    <3> QED
      BY <3>2 DEF Alone
  <2> QED
    BY <2>1
<1>12. Line(c)' = s
       BY <1>6, <1>7, <1>9
<1>13. Whole(s)' /\ (n = 1 => Alone(s)')
       BY <1>3, <1>10, <1>11, WholeStays
<1>14. Whole(Line(c))' /\ (life'[c] = 1 => Alone(Line(c))')
  <2>1. Whole(Line(c))'
        BY <1>12, <1>13 DEF Whole, Pure, I!Origin
  <2>2. n = 1 => Alone(Line(c))'
        BY <1>12, <1>13 DEF Alone, SameFrame, Pure, I!Origin
  <2> QED
    BY <1>4, <2>1, <2>2
<1>15. ASSUME NEW d \in Conn, d # c, I!Connected(d)'
       PROVE  Whole(Line(d))' /\ (life'[d] = 1 => Alone(Line(d))')
  <2>1. PICK t : t = Line(d) /\ Line(d)' = t
        BY <1>5, <1>15
  <2>2. Whole(t)' /\ (life'[d] = 1 => Alone(t)')
        BY <1>3, <1>5, <1>15, <2>1, WholeStays DEF LinesWhole
  <2> QED
    BY <2>1, <2>2 DEF Whole, Alone, SameFrame, Pure, I!Origin
<1>16. LinesWhole'
       BY <1>14, <1>15 DEF LinesWhole
<1>17. FirstLife'
  <2>1. life'[c] > 0
        BY <1>1, <1>2, <1>4
  <2>2. ASSUME NEW d \in Conn, I!Connected(d)' PROVE life'[d] > 0
        BY <1>5, <2>1, <2>2 DEF FirstLife
  <2>3. ASSUME NEW d \in Conn, life'[d] = 0 PROVE val'[d] = <<>>
    <3>1. d # c
          BY <2>1, <2>3
    <3>2. life[d] = 0
          BY <1>1, <1>3, <2>3, <3>1
    <3> QED
      BY <1>3, <3>2 DEF FirstLife
  <2> QED
    BY <2>2, <2>3 DEF FirstLife
<1> QED
  BY <1>16, <1>17

LEMMA LineRecv ==
  ASSUME IpcTypes, FirstLife, LinesWhole, NEW c \in Conn, NEW fd \in FD, NEW p \in IpcPiece,
         ClientRecvStep(c, fd, p)
  PROVE  /\ LinesWhole'
         /\ p.end => /\ val[c] # <<>>
                     /\ Head(val[c]).to = c => FrameOk(c, [heads |-> val[c], tail |-> p.msg])
<1>1. /\ outbox \in [FD -> Seq(IpcPiece)] /\ val \in [Conn -> Seq(IpcMessage)]
      /\ link \in [Conn -> FD \cup {None}] /\ life \in [Conn -> Nat]
      BY WiresAre
<1>2. /\ UNCHANGED <<life, owner, mixed>> /\ LinksStay /\ I!Connected(c) /\ fd = link[c]
      /\ outbox[fd] # <<>> /\ p = Head(outbox[fd])
      /\ outbox' = [outbox EXCEPT ![fd] = Tail(@)]
      /\ val' = [val EXCEPT ![c] = IF p.end THEN <<>> ELSE Append(@, p.msg)]
      BY DEF ClientRecvStep
<1>3. PICK v \in Seq(IpcMessage), s \in Seq(IpcPiece) : v = val[c] /\ s = outbox[fd]
      BY <1>1
<1>4. /\ val'[c] = IF p.end THEN <<>> ELSE Append(v, p.msg)
      /\ outbox'[fd] = Tail(s)
      BY <1>1, <1>2, <1>3
<1>5. Line(c) = HeadPieces(v) \o s
      BY <1>2, <1>3 DEF Line
<1>6. I!Connected(c)' => Line(c)' = HeadPieces(val'[c]) \o Tail(s)
      BY <1>2, <1>4 DEF Line, LinksStay, HeadPieces
<1>7. Whole(HeadPieces(v) \o s) /\ (life[c] = 1 => Alone(HeadPieces(v) \o s))
      BY <1>2, <1>5 DEF LinesWhole
<1>8. ASSUME NEW d \in Conn, d # c, I!Connected(d)'
      PROVE  I!Connected(d) /\ life'[d] = life[d] /\ Line(d)' = Line(d)
  <2>1. I!Connected(d) /\ link'[d] = link[d]
        BY <1>2, <1>8 DEF LinksStay
  <2>2. link[d] \in FD /\ link[d] # fd
        BY <1>1, <1>2, <1>8, <2>1 DEF I!Connected
  <2>3. outbox'[link[d]] = outbox[link[d]] /\ val'[d] = val[d]
        BY <1>1, <1>2, <1>8, <2>2
  <2> QED
    BY <1>2, <2>1, <2>3 DEF Line, HeadPieces
<1>9. CASE ~p.end
  <2>1. HeadPieces(Append(v, p.msg)) \o Tail(s) = HeadPieces(v) \o s
        BY <1>2, <1>3, <1>9, HeadTaken
  <2>2. I!Connected(c)' => I!Connected(c) /\ life'[c] = life[c] /\ Line(c)' = Line(c)
        BY <1>2, <1>4, <1>5, <1>6, <1>9, <2>1
  <2>3. \A d \in Conn : I!Connected(d)' =>
          I!Connected(d) /\ life'[d] = life[d] /\ Line(d)' = Line(d)
        BY <1>8, <2>2
  <2>4. mixed \subseteq mixed'
        BY <1>2
  <2> QED
    BY <1>9, <2>3, <2>4, LineKept
<1>10. CASE p.end
  <2>1. /\ v # <<>> /\ (Pure(p.msg) => v[Len(v)] = p.msg)
        /\ Whole(HeadPieces(<<>>) \o Tail(s))
        /\ life[c] = 1 => /\ Alone(HeadPieces(<<>>) \o Tail(s))
                          /\ Pure(p.msg) => \A k \in 1 .. Len(v) - 1 :
                                              I!Origin(v[k]) # I!Origin(p.msg)
        BY <1>2, <1>3, <1>7, <1>10, EndTaken
  <2>2. PICK t : t = HeadPieces(<<>>) \o Tail(s)
        OBVIOUS
  <2>3. Whole(t)' /\ (life[c] = 1 => Alone(t)')
        BY <1>2, <2>1, <2>2, WholeStays
  <2>4. ASSUME I!Connected(c)' PROVE Line(c)' = t
        BY <1>4, <1>6, <1>10, <2>2, <2>4
  <2>5. ASSUME I!Connected(c)' PROVE Whole(Line(c))'
        BY <2>3, <2>4, <2>5 DEF Whole, Pure, I!Origin
  <2>6. ASSUME I!Connected(c)', Alone(t)' PROVE Alone(Line(c))'
        BY <2>4, <2>6 DEF Alone, SameFrame, Pure, I!Origin
  <2>7. ASSUME NEW d \in Conn, d # c, I!Connected(d)'
        PROVE  Whole(Line(d))' /\ (life'[d] = 1 => Alone(Line(d))')
    <3>1. PICK u : u = Line(d) /\ Line(d)' = u
          BY <1>8, <2>7
    <3>2. Whole(u)' /\ (life'[d] = 1 => Alone(u)')
          BY <1>2, <1>8, <2>7, <3>1, WholeStays DEF LinesWhole
    <3> QED
      BY <3>1, <3>2 DEF Whole, Alone, SameFrame, Pure, I!Origin
  <2>8. LinesWhole'
    <3>1. ASSUME NEW d \in Conn, I!Connected(d)'
          PROVE  Whole(Line(d))' /\ (life'[d] = 1 => Alone(Line(d))')
      <4>1. CASE d = c
            BY <1>2, <2>3, <2>5, <2>6, <3>1, <4>1
      <4>2. CASE d # c
            BY <2>7, <3>1, <4>2
      <4> QED
        BY <4>1, <4>2
    <3> QED
      BY <3>1 DEF LinesWhole
  <2>9. PICK f : f = [heads |-> v, tail |-> p.msg]
        OBVIOUS
  <2>10. f.heads = v /\ f.tail = p.msg
        BY <2>9
  <2>11. ASSUME Head(v).to = c PROVE FrameOk(c, f)
    <3>1. life[c] \in Nat /\ life[c] > 0
          BY <1>1, <1>2 DEF FirstLife
    <3>2. Pure(f.tail) => \A k \in 1 .. Len(f.heads) - 1 :
            I!Origin(f.heads[k]) # I!Origin(f.tail) \/ life[c] > 1
          BY <2>1, <2>10, <3>1
    <3> QED
      BY <2>1, <2>10, <2>11, <3>2 DEF FrameOk
  <2> QED
    BY <1>3, <2>1, <2>8, <2>9, <2>11
<1> QED
  BY <1>9, <1>10

LEMMA LinesStep ==
  ASSUME IpcTypes, FromOwner, Gathered, FramesWhole, IpcStep
  PROVE  LinesWhole' /\ FirstLife'
<1>1. /\ outbox \in [FD -> Seq(IpcPiece)] /\ val \in [Conn -> Seq(IpcMessage)]
      /\ link \in [Conn -> FD \cup {None}] /\ life \in [Conn -> Nat]
      /\ owner \in [FD -> (Conn \X Nat) \cup {None}] /\ None \notin Conn \X Nat
      BY WiresAre, IpcConstant
<1>2. mixed \subseteq mixed'
      BY MixedGrows
<1>3. ASSUME NEW c \in Conn, NEW fd \in FD, ConnectStep(c, fd) PROVE LinesWhole' /\ FirstLife'
      BY <1>3, LineConnects DEF FramesWhole, FromOwner
<1>4. ASSUME UNCHANGED <<life, val>>, LinksStay PROVE FirstLife'
      BY <1>4 DEF FramesWhole, FirstLife, LinksStay
<1>5. ASSUME UNCHANGED <<life, val, outbox>>, LinksStay PROVE LinesWhole'
      BY <1>2, <1>5, LineKept DEF FramesWhole, LinksStay, Line, HeadPieces
<1>6. ASSUME \/ QuietStep
             \/ \E c \in Conn, fd \in FD, m \in IpcMessage : SendStep(c, fd, m)
             \/ \E n \in I!Name : CallStep(n)
             \/ \E w \in Worker, fd \in FD : RecvStep(w, fd) \/ RegisterStep(w, fd) \/ ClearStep(w, fd)
             \/ \E w \in Worker, fd \in FD, p \in IpcPiece : GatherStep(w, fd, p)
             \/ \E w \in Worker : ToQueueStep(w)
      PROVE  UNCHANGED <<life, val, outbox>> /\ LinksStay
      BY <1>6 DEF QuietStep, SendStep, CallStep, RecvStep, RegisterStep, ClearStep, GatherStep,
                  ToQueueStep, Clears
<1>7. ASSUME NEW fd \in FD, NEW m \in IpcMessage, ServerSendStep(fd, m)
      PROVE  LinesWhole' /\ FirstLife'
  <2>1. /\ UNCHANGED <<life, val, mixed>> /\ LinksStay
        /\ outbox' = [outbox EXCEPT ![fd] = @ \o I!Pieces(<<m>>, m)]
        BY <1>7 DEF ServerSendStep
  <2>a. <<m>> \in Seq(IpcMessage)
        OBVIOUS
  <2>2. PICK h \in Seq(IpcMessage) : h = <<m>>
        BY <2>a
  <2>3. h # <<>> /\ EndsAlone(h, m)
        BY <2>2 DEF EndsAlone
  <2>4. LinesWhole'
        BY <2>1, <2>2, <2>3, LineAdds DEF FramesWhole
  <2> QED
    BY <1>4, <2>1, <2>4
<1>8. ASSUME NEW w \in Worker, NEW fd \in FD, ToOutboxStep(w, fd)
      PROVE  LinesWhole' /\ FirstLife'
  <2>1. /\ UNCHANGED <<life, val, mixed>> /\ LinksStay /\ at[w] = "pass"
        /\ outbox' = [outbox EXCEPT ![fd] = @ \o I!Pieces(of[w].heads, of[w].tail)]
        BY <1>8 DEF ToOutboxStep, Clears
  <2>2. PICK h \in Seq(IpcMessage), m \in IpcMessage : h = of[w].heads /\ m = of[w].tail /\ h # <<>>
        BY <2>1, HandsAre
  <2>3. Pure(m) => EndsAlone(h, m)
        BY <2>1, <2>2 DEF Gathered, ReadersFind, FromOwner, HandsOwned, Busy, Pure
  <2>4. LinesWhole'
        BY <2>1, <2>2, <2>3, LineAdds DEF FramesWhole
  <2> QED
    BY <1>4, <2>1, <2>4
<1>9. ASSUME NEW c \in Conn, NEW fd \in FD, NEW p \in IpcPiece, ClientRecvStep(c, fd, p)
      PROVE  LinesWhole' /\ FirstLife'
  <2>1. LinesWhole'
        BY <1>9, LineRecv DEF FramesWhole
  <2>2. /\ UNCHANGED life /\ LinksStay /\ I!Connected(c)
        /\ \A d \in Conn \ {c} : val'[d] = val[d]
        BY <1>1, <1>9 DEF ClientRecvStep
  <2>3. FirstLife'
        BY <2>2 DEF FramesWhole, FirstLife, LinksStay
  <2> QED
    BY <2>1, <2>3
<1>10. ASSUME NEW fd \in FD, CloseStep(fd) PROVE LinesWhole' /\ FirstLife'
  <2>1. /\ UNCHANGED <<life, val, mixed>> /\ LinksStay
        /\ owner' = [owner EXCEPT ![fd] = None] /\ outbox' = [outbox EXCEPT ![fd] = <<>>]
        BY <1>10 DEF CloseStep
  <2>2. ASSUME NEW c \in Conn, I!Connected(c)'
        PROVE  I!Connected(c) /\ life'[c] = life[c] /\ Line(c)' = Line(c)
    <3>1. I!Connected(c) /\ link'[c] = link[c]
          BY <2>1, <2>2 DEF LinksStay
    <3>2. link[c] \in FD /\ life[c] \in Nat /\ owner'[link[c]] = <<c, life[c]>>
          BY <1>1, <2>1, <2>2, <3>1 DEF I!Connected
    <3>a. <<c, life[c]>> # None
          BY <1>1, <3>2
    <3>3. ASSUME link[c] = fd PROVE FALSE
          BY <1>1, <2>1, <3>2, <3>a, <3>3
    <3> QED
      BY <1>1, <2>1, <3>1, <3>2, <3>3 DEF Line, HeadPieces
  <2>3. LinesWhole'
        BY <1>2, <2>2, LineKept DEF FramesWhole
  <2> QED
    BY <1>4, <2>1, <2>3
<1> QED
  BY <1>3, <1>4, <1>5, <1>6, <1>7, <1>8, <1>9, <1>10 DEF IpcStep

LEMMA FrameJoins ==
  ASSUME IpcTypes, QueuesWhole, NEW k \in I!Name, NEW f \in IpcFrame, FrameOk(k, f)',
         \A n, g : FrameOk(n, g) => FrameOk(n, g)',
         queue' = [queue EXCEPT ![k] = Append(@, f)], handedTo' = handedTo
  PROVE  QueuesWhole'
<1>1. queue \in [I!Name -> Seq(IpcFrame)] /\ handedTo \in [I!Name -> Seq(IpcFrame)]
      BY WiresAre
<1>2. ASSUME NEW n \in I!Name, NEW i \in 1 .. Len(handedTo'[n]) PROVE FrameOk(n, handedTo[n][i])'
  <2>1. PICK g : g = handedTo[n][i]
        OBVIOUS
  <2>2. FrameOk(n, g)' /\ handedTo'[n][i] = g
        BY <1>2, <2>1 DEF QueuesWhole
  <2> QED
    BY <2>2 DEF FrameOk
<1>3. ASSUME NEW n \in I!Name, NEW i \in 1 .. Len(queue'[n]) PROVE FrameOk(n, queue[n][i])'
  <2>1. PICK s \in Seq(IpcFrame) : s = queue[n]
        BY <1>1
  <2>2. PICK g : g = queue'[n][i]
        OBVIOUS
  <2>3. FrameOk(n, g)'
    <3>1. CASE n # k
      <4>1. i \in 1 .. Len(queue[n]) /\ g = queue[n][i]
            BY <1>1, <1>3, <2>2, <3>1
      <4> QED
        BY <4>1 DEF QueuesWhole
    <3>2. CASE n = k
      <4>1. queue'[n] = Append(s, f)
            BY <1>1, <2>1, <3>2
      <4>2. /\ i \in 1 .. Len(s) + 1
            /\ g = IF i <= Len(s) THEN s[i] ELSE f
            BY <1>3, <2>2, <4>1
      <4>3. CASE i <= Len(s)
        <5>1. i \in 1 .. Len(queue[n]) /\ g = queue[n][i]
              BY <2>1, <4>2, <4>3
        <5> QED
          BY <5>1 DEF QueuesWhole
      <4>4. CASE ~(i <= Len(s))
            BY <3>2, <4>2, <4>4
      <4> QED
        BY <4>3, <4>4
    <3> QED
      BY <3>1, <3>2
  <2> QED
    BY <2>2, <2>3 DEF FrameOk
<1> QED
  BY <1>2, <1>3 DEF QueuesWhole

LEMMA FrameCalled ==
  ASSUME IpcTypes, QueuesWhole, NEW k \in I!Name, CallStep(k),
         \A n, g : FrameOk(n, g) => FrameOk(n, g)'
  PROVE  QueuesWhole'
<1>1. queue \in [I!Name -> Seq(IpcFrame)] /\ handedTo \in [I!Name -> Seq(IpcFrame)]
      BY WiresAre
<1>2. /\ handedTo' = [handedTo EXCEPT ![k] = Append(@, Head(queue[k]))]
      /\ queue' = [queue EXCEPT ![k] = Tail(@)] /\ queue[k] # <<>>
      BY DEF CallStep
<1>3. PICK q \in Seq(IpcFrame), s \in Seq(IpcFrame) : q = queue[k] /\ s = handedTo[k]
      BY <1>1
<1>4. /\ Head(q) = q[1] /\ 1 \in 1 .. Len(q) /\ Len(Tail(q)) = Len(q) - 1
      /\ \A i \in 1 .. Len(Tail(q)) : Tail(q)[i] = q[i + 1] /\ i + 1 \in 1 .. Len(q)
      BY <1>2, <1>3
<1>5. \A i \in 1 .. Len(q) : FrameOk(k, q[i])'
      BY <1>3 DEF QueuesWhole
<1>6. \A i \in 1 .. Len(s) : FrameOk(k, s[i])'
      BY <1>3 DEF QueuesWhole
<1>7. ASSUME NEW n \in I!Name, NEW i \in 1 .. Len(handedTo'[n]) PROVE FrameOk(n, handedTo[n][i])'
  <2>1. PICK g : g = handedTo'[n][i]
        OBVIOUS
  <2>2. FrameOk(n, g)'
    <3>1. CASE n # k
      <4>1. i \in 1 .. Len(handedTo[n]) /\ g = handedTo[n][i]
            BY <1>1, <1>2, <1>7, <2>1, <3>1
      <4> QED
        BY <4>1 DEF QueuesWhole
    <3>2. CASE n = k
      <4>1. PICK f \in IpcFrame : f = Head(q)
            BY <1>4
      <4>2. handedTo'[n] = Append(s, f)
            BY <1>1, <1>2, <1>3, <3>2, <4>1
      <4>3. /\ i \in 1 .. Len(s) + 1
            /\ g = IF i <= Len(s) THEN s[i] ELSE f
            BY <1>7, <2>1, <4>2
      <4>4. CASE i <= Len(s)
            BY <1>6, <3>2, <4>3, <4>4
      <4>5. CASE ~(i <= Len(s))
            BY <1>4, <1>5, <3>2, <4>1, <4>3, <4>5
      <4> QED
        BY <4>4, <4>5
    <3> QED
      BY <3>1, <3>2
  <2> QED
    BY <2>1, <2>2 DEF FrameOk
<1>8. ASSUME NEW n \in I!Name, NEW i \in 1 .. Len(queue'[n]) PROVE FrameOk(n, queue[n][i])'
  <2>1. PICK g : g = queue'[n][i]
        OBVIOUS
  <2>2. FrameOk(n, g)'
    <3>1. CASE n # k
      <4>1. i \in 1 .. Len(queue[n]) /\ g = queue[n][i]
            BY <1>1, <1>2, <1>8, <2>1, <3>1
      <4> QED
        BY <4>1 DEF QueuesWhole
    <3>2. CASE n = k
      <4>1. queue'[n] = Tail(q)
            BY <1>1, <1>2, <1>3, <3>2
      <4> QED
        BY <1>4, <1>5, <1>8, <2>1, <3>2, <4>1
    <3> QED
      BY <3>1, <3>2
  <2> QED
    BY <2>1, <2>2 DEF FrameOk
<1> QED
  BY <1>7, <1>8 DEF QueuesWhole

LEMMA LivesGrow ==
  ASSUME IpcTypes, IpcStep
  PROVE  life' \in [Conn -> Nat] /\ \A c \in Conn : life[c] <= life'[c]
<1>1. life \in [Conn -> Nat]
      BY WiresAre
<1>2. life' = life \/ \E c \in Conn : life' = [life EXCEPT ![c] = @ + 1]
  <2>1. NobodyBegins => life' = life
        BY DEF NobodyBegins
  <2>2. \A c \in Conn, fd \in FD : ConnectStep(c, fd) => life' = [life EXCEPT ![c] = @ + 1]
        BY DEF ConnectStep
  <2>3. \A w \in Worker, fd \in FD : RecvStep(w, fd) => life' = life
        BY DEF RecvStep
  <2> QED
    BY <2>1, <2>2, <2>3, WhoBegins
<1>3. CASE life' = life
      BY <1>1, <1>3
<1>4. ASSUME NEW c \in Conn, life' = [life EXCEPT ![c] = @ + 1]
      PROVE  life' \in [Conn -> Nat] /\ \A d \in Conn : life[d] <= life'[d]
  <2>1. ASSUME NEW d \in Conn PROVE life'[d] \in Nat /\ life[d] <= life'[d]
        BY <1>1, <1>4, <2>1
  <2>2. life' \in [Conn -> Nat]
        BY <1>1, <1>4
  <2> QED
    BY <2>1, <2>2
<1> QED
  BY <1>2, <1>3, <1>4

LEMMA QueuesStep ==
  ASSUME IpcTypes, FromOwner, Gathered, FramesWhole, IpcStep
  PROVE  QueuesWhole'
<1>1. /\ queue \in [I!Name -> Seq(IpcFrame)] /\ handedTo \in [I!Name -> Seq(IpcFrame)]
      /\ val \in [Conn -> Seq(IpcMessage)] /\ IpcServer \in I!Name /\ Conn \subseteq I!Name
      BY WiresAre DEF I!Name
<1>2. ASSUME NEW n, NEW g, FrameOk(n, g) PROVE FrameOk(n, g)'
      BY <1>2, WiresAre, MixedGrows, LivesGrow, FrameStays
<1>3. QueuesWhole
      BY DEF FramesWhole
<1>4. CASE UNCHANGED <<queue, handedTo>>
  <2>1. ASSUME NEW n \in I!Name, NEW i \in 1 .. Len(queue'[n]) PROVE FrameOk(n, queue[n][i])'
    <3>1. PICK g : g = queue[n][i]
          OBVIOUS
    <3>2. FrameOk(n, g)' /\ queue'[n][i] = g
          BY <1>2, <1>3, <1>4, <2>1, <3>1 DEF QueuesWhole
    <3> QED
      BY <3>2 DEF FrameOk
  <2>2. ASSUME NEW n \in I!Name, NEW i \in 1 .. Len(handedTo'[n])
        PROVE FrameOk(n, handedTo[n][i])'
    <3>1. PICK g : g = handedTo[n][i]
          OBVIOUS
    <3>2. FrameOk(n, g)' /\ handedTo'[n][i] = g
          BY <1>2, <1>3, <1>4, <2>2, <3>1 DEF QueuesWhole
    <3> QED
      BY <3>2 DEF FrameOk
  <2> QED
    BY <2>1, <2>2 DEF QueuesWhole
<1>5. ASSUME NEW n \in I!Name, CallStep(n) PROVE QueuesWhole'
      BY <1>2, <1>3, <1>5, FrameCalled
<1>6. ASSUME NEW c \in Conn, NEW fd \in FD, NEW p \in IpcPiece, ClientRecvStep(c, fd, p)
      PROVE  QueuesWhole'
  <2>1. /\ handedTo' = handedTo
        /\ queue' = IF p.end /\ val[c] # <<>> /\ Head(val[c]).to = c
                    THEN [queue EXCEPT ![c] = Append(@, [heads |-> val[c], tail |-> p.msg])]
                    ELSE queue
        BY <1>6 DEF ClientRecvStep
  <2>2. CASE p.end /\ val[c] # <<>> /\ Head(val[c]).to = c
    <3>1. PICK f : f = [heads |-> val[c], tail |-> p.msg]
          OBVIOUS
    <3>2. f \in IpcFrame
          BY <1>1, <3>1 DEF IpcFrame, IpcPiece
    <3>3. FrameOk(c, [heads |-> val[c], tail |-> p.msg])
          BY <1>6, <2>2, LineRecv DEF FramesWhole
    <3>4. FrameOk(c, f)'
          BY <1>2, <3>1, <3>3
    <3>5. queue' = [queue EXCEPT ![c] = Append(@, f)]
          BY <2>1, <2>2, <3>1
    <3> QED
      BY <1>1, <1>2, <1>3, <2>1, <3>2, <3>4, <3>5, FrameJoins
  <2>3. CASE ~(p.end /\ val[c] # <<>> /\ Head(val[c]).to = c)
        BY <1>4, <2>1, <2>3
  <2> QED
    BY <2>2, <2>3
<1>7. ASSUME NEW w \in Worker, ToQueueStep(w) PROVE QueuesWhole'
  <2>1. /\ handedTo' = handedTo /\ at[w] = "pass" /\ Head(of[w].heads).to = IpcServer
        /\ queue' = [queue EXCEPT ![IpcServer] =
                       Append(@, [heads |-> of[w].heads, tail |-> of[w].tail])]
        BY <1>7 DEF ToQueueStep, Clears
  <2>2. PICK h \in Seq(IpcMessage), m \in IpcMessage : h = of[w].heads /\ m = of[w].tail /\ h # <<>>
        BY <2>1, HandsAre
  <2>3. Pure(m) => EndsAlone(h, m)
        BY <2>1, <2>2 DEF Gathered, ReadersFind, FromOwner, HandsOwned, Busy, Pure
  <2>4. PICK f : f = [heads |-> h, tail |-> m]
        OBVIOUS
  <2>5. f \in IpcFrame /\ f.heads = h /\ f.tail = m
        BY <2>4 DEF IpcFrame
  <2>6. FrameOk(IpcServer, f)
        BY <2>1, <2>2, <2>3, <2>5 DEF FrameOk, EndsAlone
  <2>7. FrameOk(IpcServer, f)'
        BY <1>2, <2>6
  <2>8. queue' = [queue EXCEPT ![IpcServer] = Append(@, f)]
        BY <2>1, <2>2, <2>4
  <2> QED
    BY <1>1, <1>2, <1>3, <2>1, <2>5, <2>7, <2>8, FrameJoins
<1>8. \/ UNCHANGED <<queue, handedTo>>
      \/ \E n \in I!Name : CallStep(n)
      \/ \E c \in Conn, fd \in FD, p \in IpcPiece : ClientRecvStep(c, fd, p)
      \/ \E w \in Worker : ToQueueStep(w)
  <2>1. ASSUME \/ QuietStep
               \/ \E c \in Conn, fd \in FD : ConnectStep(c, fd)
               \/ \E c \in Conn, fd \in FD, m \in IpcMessage : SendStep(c, fd, m)
               \/ \E fd \in FD, m \in IpcMessage : ServerSendStep(fd, m)
               \/ \E fd \in FD : CloseStep(fd)
        PROVE  UNCHANGED <<queue, handedTo>>
        BY <2>1 DEF QuietStep, ConnectStep, SendStep, ServerSendStep, CloseStep
  <2>2. ASSUME \/ \E w \in Worker, fd \in FD : \/ RecvStep(w, fd) \/ RegisterStep(w, fd)
                                              \/ ToOutboxStep(w, fd) \/ ClearStep(w, fd)
               \/ \E w \in Worker, fd \in FD, p \in IpcPiece : GatherStep(w, fd, p)
        PROVE  UNCHANGED <<queue, handedTo>>
        BY <2>2 DEF RecvStep, RegisterStep, ToOutboxStep, ClearStep, GatherStep
  <2> QED
    BY <2>1, <2>2 DEF IpcStep
<1> QED
  BY <1>4, <1>5, <1>6, <1>7, <1>8

LEMMA FramesStep ==
  ASSUME IpcTypes, FromOwner, Gathered, FramesWhole, IpcStep
  PROVE  FramesWhole'
  BY LinesStep, QueuesStep DEF FramesWhole

-----------------------------------------------------------------------------
(* StringIpc: every message is in one place, in order *)

LEMMA PlaceIs ==
  ASSUME NEW p \in Place
  PROVE  /\ p[1] \in {"in", "out", "hand", "queue", "handed"} /\ p[3] \in Nat
         /\ p[1] \in {"in", "out"} => p[2] \in FD
         /\ p[1] = "hand" => p[2] \in Worker /\ p[3] = 0
         /\ p[1] \in {"queue", "handed"} => p[2] \in I!Name
         /\ p = <<p[1], p[2], p[3]>>
  BY DEF Place

LEMMA APlace ==
  /\ \A k \in {"in", "out"}, fd \in FD, i \in Nat : <<k, fd, i>> \in Place
  /\ \A w \in Worker : <<"hand", w, 0>> \in Place
  /\ \A k \in {"queue", "handed"}, n \in I!Name, i \in Nat : <<k, n, i>> \in Place
  BY DEF Place

LEMMA SamePlace ==
  ASSUME NEW p \in Place, NEW q \in Place, p[1] = q[1], p[2] = q[2], p[3] = q[3]
  PROVE  p = q
  BY PlaceIs

\* What is where it was.
LEMMA HeldStill ==
  ASSUME NEW p \in Place, NEW m \in IpcMessage, Holds(p, m)',
         \/ p[1] = "in" /\ inbox'[p[2]] = inbox[p[2]]
         \/ p[1] = "out" /\ outbox'[p[2]] = outbox[p[2]]
         \/ p[1] = "hand" /\ at'[p[2]] = at[p[2]] /\ of'[p[2]].tail = of[p[2]].tail
         \/ p[1] = "queue" /\ queue'[p[2]] = queue[p[2]]
         \/ p[1] = "handed" /\ handedTo'[p[2]] = handedTo[p[2]]
  PROVE  Holds(p, m)
<1>1. CASE p[1] = "in" /\ inbox'[p[2]] = inbox[p[2]]
      BY <1>1 DEF Holds, End
<1>2. CASE p[1] = "out" /\ outbox'[p[2]] = outbox[p[2]]
      BY <1>2 DEF Holds, End
<1>3. CASE p[1] = "hand" /\ at'[p[2]] = at[p[2]] /\ of'[p[2]].tail = of[p[2]].tail
      BY <1>3 DEF Holds, End
<1>4. CASE p[1] = "queue" /\ queue'[p[2]] = queue[p[2]]
      BY <1>4 DEF Holds, End
<1>5. CASE p[1] = "handed" /\ handedTo'[p[2]] = handedTo[p[2]]
      BY <1>5 DEF Holds, End
<1> QED
  BY <1>1, <1>2, <1>3, <1>4, <1>5

LEMMA HeldInHand ==
  ASSUME Rests, NEW p \in Place, p[1] = "hand", NEW m \in IpcMessage, Holds(p, m)'
  PROVE  Holds(p, m)
<1>1. at'[p[2]] \in {"hand", "pass"}
      BY DEF Holds
<1>2. at'[p[2]] = at[p[2]] /\ of'[p[2]].tail = of[p[2]].tail
      BY <1>1, PlaceIs DEF Rests
<1> QED
  BY <1>2, HeldStill

LEMMA HeldAtOthers ==
  ASSUME NEW w \in Worker, Others(w), NEW p \in Place, p[1] = "hand", p[2] # w,
         NEW m \in IpcMessage, Holds(p, m)'
  PROVE  Holds(p, m)
<1>1. at'[p[2]] = at[p[2]] /\ of'[p[2]].tail = of[p[2]].tail
      BY PlaceIs DEF Others
<1> QED
  BY <1>1, HeldStill

LEMMA BeforeStill ==
  ASSUME LinksStay, NEW p \in Place, NEW q \in Place, Before(p, q)'
  PROVE  Before(p, q)
  BY DEF LinksStay, Before

\* Messages that come from the places where they were keep their order.
LEMMA Moved ==
  ASSUME IpcTypes, IpcTypes', Placed, mixed \subseteq mixed',
         \A n \in I!Name : strings[n] <= strings'[n],
         NEW g \in [Place -> Place],
         \A p \in Place : \A m \in IpcMessage : Holds(p, m)' => Holds(g[p], m),
         \A p, q \in Place : \A m \in IpcMessage :
           Holds(p, m)' /\ Holds(q, m)' /\ g[p] = g[q] => p = q,
         \A p, q \in Place : \A m, o \in IpcMessage :
           /\ Holds(p, m)' /\ Holds(q, o)' /\ Before(p, q)'
           /\ I!Origin(m) = I!Origin(o) /\ Pure(m)'
           => Before(g[p], g[q])
  PROVE  Placed'
<1>1. strings \in [I!Name -> Nat] /\ strings' \in [I!Name -> Nat]
      BY DEF IpcTypes, ClientTypes
<1>2. ASSUME NEW p \in Place, NEW m \in IpcMessage, Holds(p, m)'
      PROVE  /\ m.n <= strings'[m.from]
             /\ \A q \in Place : Holds(q, m)' => p = q
  <2>1. m.from \in I!Name /\ m.n \in Nat
        BY DEF IpcMessage
  <2>2. m.n <= strings[m.from]
        BY <1>2 DEF Placed
  <2>3. m.n <= strings'[m.from]
        BY <1>1, <2>1, <2>2
  <2>4. ASSUME NEW q \in Place, Holds(q, m)' PROVE p = q
    <3>1. g[p] = g[q]
          BY <1>2, <2>4 DEF Placed
    <3> QED
      BY <1>2, <2>4, <3>1
  <2> QED
    BY <2>3, <2>4
<1>3. ASSUME NEW p \in Place, NEW q \in Place, NEW m \in IpcMessage, NEW o \in IpcMessage,
             Holds(p, m)', Holds(q, o)', Before(p, q)', I!Origin(m) = I!Origin(o), Pure(m)'
      PROVE  m.n < o.n
  <2>1. Pure(m)
        BY <1>3 DEF Pure, I!Origin
  <2>2. /\ g[p] \in Place /\ g[q] \in Place /\ Holds(g[p], m) /\ Holds(g[q], o)
        /\ Before(g[p], g[q])
        BY <1>3
  <2> QED
    BY <1>3, <2>1, <2>2 DEF Placed
<1> QED
  BY <1>2, <1>3 DEF Placed, I!Origin

LEMMA Stayed ==
  ASSUME IpcTypes, IpcTypes', Placed, mixed \subseteq mixed',
         \A n \in I!Name : strings[n] <= strings'[n],
         \A p \in Place : \A m \in IpcMessage : Holds(p, m)' => Holds(p, m),
         \A p, q \in Place : \A m, o \in IpcMessage :
           Holds(p, m)' /\ Holds(q, o)' /\ Before(p, q)' => Before(p, q)
  PROVE  Placed'
<1>1. PICK g \in [Place -> Place] : g = [p \in Place |-> p]
      OBVIOUS
<1>2. \A p \in Place : g[p] = p
      BY <1>1
<1>3. \A p \in Place : \A m \in IpcMessage : Holds(p, m)' => Holds(g[p], m)
      BY <1>2
<1>4. \A p, q \in Place : \A m \in IpcMessage :
        Holds(p, m)' /\ Holds(q, m)' /\ g[p] = g[q] => p = q
      BY <1>2
<1>5. \A p, q \in Place : \A m, o \in IpcMessage :
        /\ Holds(p, m)' /\ Holds(q, o)' /\ Before(p, q)'
        /\ I!Origin(m) = I!Origin(o) /\ Pure(m)'
        => Before(g[p], g[q])
      BY <1>2
<1> QED
  BY <1>1, <1>3, <1>4, <1>5, Moved

LEMMA PlacedInit == I!Init => Placed
<1> SUFFICES ASSUME I!Init PROVE Placed
    OBVIOUS
<1>1. ASSUME NEW p \in Place, NEW m \in IpcMessage PROVE ~Holds(p, m)
  <2>1. /\ inbox = [fd \in FD |-> <<>>] /\ outbox = [fd \in FD |-> <<>>]
        /\ queue = [n \in I!Name |-> <<>>] /\ handedTo = [n \in I!Name |-> <<>>]
        /\ at = [t \in I!Thread |-> "idle"]
        BY DEF I!Init
  <2>2. /\ p[1] = "in" => inbox[p[2]] = <<>>
        /\ p[1] = "out" => outbox[p[2]] = <<>>
        /\ p[1] = "queue" => queue[p[2]] = <<>>
        /\ p[1] = "handed" => handedTo[p[2]] = <<>>
        /\ p[1] = "hand" => at[p[2]] = "idle"
        BY <2>1, PlaceIs DEF I!Thread
  <2>3. \A i : i \notin 1 .. Len(<<>>)
        OBVIOUS
  <2> QED
    BY <2>2, <2>3 DEF Holds
<1> QED
  BY <1>1 DEF Placed

LEMMA StringsGrow ==
  ASSUME IpcTypes, UNCHANGED strings
  PROVE  \A n \in I!Name : strings[n] <= strings'[n]
  BY DEF IpcTypes, ClientTypes

\* The steps that bring no message nearer.
LEMMA QuietPlaced ==
  ASSUME IpcTypes, IpcTypes', Placed, QuietStep
  PROVE  Placed'
<1>1. /\ UNCHANGED <<inbox, outbox, queue, handedTo, mixed>> /\ Rests /\ LinksStay
      /\ \A n \in I!Name : strings[n] <= strings'[n]
      BY DEF QuietStep
<1>2. \A p \in Place : \A m \in IpcMessage : Holds(p, m)' => Holds(p, m)
  <2>1. ASSUME NEW p \in Place, NEW m \in IpcMessage, Holds(p, m)' PROVE Holds(p, m)
    <3>1. CASE p[1] = "hand"
          BY <1>1, <2>1, <3>1, HeldInHand
    <3>2. CASE p[1] # "hand"
      <4>1. p[1] \in {"in", "out", "queue", "handed"}
            BY <3>2, PlaceIs
      <4> QED
        BY <1>1, <2>1, <4>1, HeldStill
    <3> QED
      BY <3>1, <3>2
  <2> QED
    BY <2>1
<1>3. \A p, q \in Place : Before(p, q)' => Before(p, q)
      BY <1>1, BeforeStill
<1> QED
  BY <1>1, <1>2, <1>3, Stayed

LEMMA ConnectPlaced ==
  ASSUME IpcTypes, IpcTypes', NothingUnowned, Placed,
         NEW c \in Conn, NEW fd \in FD, ConnectStep(c, fd)
  PROVE  Placed'
<1>1. /\ UNCHANGED <<inbox, outbox, queue, handedTo, mixed, strings>> /\ Rests
      /\ owner[fd] = None
      /\ link' = [link EXCEPT ![c] = fd] /\ life' = [life EXCEPT ![c] = @ + 1]
      /\ owner' = [owner EXCEPT ![fd] = <<c, life[c] + 1>>]
      BY DEF ConnectStep
<1>2. /\ link \in [Conn -> FD \cup {None}] /\ life \in [Conn -> Nat]
      /\ owner \in [FD -> (Conn \X Nat) \cup {None}] /\ outbox \in [FD -> Seq(IpcPiece)]
      BY WiresAre
<1>3. ASSUME NEW p \in Place, NEW m \in IpcMessage, Holds(p, m)' PROVE Holds(p, m)
  <2>1. CASE p[1] = "hand"
        BY <1>1, <1>3, <2>1, HeldInHand
  <2>2. CASE p[1] # "hand"
    <3>1. p[1] \in {"in", "out", "queue", "handed"}
          BY <2>2, PlaceIs
    <3> QED
      BY <1>1, <1>3, <3>1, HeldStill
  <2> QED
    BY <2>1, <2>2
<1>4. ASSUME NEW q \in Place, NEW o \in IpcMessage, Holds(q, o)', q[1] = "out"
      PROVE  q[2] # fd
  <2>1. outbox[fd] = <<>>
        BY <1>1 DEF NothingUnowned
  <2>2. q[3] \in 1 .. Len(outbox[q[2]])
        BY <1>3, <1>4 DEF Holds
  <2>3. \A i : i \notin 1 .. Len(<<>>)
        OBVIOUS
  <2> QED
    BY <2>1, <2>2, <2>3
<1>5. ASSUME NEW d \in Conn, I!Connected(d)', link'[d] # fd
      PROVE  I!Connected(d) /\ link'[d] = link[d]
  <2>1. d # c /\ link'[d] = link[d] /\ life'[d] = life[d]
        BY <1>1, <1>2, <1>5
  <2>2. link[d] # None /\ link[d] \in FD
        BY <1>2, <1>5, <2>1 DEF I!Connected
  <2>3. owner'[link[d]] = owner[link[d]]
        BY <1>1, <1>2, <1>5, <2>1, <2>2
  <2> QED
    BY <1>5, <2>1, <2>2, <2>3 DEF I!Connected
<1>6. ASSUME NEW p \in Place, NEW q \in Place, NEW m \in IpcMessage, NEW o \in IpcMessage,
             Holds(p, m)', Holds(q, o)', Before(p, q)'
      PROVE  Before(p, q)
      BY <1>4, <1>5, <1>6 DEF Before
<1> QED
  BY <1>1, <1>3, <1>6, StringsGrow, Stayed

LEMMA ClosePlaced ==
  ASSUME IpcTypes, IpcTypes', Placed, NEW fd \in FD, CloseStep(fd)
  PROVE  Placed'
<1>1. /\ UNCHANGED <<queue, handedTo, mixed, strings>> /\ Rests /\ LinksStay
      /\ inbox' = [inbox EXCEPT ![fd] = <<>>] /\ outbox' = [outbox EXCEPT ![fd] = <<>>]
      BY DEF CloseStep
<1>2. inbox \in [FD -> Seq(IpcPiece)] /\ outbox \in [FD -> Seq(IpcPiece)]
      BY WiresAre
<1>3. ASSUME NEW p \in Place, NEW m \in IpcMessage, Holds(p, m)' PROVE Holds(p, m)
  <2>1. CASE p[1] = "hand"
        BY <1>1, <1>3, <2>1, HeldInHand
  <2>2. CASE p[1] \in {"queue", "handed"}
        BY <1>1, <1>3, <2>2, HeldStill
  <2>3. CASE p[1] \in {"in", "out"} /\ p[2] # fd
    <3>1. inbox'[p[2]] = inbox[p[2]] /\ outbox'[p[2]] = outbox[p[2]]
          BY <1>1, <1>2, <2>3, PlaceIs
    <3> QED
      BY <1>3, <2>3, <3>1, HeldStill
  <2>4. CASE p[1] \in {"in", "out"} /\ p[2] = fd
    <3>1. inbox'[fd] = <<>> /\ outbox'[fd] = <<>>
          BY <1>1, <1>2
    <3>2. \A i : i \notin 1 .. Len(<<>>)
          OBVIOUS
    <3> QED
      BY <1>3, <2>4, <3>1, <3>2 DEF Holds
  <2> QED
    BY <2>1, <2>2, <2>3, <2>4, PlaceIs
<1>4. \A p, q \in Place : Before(p, q)' => Before(p, q)
      BY <1>1, BeforeStill
<1> QED
  BY <1>1, <1>3, <1>4, StringsGrow, Stayed

LEMMA ReaderPlaced ==
  ASSUME IpcTypes, IpcTypes', Placed, NEW w \in Worker, NEW fd \in FD,
         RegisterStep(w, fd) \/ ClearStep(w, fd) \/ \E p \in IpcPiece : GatherStep(w, fd, p)
  PROVE  Placed'
<1>1. /\ UNCHANGED <<inbox, outbox, queue, handedTo, mixed, strings>> /\ Others(w) /\ LinksStay
      /\ at'[w] = "idle" \/ RegisterStep(w, fd)
      BY DEF RegisterStep, ClearStep, GatherStep
<1>2. ASSUME NEW p \in Place, NEW m \in IpcMessage, Holds(p, m)' PROVE Holds(p, m)
  <2>1. CASE p[1] = "hand" /\ p[2] # w
        BY <1>1, <1>2, <2>1, HeldAtOthers
  <2>2. CASE p[1] = "hand" /\ p[2] = w
    <3>1. RegisterStep(w, fd)
          BY <1>1, <1>2, <2>2 DEF Holds
    <3>2. at[w] = "hand" /\ at'[w] = "pass" /\ of[w].tail.end /\ of'[w].tail = of[w].tail.msg
          BY <3>1 DEF RegisterStep
    <3>3. of'[w].tail = m
          BY <1>2, <2>2, <3>2 DEF Holds
    <3>4. PICK t \in IpcPiece : t = of[w].tail
          BY <3>2, HandsAre
    <3>5. t = [msg |-> m, end |-> TRUE]
          BY <3>2, <3>3, <3>4 DEF IpcPiece
    <3> QED
      BY <2>2, <3>2, <3>4, <3>5 DEF Holds, End
  <2>3. CASE p[1] # "hand"
    <3>1. p[1] \in {"in", "out", "queue", "handed"}
          BY <2>3, PlaceIs
    <3> QED
      BY <1>1, <1>2, <3>1, HeldStill
  <2> QED
    BY <2>1, <2>2, <2>3
<1>3. \A p, q \in Place : Before(p, q)' => Before(p, q)
      BY <1>1, BeforeStill
<1> QED
  BY <1>1, <1>2, <1>3, StringsGrow, Stayed

\* What the server has in hand is of the reader's connection, and what is on the way to
\* it of the descriptor's.
LEMMA HeldComes ==
  ASSUME IpcTypes, ReadersApart, FromOwner, NEW p \in Place, NEW m \in IpcMessage, Holds(p, m)
  PROVE  /\ p[1] = "hand" => Busy(p[2]) /\ I!Origin(m) = of[p[2]].conn
         /\ p[1] = "in" => owner[p[2]] # None /\ I!Origin(m) = owner[p[2]]
         /\ p[1] \in {"hand", "in"} => I!Origin(m) \in Conn \X Nat
<1>1. ASSUME p[1] = "hand"
      PROVE  /\ Busy(p[2]) /\ I!Origin(m) = of[p[2]].conn
             /\ I!Origin(m) \in Conn \X Nat
  <2>1. p[2] \in Worker
        BY <1>1, PlaceIs
  <2>2. \/ at[p[2]] = "hand" /\ of[p[2]].tail = [msg |-> m, end |-> TRUE]
        \/ at[p[2]] = "pass" /\ of[p[2]].tail = m
        BY <1>1 DEF Holds, End
  <2>3. \/ at[p[2]] = "hand" /\ of[p[2]].tail.msg = m
        \/ at[p[2]] = "pass" /\ of[p[2]].tail = m
        BY <2>2
  <2>4. Busy(p[2]) /\ I!Origin(m) = of[p[2]].conn
        BY <2>1, <2>3 DEF Busy, FromOwner, HandsOwned
  <2>5. of[p[2]].conn \in (Conn \X Nat) \cup {None} /\ of[p[2]].conn # None
        BY <2>1, <2>4, HandsAre DEF ReadersApart
  <2> QED
    BY <2>4, <2>5
<1>2. ASSUME p[1] = "in"
      PROVE  /\ owner[p[2]] # None /\ I!Origin(m) = owner[p[2]]
             /\ I!Origin(m) \in Conn \X Nat
  <2>1. p[2] \in FD
        BY <1>2, PlaceIs
  <2>2. p[3] \in 1 .. Len(inbox[p[2]]) /\ inbox[p[2]][p[3]] = [msg |-> m, end |-> TRUE]
        BY <1>2 DEF Holds, End
  <2>3. inbox[p[2]][p[3]].msg = m
        BY <2>2
  <2>4. I!Origin(m) = owner[p[2]]
        BY <2>1, <2>2, <2>3 DEF FromOwner, InboxOwned
  <2>5. inbox[p[2]] # <<>>
    <3>1. \A i : i \notin 1 .. Len(<<>>)
          OBVIOUS
    <3> QED
      BY <2>2, <3>1
  <2>6. owner[p[2]] # None /\ owner[p[2]] \in (Conn \X Nat) \cup {None}
        BY <2>1, <2>5, WiresAre DEF FromOwner, NothingUnowned
  <2> QED
    BY <2>4, <2>6
<1> QED
  BY <1>1, <1>2

\* A message with a number of its own comes after those of its sender.
LEMMA Numbered ==
  ASSUME IpcTypes, IpcTypes', Placed, mixed \subseteq mixed', NEW s \in I!Name,
         NEW x \in IpcMessage, Numbers(s, x), NEW r \in Place,
         \A p \in Place : \A m \in IpcMessage :
           Holds(p, m)' => IF p = r THEN m = x ELSE Holds(p, m),
         \A p, q \in Place : Before(p, q)' => Before(p, q),
         \A q \in Place : \A o \in IpcMessage :
           Holds(q, o)' /\ Before(r, q)' => I!Origin(o) # I!Origin(x)
  PROVE  Placed'
<1>1. strings \in [I!Name -> Nat] /\ strings' \in [I!Name -> Nat]
      BY DEF IpcTypes, ClientTypes
<1>2. /\ x.from = s /\ x.n = strings[s] + 1 /\ strings'[s] = strings[s] + 1
      /\ \A n \in I!Name : strings[n] <= strings'[n]
  <2>1. /\ x.from = s /\ x.n = strings[s] + 1 /\ strings' = [strings EXCEPT ![s] = @ + 1]
        BY DEF Numbers
  <2>2. ASSUME NEW n \in I!Name PROVE strings[n] <= strings'[n]
        BY <1>1, <2>1
  <2> QED
    BY <1>1, <2>1, <2>2
<1>3. ASSUME NEW p \in Place, NEW m \in IpcMessage, Holds(p, m), m.from = s
      PROVE  m.n < x.n
  <2>1. m.n <= strings[s] /\ m.n \in Nat
        BY <1>3 DEF Placed, IpcMessage
  <2> QED
    BY <1>1, <1>2, <2>1
<1>4. ASSUME NEW p \in Place, NEW m \in IpcMessage, Holds(p, m)'
      PROVE  /\ m.n <= strings'[m.from]
             /\ \A q \in Place : Holds(q, m)' => p = q
  <2>1. m.from \in I!Name /\ m.n \in Nat
        BY DEF IpcMessage
  <2>2. CASE p = r
    <3>1. m = x
          BY <1>4, <2>2
    <3>2. ASSUME NEW q \in Place, Holds(q, m)', q # r PROVE FALSE
      <4>1. Holds(q, x)
            BY <3>1, <3>2
      <4>2. x.n < x.n
            BY <1>2, <1>3, <4>1
      <4> QED
        BY <1>1, <1>2, <4>2
    <3>3. m.n <= strings'[m.from]
          BY <1>1, <1>2, <3>1
    <3> QED
      BY <2>2, <3>2, <3>3
  <2>3. CASE p # r
    <3>1. Holds(p, m)
          BY <1>4, <2>3
    <3>2. m.n <= strings[m.from]
          BY <3>1 DEF Placed
    <3>3. m.n <= strings'[m.from]
          BY <1>1, <1>2, <2>1, <3>2
    <3>4. m # x
      <4>1. ASSUME m = x PROVE FALSE
        <5>1. x.n < x.n
              BY <1>2, <1>3, <3>1, <4>1
        <5> QED
          BY <1>1, <1>2, <5>1
      <4> QED
        BY <4>1
    <3>5. ASSUME NEW q \in Place, Holds(q, m)' PROVE p = q
      <4>1. Holds(q, m)
            BY <3>4, <3>5
      <4> QED
        BY <3>1, <4>1 DEF Placed
    <3> QED
      BY <3>3, <3>5
  <2> QED
    BY <2>2, <2>3
<1>5. ASSUME NEW p \in Place, NEW q \in Place, NEW m \in IpcMessage, NEW o \in IpcMessage,
             Holds(p, m)', Holds(q, o)', Before(p, q)', I!Origin(m) = I!Origin(o), Pure(m)'
      PROVE  m.n < o.n
  <2>1. Pure(m)
        BY <1>5 DEF Pure, I!Origin
  <2>2. CASE p = r
        BY <1>5, <2>2
  <2>3. CASE p # r /\ q = r
    <3>1. Holds(p, m) /\ o = x
          BY <1>5, <2>3
    <3>2. m.from = s
          BY <1>2, <1>5, <3>1 DEF I!Origin
    <3> QED
      BY <1>3, <3>1, <3>2
  <2>4. CASE p # r /\ q # r
    <3>1. Holds(p, m) /\ Holds(q, o) /\ Before(p, q)
          BY <1>5, <2>4
    <3> QED
      BY <1>5, <2>1, <3>1 DEF Placed
  <2> QED
    BY <2>2, <2>3, <2>4
<1> QED
  BY <1>4, <1>5 DEF Placed, I!Origin

LEMMA SendPlaced ==
  ASSUME IpcTypes, IpcTypes', Placed, NEW c \in Conn, NEW fd \in FD, NEW x \in IpcMessage,
         SendStep(c, fd, x)
  PROVE  Placed'
<1>1. /\ UNCHANGED <<outbox, queue, handedTo, mixed>> /\ Rests /\ LinksStay /\ Numbers(c, x)
      /\ inbox' = [inbox EXCEPT ![fd] = @ \o I!Pieces(<<x>>, x)]
      BY DEF SendStep
<1>2. inbox \in [FD -> Seq(IpcPiece)] /\ c \in I!Name
      BY WiresAre DEF I!Name
<1>3. PICK s \in Seq(IpcPiece) : s = inbox[fd]
      BY <1>2
<1>4. PICK t \in Seq(IpcPiece) : t = s \o I!Pieces(<<x>>, x)
      BY SentAlone
<1>5. /\ Len(t) = Len(s) + 2 /\ \A i \in 1 .. Len(s) : t[i] = s[i]
      /\ t[Len(s) + 1] = [msg |-> x, end |-> FALSE] /\ t[Len(s) + 2] = [msg |-> x, end |-> TRUE]
      BY <1>4, SentAlone
<1>6. inbox'[fd] = t /\ \A d \in FD : d # fd => inbox'[d] = inbox[d]
      BY <1>1, <1>2, <1>3, <1>4
<1>a. Len(s) + 2 \in Nat
      OBVIOUS
<1>7. PICK r \in Place : r = <<"in", fd, Len(s) + 2>>
      BY <1>a, APlace
<1>8. r[1] = "in" /\ r[2] = fd /\ r[3] = Len(s) + 2
      BY <1>7
<1>9. ASSUME NEW p \in Place, NEW m \in IpcMessage, Holds(p, m)', p[1] = "in", p[2] = fd
      PROVE  /\ p[3] <= Len(s) + 2
             /\ IF p = r THEN m = x ELSE Holds(p, m)
  <2>1. p[3] \in 1 .. Len(t) /\ t[p[3]] = [msg |-> m, end |-> TRUE]
        BY <1>6, <1>9 DEF Holds, End
  <2>2. p[3] \in 1 .. Len(s) \/ p[3] = Len(s) + 1 \/ p[3] = Len(s) + 2
        BY <1>5, <2>1
  <2>3. CASE p[3] \in 1 .. Len(s)
    <3>1. inbox[fd][p[3]] = [msg |-> m, end |-> TRUE] /\ p # r
          BY <1>3, <1>5, <1>8, <2>1, <2>3
    <3> QED
      BY <1>3, <1>9, <2>3, <3>1 DEF Holds, End
  <2>4. CASE p[3] = Len(s) + 1
    <3>1. [msg |-> x, end |-> FALSE] = [msg |-> m, end |-> TRUE]
          BY <1>5, <2>1, <2>4
    <3>2. FALSE
          BY <3>1
    <3> QED
      BY <3>2
  <2>5. CASE p[3] = Len(s) + 2
    <3>1. p = r
          BY <1>8, <1>9, <2>5, SamePlace
    <3>2. [msg |-> x, end |-> TRUE] = [msg |-> m, end |-> TRUE]
          BY <1>5, <2>1, <2>5
    <3>3. m = x
          BY <3>2
    <3> QED
      BY <2>5, <3>1, <3>3
  <2> QED
    BY <2>2, <2>3, <2>4, <2>5
<1>10. ASSUME NEW p \in Place, NEW m \in IpcMessage, Holds(p, m)'
       PROVE  IF p = r THEN m = x ELSE Holds(p, m)
  <2>1. CASE p[1] = "in" /\ p[2] = fd
        BY <1>9, <1>10, <2>1
  <2>2. CASE p[1] = "in" /\ p[2] # fd
    <3>1. inbox'[p[2]] = inbox[p[2]] /\ p # r
          BY <1>6, <1>8, <2>2, PlaceIs
    <3> QED
      BY <1>10, <2>2, <3>1, HeldStill
  <2>3. CASE p[1] = "hand"
        BY <1>1, <1>8, <1>10, <2>3, HeldInHand
  <2>4. CASE p[1] \in {"out", "queue", "handed"}
        BY <1>1, <1>8, <1>10, <2>4, HeldStill
  <2> QED
    BY <2>1, <2>2, <2>3, <2>4, PlaceIs
<1>11. ASSUME NEW q \in Place, NEW o \in IpcMessage, Holds(q, o)', Before(r, q)' PROVE FALSE
  <2>1. q[1] = "in" /\ q[2] = fd /\ Len(s) + 2 < q[3]
        BY <1>8, <1>11 DEF Before
  <2>2. q[3] <= Len(s) + 2 /\ q[3] \in Nat
        BY <1>9, <1>11, <2>1, PlaceIs
  <2> QED
    BY <2>1, <2>2
<1>12. \A p, q \in Place : Before(p, q)' => Before(p, q)
      BY <1>1, BeforeStill
<1> QED
  BY <1>1, <1>2, <1>10, <1>11, <1>12, Numbered

LEMMA ServerSendPlaced ==
  ASSUME IpcTypes, IpcTypes', ReadersApart, FromOwner, Placed, NEW fd \in FD,
         NEW x \in IpcMessage, ServerSendStep(fd, x)
  PROVE  Placed'
<1>1. /\ UNCHANGED <<inbox, queue, handedTo, mixed, owner>> /\ Rests /\ LinksStay
      /\ Numbers(IpcServer, x)
      /\ outbox' = [outbox EXCEPT ![fd] = @ \o I!Pieces(<<x>>, x)]
      BY DEF ServerSendStep
<1>2. outbox \in [FD -> Seq(IpcPiece)] /\ IpcServer \in I!Name
      BY WiresAre DEF I!Name
<1>3. PICK s \in Seq(IpcPiece) : s = outbox[fd]
      BY <1>2
<1>4. PICK t \in Seq(IpcPiece) : t = s \o I!Pieces(<<x>>, x)
      BY SentAlone
<1>5. /\ Len(t) = Len(s) + 2 /\ \A i \in 1 .. Len(s) : t[i] = s[i]
      /\ t[Len(s) + 1] = [msg |-> x, end |-> FALSE] /\ t[Len(s) + 2] = [msg |-> x, end |-> TRUE]
      BY <1>4, SentAlone
<1>6. outbox'[fd] = t /\ \A d \in FD : d # fd => outbox'[d] = outbox[d]
      BY <1>1, <1>2, <1>3, <1>4
<1>a. Len(s) + 2 \in Nat
      OBVIOUS
<1>7. PICK r \in Place : r = <<"out", fd, Len(s) + 2>>
      BY <1>a, APlace
<1>8. r[1] = "out" /\ r[2] = fd /\ r[3] = Len(s) + 2
      BY <1>7
<1>9. ASSUME NEW p \in Place, NEW m \in IpcMessage, Holds(p, m)', p[1] = "out", p[2] = fd
      PROVE  /\ p[3] <= Len(s) + 2
             /\ IF p = r THEN m = x ELSE Holds(p, m)
  <2>1. p[3] \in 1 .. Len(t) /\ t[p[3]] = [msg |-> m, end |-> TRUE]
        BY <1>6, <1>9 DEF Holds, End
  <2>2. p[3] \in 1 .. Len(s) \/ p[3] = Len(s) + 1 \/ p[3] = Len(s) + 2
        BY <1>5, <2>1
  <2>3. CASE p[3] \in 1 .. Len(s)
    <3>1. outbox[fd][p[3]] = [msg |-> m, end |-> TRUE] /\ p # r
          BY <1>3, <1>5, <1>8, <2>1, <2>3
    <3> QED
      BY <1>3, <1>9, <2>3, <3>1 DEF Holds, End
  <2>4. CASE p[3] = Len(s) + 1
    <3>1. [msg |-> x, end |-> FALSE] = [msg |-> m, end |-> TRUE]
          BY <1>5, <2>1, <2>4
    <3>2. FALSE
          BY <3>1
    <3> QED
      BY <3>2
  <2>5. CASE p[3] = Len(s) + 2
    <3>1. p = r
          BY <1>8, <1>9, <2>5, SamePlace
    <3>2. [msg |-> x, end |-> TRUE] = [msg |-> m, end |-> TRUE]
          BY <1>5, <2>1, <2>5
    <3>3. m = x
          BY <3>2
    <3> QED
      BY <2>5, <3>1, <3>3
  <2> QED
    BY <2>2, <2>3, <2>4, <2>5
<1>10. ASSUME NEW p \in Place, NEW m \in IpcMessage, Holds(p, m)'
       PROVE  IF p = r THEN m = x ELSE Holds(p, m)
  <2>1. CASE p[1] = "out" /\ p[2] = fd
        BY <1>9, <1>10, <2>1
  <2>2. CASE p[1] = "out" /\ p[2] # fd
    <3>1. outbox'[p[2]] = outbox[p[2]] /\ p # r
          BY <1>6, <1>8, <2>2, PlaceIs
    <3> QED
      BY <1>10, <2>2, <3>1, HeldStill
  <2>3. CASE p[1] = "hand"
        BY <1>1, <1>8, <1>10, <2>3, HeldInHand
  <2>4. CASE p[1] \in {"in", "queue", "handed"}
        BY <1>1, <1>8, <1>10, <2>4, HeldStill
  <2> QED
    BY <2>1, <2>2, <2>3, <2>4, PlaceIs
<1>11. ASSUME NEW q \in Place, NEW o \in IpcMessage, Holds(q, o), q[1] \in {"hand", "in"}
       PROVE  I!Origin(o) \in Conn \X Nat
       BY <1>11, HeldComes
<1>12. ASSUME NEW q \in Place, NEW o \in IpcMessage, Holds(q, o)', Before(r, q)'
       PROVE  I!Origin(o) # I!Origin(x)
  <2>1. \/ q[1] = "out" /\ q[2] = fd /\ Len(s) + 2 < q[3]
        \/ q[1] \in {"hand", "in"}
        BY <1>8, <1>12 DEF Before
  <2>2. CASE q[1] = "out" /\ q[2] = fd /\ Len(s) + 2 < q[3]
    <3>1. q[3] <= Len(s) + 2 /\ q[3] \in Nat
          BY <1>9, <1>12, <2>2, PlaceIs
    <3> QED
      BY <2>2, <3>1
  <2>3. CASE q[1] \in {"hand", "in"}
    <3>1. Holds(q, o)
          BY <1>8, <1>10, <1>12, <2>3
    <3>2. I!Origin(o) \in Conn \X Nat
          BY <1>11, <2>3, <3>1
    <3>3. o.from \in Conn
          BY <3>2 DEF I!Origin
    <3>4. x.from = IpcServer /\ IpcServer \notin Conn
          BY <1>1, IpcConstant DEF Numbers
    <3> QED
      BY <3>3, <3>4 DEF I!Origin
  <2> QED
    BY <2>1, <2>2, <2>3
<1>13. \A p, q \in Place : Before(p, q)' => Before(p, q)
      BY <1>1, BeforeStill
<1> QED
  BY <1>1, <1>2, <1>10, <1>12, <1>13, Numbered

LEMMA OneHand ==
  ASSUME ReadersApart, NEW v \in Worker, NEW w \in Worker, Busy(v), Busy(w),
         of[v].conn = of[w].conn, of[v].conn \notin mixed
  PROVE  v = w
  BY DEF ReadersApart

\* A reader takes the first piece of a descriptor.
LEMMA RecvPlaced ==
  ASSUME IpcTypes, IpcTypes', ReadersApart, FromOwner, Placed,
         NEW w \in Worker, NEW fd \in FD, RecvStep(w, fd)
  PROVE  Placed'
<1>1. /\ UNCHANGED <<outbox, queue, handedTo, owner, strings>> /\ mixed \subseteq mixed'
      /\ Others(w) /\ LinksStay
      /\ owner[fd] # None /\ inbox[fd] # <<>>
      /\ at'[w] = "hand" /\ of'[w].tail = Head(inbox[fd])
      /\ inbox' = [inbox EXCEPT ![fd] = Tail(@)]
      BY DEF RecvStep
<1>2. inbox \in [FD -> Seq(IpcPiece)]
      BY WiresAre
<1>3. PICK s \in Seq(IpcPiece) : s = inbox[fd] /\ s # <<>>
      BY <1>1, <1>2
<1>4. PICK t \in Seq(IpcPiece) : t = Tail(s)
      BY <1>3, HeadTailProperties
<1>5. /\ Head(s) = s[1] /\ 1 \in 1 .. Len(s)
      /\ \A i \in 1 .. Len(t) : t[i] = s[i + 1] /\ i + 1 \in 1 .. Len(s)
      BY <1>3, <1>4
<1>6. inbox'[fd] = t /\ \A d \in FD : d # fd => inbox'[d] = inbox[d]
      BY <1>1, <1>2, <1>3, <1>4
<1>7. PICK g : g = [p \in Place |-> IF p[1] = "hand" /\ p[2] = w THEN <<"in", fd, 1>>
                                    ELSE IF p[1] = "in" /\ p[2] = fd THEN <<"in", fd, p[3] + 1>>
                                    ELSE p]
      OBVIOUS
<1>8. ASSUME NEW p \in Place
      PROVE  /\ g[p] \in Place
             /\ p[1] = "hand" /\ p[2] = w => g[p][1] = "in" /\ g[p][2] = fd /\ g[p][3] = 1
             /\ p[1] = "in" /\ p[2] = fd => g[p][1] = "in" /\ g[p][2] = fd /\ g[p][3] = p[3] + 1
             /\ ~(p[1] = "hand" /\ p[2] = w) /\ ~(p[1] = "in" /\ p[2] = fd) => g[p] = p
  <2>1. g[p] = IF p[1] = "hand" /\ p[2] = w THEN <<"in", fd, 1>>
               ELSE IF p[1] = "in" /\ p[2] = fd THEN <<"in", fd, p[3] + 1>>
               ELSE p
        BY <1>7
  <2>2. 1 \in Nat /\ p[3] + 1 \in Nat
        BY PlaceIs
  <2>3. <<"in", fd, 1>> \in Place /\ <<"in", fd, p[3] + 1>> \in Place
        BY <2>2, APlace
  <2> QED
    BY <2>1, <2>3
<1>9. g \in [Place -> Place]
      BY <1>7, <1>8
<1>10. ASSUME NEW p \in Place, NEW m \in IpcMessage, Holds(p, m)' PROVE Holds(g[p], m)
  <2>1. CASE p[1] = "hand" /\ p[2] = w
    <3>1. s[1] = End(m)
          BY <1>1, <1>3, <1>5, <1>10, <2>1 DEF Holds, End
    <3> QED
      BY <1>3, <1>5, <1>8, <2>1, <3>1 DEF Holds
  <2>2. CASE p[1] = "in" /\ p[2] = fd
    <3>1. p[3] \in 1 .. Len(t) /\ t[p[3]] = End(m)
          BY <1>6, <1>10, <2>2 DEF Holds, End
    <3>2. p[3] + 1 \in 1 .. Len(s) /\ s[p[3] + 1] = End(m)
          BY <1>5, <3>1
    <3> QED
      BY <1>3, <1>8, <2>2, <3>2 DEF Holds
  <2>3. CASE p[1] = "hand" /\ p[2] # w
        BY <1>1, <1>8, <1>10, <2>3, HeldAtOthers
  <2>4. CASE p[1] = "in" /\ p[2] # fd
    <3>1. inbox'[p[2]] = inbox[p[2]]
          BY <1>6, <2>4, PlaceIs
    <3> QED
      BY <1>8, <1>10, <2>4, <3>1, HeldStill
  <2>5. CASE p[1] \in {"out", "queue", "handed"}
        BY <1>1, <1>8, <1>10, <2>5, HeldStill
  <2> QED
    BY <2>1, <2>2, <2>3, <2>4, <2>5, PlaceIs
<1>11. ASSUME NEW p \in Place, NEW m \in IpcMessage, Holds(p, m)', p[1] = "in"
       PROVE  p[3] \in Nat /\ p[3] > 0
       BY <1>11, PlaceIs DEF Holds
<1>12. ASSUME NEW p \in Place, NEW q \in Place, NEW m \in IpcMessage,
              Holds(p, m)', Holds(q, m)', g[p] = g[q]
       PROVE  p = q
  <2>a. ASSUME NEW y \in Place, Holds(y, m)'
        PROVE  ~(y[1] = "hand" /\ y[2] = w) =>
                 ~(g[y][1] = "in" /\ g[y][2] = fd /\ g[y][3] = 1)
    <3>1. CASE y[1] = "in" /\ y[2] = fd
      <4>1. g[y][3] = y[3] + 1 /\ y[3] \in Nat /\ y[3] > 0
            BY <1>8, <1>11, <2>a, <3>1
      <4> QED
        BY <4>1
    <3>2. CASE ~(y[1] = "in" /\ y[2] = fd)
          BY <1>8, <3>2
    <3> QED
      BY <3>1, <3>2
  <2>b. (p[1] = "hand" /\ p[2] = w) <=> (q[1] = "hand" /\ q[2] = w)
        BY <1>8, <1>12, <2>a
  <2>1. p[1] = q[1] /\ p[2] = q[2]
        BY <1>8, <1>12, <2>b
  <2>2. p[3] = q[3]
    <3>1. CASE p[1] = "hand" /\ p[2] = w
          BY <2>1, <3>1, PlaceIs
    <3>2. CASE p[1] = "in" /\ p[2] = fd
      <4>1. p[3] + 1 = q[3] + 1 /\ p[3] \in Nat /\ q[3] \in Nat
            BY <1>8, <1>12, <2>1, <3>2, PlaceIs
      <4> QED
        BY <4>1
    <3>3. CASE ~(p[1] = "hand" /\ p[2] = w) /\ ~(p[1] = "in" /\ p[2] = fd)
          BY <1>8, <1>12, <2>1, <3>3
    <3> QED
      BY <3>1, <3>2, <3>3
  <2> QED
    BY <2>1, <2>2, SamePlace
<1>13. ASSUME NEW p \in Place, NEW q \in Place, NEW m \in IpcMessage, NEW o \in IpcMessage,
              Holds(p, m)', Holds(q, o)', Before(p, q)', I!Origin(m) = I!Origin(o)
       PROVE  Before(g[p], g[q])
  <2>1. Before(p, q)
        BY <1>1, <1>13, BeforeStill
  <2>2. Holds(g[p], m) /\ Holds(g[q], o) /\ g[p] \in Place /\ g[q] \in Place
        BY <1>8, <1>10, <1>13
  <2>3. CASE p[1] = "hand" /\ p[2] = w
    <3>1. q[1] = "in"
          BY <2>1, <2>3, PlaceIs DEF Before
    <3>2. I!Origin(m) = owner[fd] /\ I!Origin(o) = owner[q[2]] /\ q[2] \in FD
          BY <1>8, <2>2, <2>3, <3>1, HeldComes, PlaceIs
    <3>3. q[2] = fd
          BY <1>1, <1>13, <3>2 DEF ReadersApart
    <3>4. g[q][3] = q[3] + 1 /\ q[3] > 0 /\ q[3] \in Nat
          BY <1>8, <1>11, <1>13, <3>1, <3>3
    <3> QED
      BY <1>8, <2>3, <3>1, <3>3, <3>4 DEF Before
  <2>4. CASE p[1] = "in"
    <3>1. q[1] = "in" /\ p[2] = q[2] /\ p[3] < q[3] /\ p[3] \in Nat /\ q[3] \in Nat
          BY <2>1, <2>4, PlaceIs DEF Before
    <3> QED
      BY <1>8, <2>1, <2>4, <3>1 DEF Before
  <2>5. CASE ~(p[1] = "hand" /\ p[2] = w) /\ p[1] # "in"
    <3>1. g[p] = p
          BY <1>8, <2>5
    <3>2. CASE q[1] \in {"hand", "in"}
      <4>1. g[q][1] \in {"hand", "in"}
            BY <1>8, <3>2
      <4>2. p[1] \in {"handed", "queue", "out"} \/ (p[1] = "hand" /\ q[1] = "in")
            BY <2>1, <3>2, PlaceIs, <2>5 DEF Before
      <4>3. q[1] = "in" => g[q][1] = "in"
            BY <1>8
      <4> QED
        BY <3>1, <4>1, <4>2, <4>3 DEF Before
    <3>3. CASE q[1] \notin {"hand", "in"}
          BY <1>8, <2>1, <3>1, <3>3
    <3> QED
      BY <3>2, <3>3
  <2> QED
    BY <2>3, <2>4, <2>5
<1> QED
  BY <1>1, <1>9, <1>10, <1>12, <1>13, StringsGrow, Moved

\* A reader hands its frame on, to the place r.
LEMMA HandedOn ==
  ASSUME IpcTypes, IpcTypes', ReadersApart, FromOwner, Placed, NEW w \in Worker, Clears(w),
         UNCHANGED <<mixed, strings>>, NEW r \in Place, r[1] \in {"queue", "out"},
         r[1] = "queue" => r[2] = IpcServer,
         \A p \in Place : \A m \in IpcMessage : Holds(p, m)' =>
           /\ p = r => m = of[w].tail
           /\ p # r => Holds(p, m) /\ ~(p[1] = "hand" /\ p[2] = w)
           /\ p[1] = r[1] /\ p[2] = r[2] => p[3] <= r[3]
  PROVE  Placed'
<1>1. Others(w) /\ LinksStay /\ at[w] = "pass" /\ at'[w] = "clear"
      BY DEF Clears
<1>2. PICK h \in Place : h = <<"hand", w, 0>>
      BY APlace
<1>3. h[1] = "hand" /\ h[2] = w /\ h[3] = 0
      BY <1>2
<1>4. PICK g : g = [p \in Place |-> IF p = r THEN h ELSE p]
      OBVIOUS
<1>5. g \in [Place -> Place] /\ g[r] = h /\ \A p \in Place : p # r => g[p] = p
      BY <1>4
<1>6. ASSUME NEW p \in Place, NEW m \in IpcMessage, Holds(p, m)' PROVE Holds(g[p], m)
  <2>1. CASE p = r
    <3>1. m = of[w].tail
          BY <1>6, <2>1
    <3> QED
      BY <1>1, <1>3, <1>5, <2>1, <3>1 DEF Holds
  <2>2. CASE p # r
        BY <1>5, <1>6, <2>2
  <2> QED
    BY <2>1, <2>2
<1>7. ASSUME NEW p \in Place, NEW q \in Place, NEW m \in IpcMessage,
             Holds(p, m)', Holds(q, m)', g[p] = g[q]
      PROVE  p = q
  <2>1. (p # r => p # h) /\ (q # r => q # h)
        BY <1>3, <1>7
  <2> QED
    BY <1>5, <1>7, <2>1
<1>8. ASSUME NEW p \in Place, NEW q \in Place, NEW m \in IpcMessage, NEW o \in IpcMessage,
             Holds(p, m)', Holds(q, o)', Before(p, q)', I!Origin(m) = I!Origin(o), Pure(m)'
      PROVE  Before(g[p], g[q])
  <2>1. Before(p, q)
        BY <1>1, <1>8, BeforeStill
  <2>2. CASE p # r /\ q # r
        BY <1>5, <2>1, <2>2
  <2>3. CASE q = r
    <3>1. p # r
      <4>1. ~Before(r, r)
            BY PlaceIs DEF Before
      <4> QED
        BY <2>1, <2>3, <4>1
    <3>2. p[1] \in {"handed", "queue", "out"}
          BY <2>1, <2>3 DEF Before
    <3> QED
      BY <1>3, <1>5, <2>3, <3>1, <3>2 DEF Before
  <2>4. CASE p = r /\ q # r
    <3>1. q[1] \in {"hand", "in"}
      <4>1. ~(q[1] = r[1] /\ q[2] = r[2] /\ r[3] < q[3])
            BY <1>8, PlaceIs
      <4>2. IpcServer \notin Conn
            BY IpcConstant
      <4> QED
        BY <2>1, <2>4, <4>1, <4>2 DEF Before
    <3>2. Holds(h, m) /\ Holds(q, o) /\ ~(q[1] = "hand" /\ q[2] = w)
          BY <1>5, <1>6, <1>8, <2>4
    <3>3. q[1] = "in"
      <4>1. ASSUME q[1] = "hand" PROVE FALSE
        <5>1. /\ q[2] \in Worker /\ q[2] # w /\ Busy(q[2]) /\ Busy(w)
              /\ I!Origin(m) = of[w].conn /\ I!Origin(o) = of[q[2]].conn
              BY <1>3, <3>2, <4>1, HeldComes, PlaceIs
        <5>2. of[w].conn \notin mixed
              BY <1>8, <5>1 DEF Pure, I!Origin
        <5> QED
          BY <1>8, <5>1, <5>2, OneHand
      <4> QED
        BY <3>1, <4>1
    <3> QED
      BY <1>3, <1>5, <2>4, <3>3 DEF Before
  <2> QED
    BY <2>2, <2>3, <2>4
<1> QED
  BY <1>5, <1>6, <1>7, <1>8, StringsGrow, Moved

LEMMA ToQueuePlaced ==
  ASSUME IpcTypes, IpcTypes', ReadersApart, FromOwner, Placed,
         NEW w \in Worker, ToQueueStep(w)
  PROVE  Placed'
<1>1. /\ Clears(w) /\ UNCHANGED <<inbox, outbox, handedTo, mixed, strings>>
      /\ Others(w) /\ at[w] = "pass" /\ at'[w] = "clear"
      /\ queue' = [queue EXCEPT ![IpcServer] =
                     Append(@, [heads |-> of[w].heads, tail |-> of[w].tail])]
      BY DEF ToQueueStep, Clears
<1>2. queue \in [I!Name -> Seq(IpcFrame)] /\ IpcServer \in I!Name
      BY WiresAre DEF I!Name
<1>3. PICK s \in Seq(IpcFrame) : s = queue[IpcServer]
      BY <1>2
<1>4. PICK f \in IpcFrame : f = [heads |-> of[w].heads, tail |-> of[w].tail]
      BY <1>1, HandsAre DEF IpcFrame
<1>5. f.tail = of[w].tail
      BY <1>4
<1>6. /\ queue'[IpcServer] = Append(s, f)
      /\ \A n \in I!Name : n # IpcServer => queue'[n] = queue[n]
      BY <1>1, <1>2, <1>3, <1>4
<1>a. Len(s) + 1 \in Nat
      OBVIOUS
<1>7. PICK r \in Place : r = <<"queue", IpcServer, Len(s) + 1>>
      BY <1>2, <1>a, APlace
<1>8. r[1] = "queue" /\ r[2] = IpcServer /\ r[3] = Len(s) + 1
      BY <1>7
<1>9. ASSUME NEW p \in Place, NEW m \in IpcMessage, Holds(p, m)'
      PROVE  /\ p = r => m = of[w].tail
             /\ p # r => Holds(p, m) /\ ~(p[1] = "hand" /\ p[2] = w)
             /\ p[1] = r[1] /\ p[2] = r[2] => p[3] <= r[3]
  <2>1. CASE p[1] = "queue" /\ p[2] = IpcServer
    <3>1. p[3] \in 1 .. Len(Append(s, f)) /\ Append(s, f)[p[3]].tail = m
          BY <1>6, <1>9, <2>1 DEF Holds
    <3>2. p[3] \in 1 .. Len(s) \/ p[3] = Len(s) + 1
          BY <3>1
    <3>3. CASE p[3] \in 1 .. Len(s)
      <4>1. s[p[3]].tail = m /\ p[3] < Len(s) + 1
            BY <3>1, <3>3
      <4> QED
        BY <1>3, <1>8, <2>1, <3>3, <4>1 DEF Holds
    <3>4. CASE p[3] = Len(s) + 1
      <4>1. f.tail = m /\ p[3] <= Len(s) + 1
            BY <3>1, <3>4
      <4>2. p = r
            BY <1>8, <2>1, <3>4, SamePlace
      <4> QED
        BY <1>5, <1>8, <4>1, <4>2
    <3> QED
      BY <3>2, <3>3, <3>4
  <2>2. CASE p[1] = "queue" /\ p[2] # IpcServer
    <3>1. queue'[p[2]] = queue[p[2]] /\ p # r
          BY <1>6, <1>8, <2>2, PlaceIs
    <3> QED
      BY <1>8, <1>9, <2>2, <3>1, HeldStill
  <2>3. CASE p[1] = "hand"
    <3>1. p[2] # w
          BY <1>1, <1>9, <2>3 DEF Holds
    <3> QED
      BY <1>1, <1>8, <1>9, <2>3, <3>1, HeldAtOthers
  <2>4. CASE p[1] \in {"in", "out", "handed"}
        BY <1>1, <1>8, <1>9, <2>4, HeldStill
  <2> QED
    BY <2>1, <2>2, <2>3, <2>4, PlaceIs
<1> QED
  BY <1>1, <1>8, <1>9, HandedOn

LEMMA ToOutboxPlaced ==
  ASSUME IpcTypes, IpcTypes', ReadersApart, FromOwner, Placed,
         NEW w \in Worker, NEW fd \in FD, ToOutboxStep(w, fd)
  PROVE  Placed'
<1>1. /\ Clears(w) /\ UNCHANGED <<inbox, queue, handedTo, mixed, strings>>
      /\ Others(w) /\ at[w] = "pass" /\ at'[w] = "clear"
      /\ outbox' = [outbox EXCEPT ![fd] = @ \o I!Pieces(of[w].heads, of[w].tail)]
      BY DEF ToOutboxStep, Clears
<1>2. outbox \in [FD -> Seq(IpcPiece)]
      BY WiresAre
<1>3. PICK s \in Seq(IpcPiece) : s = outbox[fd]
      BY <1>2
<1>4. PICK h \in Seq(IpcMessage), x \in IpcMessage : h = of[w].heads /\ x = of[w].tail
      BY <1>1, HandsAre
<1>5. PICK u \in Seq(IpcPiece) : u = I!Pieces(h, x)
      BY PiecesFrame
<1>6. /\ Len(u) = Len(h) + 1
      /\ \A i \in 1 .. Len(h) : u[i] = [msg |-> h[i], end |-> FALSE]
      /\ u[Len(h) + 1] = [msg |-> x, end |-> TRUE]
      BY <1>5, PiecesFrame
<1>7. PICK t \in Seq(IpcPiece) : t = s \o u
      BY ConcatProperties
<1>8. PICK k \in Nat, l \in Nat : k = Len(s) /\ l = Len(h)
      OBVIOUS
<1>9. /\ Len(t) = k + l + 1
      /\ \A i \in 1 .. k : t[i] = s[i]
      /\ \A i \in k + 1 .. k + l + 1 : t[i] = u[i - k]
  <2>1. Len(t) = Len(s) + Len(u)
        BY <1>7, ConcatProperties
  <2>2. \A i \in 1 .. Len(s) + Len(u) : t[i] = IF i <= Len(s) THEN s[i] ELSE u[i - Len(s)]
        BY <1>7, ConcatProperties
  <2> QED
    BY <1>6, <1>8, <2>1, <2>2
<1>10. outbox'[fd] = t /\ \A d \in FD : d # fd => outbox'[d] = outbox[d]
       BY <1>1, <1>2, <1>3, <1>4, <1>5, <1>7
<1>a. k + l + 1 \in Nat
      OBVIOUS
<1>11. PICK r \in Place : r = <<"out", fd, k + l + 1>>
       BY <1>a, APlace
<1>12. r[1] = "out" /\ r[2] = fd /\ r[3] = k + l + 1
       BY <1>11
<1>13. ASSUME NEW p \in Place, NEW m \in IpcMessage, Holds(p, m)'
       PROVE  /\ p = r => m = of[w].tail
              /\ p # r => Holds(p, m) /\ ~(p[1] = "hand" /\ p[2] = w)
              /\ p[1] = r[1] /\ p[2] = r[2] => p[3] <= r[3]
  <2>1. CASE p[1] = "out" /\ p[2] = fd
    <3>1. p[3] \in 1 .. k + l + 1 /\ t[p[3]] = [msg |-> m, end |-> TRUE]
          BY <1>9, <1>10, <1>13, <2>1 DEF Holds, End
    <3>2. p[3] \in 1 .. k \/ p[3] \in k + 1 .. k + l \/ p[3] = k + l + 1
          BY <3>1
    <3>3. CASE p[3] \in 1 .. k
      <4>1. s[p[3]] = [msg |-> m, end |-> TRUE] /\ p[3] < k + l + 1
            BY <1>9, <3>1, <3>3
      <4> QED
        BY <1>3, <1>8, <1>12, <2>1, <3>3, <4>1 DEF Holds, End
    <3>4. CASE p[3] \in k + 1 .. k + l
      <4>1. p[3] - k \in 1 .. l /\ t[p[3]] = u[p[3] - k]
            BY <1>9, <3>1, <3>4
      <4>2. [msg |-> h[p[3] - k], end |-> FALSE] = [msg |-> m, end |-> TRUE]
            BY <1>6, <1>8, <3>1, <4>1
      <4>3. FALSE
            BY <4>2
      <4> QED
        BY <4>3
    <3>5. CASE p[3] = k + l + 1
      <4>1. p[3] \in k + 1 .. k + l + 1 /\ p[3] - k = l + 1 /\ p[3] <= k + l + 1
            BY <3>5
      <4>2. [msg |-> x, end |-> TRUE] = [msg |-> m, end |-> TRUE]
            BY <1>6, <1>8, <1>9, <3>1, <4>1
      <4>3. m = x
            BY <4>2
      <4>4. p = r
            BY <1>12, <2>1, <3>5, SamePlace
      <4> QED
        BY <1>4, <1>12, <4>1, <4>3, <4>4
    <3> QED
      BY <3>2, <3>3, <3>4, <3>5
  <2>2. CASE p[1] = "out" /\ p[2] # fd
    <3>1. outbox'[p[2]] = outbox[p[2]] /\ p # r
          BY <1>10, <1>12, <2>2, PlaceIs
    <3> QED
      BY <1>12, <1>13, <2>2, <3>1, HeldStill
  <2>3. CASE p[1] = "hand"
    <3>1. p[2] # w
          BY <1>1, <1>13, <2>3 DEF Holds
    <3> QED
      BY <1>1, <1>12, <1>13, <2>3, <3>1, HeldAtOthers
  <2>4. CASE p[1] \in {"in", "queue", "handed"}
        BY <1>1, <1>12, <1>13, <2>4, HeldStill
  <2> QED
    BY <2>1, <2>2, <2>3, <2>4, PlaceIs
<1> QED
  BY <1>1, <1>12, <1>13, HandedOn

\* A client takes the first piece, and after an end puts the frame in its queue.
LEMMA ClientRecvPlaced ==
  ASSUME IpcTypes, IpcTypes', Placed, NEW c \in Conn, NEW fd \in FD, NEW x \in IpcPiece,
         ClientRecvStep(c, fd, x)
  PROVE  Placed'
<1>1. /\ UNCHANGED <<inbox, handedTo, mixed, strings>> /\ Rests /\ LinksStay
      /\ I!Connected(c) /\ fd = link[c] /\ outbox[fd] # <<>> /\ x = Head(outbox[fd])
      /\ outbox' = [outbox EXCEPT ![fd] = Tail(@)]
      /\ queue' = IF x.end /\ val[c] # <<>> /\ Head(val[c]).to = c
                  THEN [queue EXCEPT ![c] = Append(@, [heads |-> val[c], tail |-> x.msg])]
                  ELSE queue
      BY DEF ClientRecvStep
<1>2. /\ outbox \in [FD -> Seq(IpcPiece)] /\ queue \in [I!Name -> Seq(IpcFrame)]
      /\ val \in [Conn -> Seq(IpcMessage)] /\ c \in I!Name
      BY WiresAre DEF I!Name
<1>3. PICK s \in Seq(IpcPiece) : s = outbox[fd] /\ s # <<>>
      BY <1>1, <1>2
<1>4. PICK t \in Seq(IpcPiece) : t = Tail(s)
      BY <1>3, HeadTailProperties
<1>5. /\ x = s[1] /\ 1 \in 1 .. Len(s)
      /\ \A i \in 1 .. Len(t) : t[i] = s[i + 1] /\ i + 1 \in 1 .. Len(s)
      BY <1>1, <1>3, <1>4
<1>6. outbox'[fd] = t /\ \A d \in FD : d # fd => outbox'[d] = outbox[d]
      BY <1>1, <1>2, <1>3, <1>4
<1>7. PICK q \in Seq(IpcFrame) : q = queue[c]
      BY <1>2
<1>8. PICK f \in IpcFrame : f = [heads |-> val[c], tail |-> x.msg]
      BY <1>2 DEF IpcFrame, IpcPiece
<1>9. /\ queue'[c] = q \/ (x.end /\ queue'[c] = Append(q, f))
      /\ \A n \in I!Name : n # c => queue'[n] = queue[n]
      BY <1>1, <1>2, <1>7, <1>8
<1>a. Len(q) + 1 \in Nat
      OBVIOUS
<1>10. PICK r \in Place : r = <<"queue", c, Len(q) + 1>>
       BY <1>2, <1>a, APlace
<1>11. r[1] = "queue" /\ r[2] = c /\ r[3] = Len(q) + 1
       BY <1>10
<1>12. PICK g : g = [p \in Place |-> IF p = r THEN <<"out", fd, 1>>
                                     ELSE IF p[1] = "out" /\ p[2] = fd THEN <<"out", fd, p[3] + 1>>
                                     ELSE p]
       OBVIOUS
<1>13. ASSUME NEW p \in Place
       PROVE  /\ g[p] \in Place
              /\ p = r => g[p][1] = "out" /\ g[p][2] = fd /\ g[p][3] = 1
              /\ p[1] = "out" /\ p[2] = fd =>
                   g[p][1] = "out" /\ g[p][2] = fd /\ g[p][3] = p[3] + 1
              /\ p # r /\ ~(p[1] = "out" /\ p[2] = fd) => g[p] = p
  <2>1. g[p] = IF p = r THEN <<"out", fd, 1>>
               ELSE IF p[1] = "out" /\ p[2] = fd THEN <<"out", fd, p[3] + 1>>
               ELSE p
        BY <1>12
  <2>2. 1 \in Nat /\ p[3] + 1 \in Nat
        BY PlaceIs
  <2>3. <<"out", fd, 1>> \in Place /\ <<"out", fd, p[3] + 1>> \in Place
        BY <2>2, APlace
  <2> QED
    BY <1>11, <2>1, <2>3
<1>14. g \in [Place -> Place]
       BY <1>12, <1>13
<1>15. ASSUME NEW p \in Place, NEW m \in IpcMessage, Holds(p, m)'
       PROVE  /\ Holds(g[p], m)
              /\ p[1] = "queue" /\ p[2] = c => p[3] <= Len(q) + 1
  <2>1. CASE p[1] = "queue" /\ p[2] = c
    <3>1. p[3] \in 1 .. Len(queue'[c]) /\ queue'[c][p[3]].tail = m
          BY <1>15, <2>1 DEF Holds
    <3>2. \/ p[3] \in 1 .. Len(q) /\ q[p[3]].tail = m
          \/ p[3] = Len(q) + 1 /\ x.end /\ f.tail = m
          BY <1>9, <3>1
    <3>3. CASE p[3] \in 1 .. Len(q) /\ q[p[3]].tail = m
      <4>1. g[p] = p /\ p[3] <= Len(q) + 1
            BY <1>11, <1>13, <2>1, <3>3
      <4> QED
        BY <1>7, <2>1, <3>3, <4>1 DEF Holds
    <3>4. CASE p[3] = Len(q) + 1 /\ x.end /\ f.tail = m
      <4>1. p = r /\ p[3] <= Len(q) + 1
            BY <1>11, <2>1, <3>4, SamePlace
      <4>2. x.msg = m
            BY <1>8, <3>4
      <4>3. s[1] = [msg |-> m, end |-> TRUE]
            BY <1>5, <3>4, <4>2 DEF IpcPiece
      <4> QED
        BY <1>3, <1>5, <1>13, <4>1, <4>3 DEF Holds, End
    <3> QED
      BY <3>2, <3>3, <3>4
  <2>2. CASE p[1] = "out" /\ p[2] = fd
    <3>1. p[3] \in 1 .. Len(t) /\ t[p[3]] = End(m)
          BY <1>6, <1>15, <2>2 DEF Holds, End
    <3>2. p[3] + 1 \in 1 .. Len(s) /\ s[p[3] + 1] = End(m)
          BY <1>5, <3>1
    <3> QED
      BY <1>3, <1>13, <2>2, <3>2 DEF Holds
  <2>3. CASE p[1] = "hand"
        BY <1>1, <1>11, <1>13, <1>15, <2>3, HeldInHand
  <2>4. CASE p[1] = "out" /\ p[2] # fd
    <3>1. outbox'[p[2]] = outbox[p[2]]
          BY <1>6, <2>4, PlaceIs
    <3> QED
      BY <1>11, <1>13, <1>15, <2>4, <3>1, HeldStill
  <2>5. CASE p[1] = "queue" /\ p[2] # c
    <3>1. queue'[p[2]] = queue[p[2]]
          BY <1>9, <2>5, PlaceIs
    <3> QED
      BY <1>11, <1>13, <1>15, <2>5, <3>1, HeldStill
  <2>6. CASE p[1] \in {"in", "handed"}
        BY <1>1, <1>11, <1>13, <1>15, <2>6, HeldStill
  <2> QED
    BY <2>1, <2>2, <2>3, <2>4, <2>5, <2>6, PlaceIs
<1>16. ASSUME NEW p \in Place, NEW m \in IpcMessage, Holds(p, m)', p[1] = "out"
       PROVE  p[3] \in Nat /\ p[3] > 0
       BY <1>16, PlaceIs DEF Holds
<1>17. ASSUME NEW p \in Place, NEW u \in Place, NEW m \in IpcMessage,
              Holds(p, m)', Holds(u, m)', g[p] = g[u]
       PROVE  p = u
  <2>a. ASSUME NEW y \in Place, Holds(y, m)', y # r
        PROVE  ~(g[y][1] = "out" /\ g[y][2] = fd /\ g[y][3] = 1)
    <3>1. CASE y[1] = "out" /\ y[2] = fd
      <4>1. g[y][3] = y[3] + 1 /\ y[3] \in Nat /\ y[3] > 0
            BY <1>13, <1>16, <2>a, <3>1
      <4> QED
        BY <4>1
    <3>2. CASE ~(y[1] = "out" /\ y[2] = fd)
      <4>1. g[y] = y
            BY <1>13, <2>a, <3>2
      <4> QED
        BY <3>2, <4>1
    <3> QED
      BY <3>1, <3>2
  <2>b. g[r][1] = "out" /\ g[r][2] = fd /\ g[r][3] = 1
        BY <1>13
  <2>1. p = r <=> u = r
        BY <1>17, <2>a, <2>b
  <2>2. CASE p # r
    <3>a. p # r /\ u # r
          BY <2>1, <2>2
    <3>1. p[1] = u[1] /\ p[2] = u[2]
          BY <1>13, <1>17, <3>a
    <3>2. p[3] = u[3]
      <4>1. CASE p[1] = "out" /\ p[2] = fd
        <5>1. g[p][3] = p[3] + 1 /\ g[u][3] = u[3] + 1 /\ p[3] \in Nat /\ u[3] \in Nat
              BY <1>13, <3>1, <4>1, PlaceIs
        <5> QED
          BY <1>17, <5>1
      <4>2. CASE ~(p[1] = "out" /\ p[2] = fd)
        <5>1. g[p] = p /\ g[u] = u
              BY <1>13, <3>a, <3>1, <4>2
        <5> QED
          BY <1>17, <5>1
      <4> QED
        BY <4>1, <4>2
    <3> QED
      BY <3>1, <3>2, SamePlace
  <2> QED
    BY <2>1, <2>2
<1>18. ASSUME NEW p \in Place, NEW u \in Place, NEW m \in IpcMessage, NEW o \in IpcMessage,
              Holds(p, m)', Holds(u, o)', Before(p, u)'
       PROVE  Before(g[p], g[u])
  <2>1. Before(p, u)
        BY <1>1, <1>18, BeforeStill
  <2>2. CASE p = r
    <3>1. u[1] # "handed" /\ ~(u[1] = "queue" /\ u[2] = c)
      <4>1. ~(u[1] = "queue" /\ u[2] = c /\ Len(q) + 1 < u[3])
            BY <1>15, <1>18, PlaceIs
      <4> QED
        BY <1>11, <2>1, <2>2, <4>1 DEF Before
    <3>2. CASE u[1] = "out"
      <4>1. u[2] = fd /\ u[3] > 0 /\ u[3] \in Nat
            BY <1>1, <1>11, <1>16, <1>18, <2>1, <2>2, <3>2 DEF Before
      <4> QED
        BY <1>13, <2>2, <3>2, <4>1 DEF Before
    <3>3. CASE u[1] \in {"hand", "in"}
          BY <1>11, <1>13, <2>2, <3>3 DEF Before
    <3>4. u[1] \in {"out", "hand", "in"}
          BY <1>11, <2>1, <2>2, <3>1 DEF Before
    <3> QED
      BY <3>2, <3>3, <3>4
  <2>3. CASE p # r /\ u = r
    <3>1. p[1] \in {"handed", "queue"} /\ p[2] = c
          BY <1>11, <2>1, <2>3 DEF Before
    <3>2. g[p] = p
          BY <1>13, <2>3, <3>1
    <3> QED
      BY <1>1, <1>13, <2>3, <3>1, <3>2 DEF Before
  <2>4. CASE p # r /\ u # r /\ p[1] = "out" /\ p[2] = fd
    <3>1. CASE u[1] = "out"
      <4>1. u[2] = fd /\ p[3] < u[3] /\ p[3] \in Nat /\ u[3] \in Nat
            BY <2>1, <2>4, <3>1, PlaceIs DEF Before
      <4>2. /\ g[p][1] = "out" /\ g[p][2] = fd /\ g[p][3] = p[3] + 1
            /\ g[u][1] = "out" /\ g[u][2] = fd /\ g[u][3] = u[3] + 1
            BY <1>13, <2>4, <3>1, <4>1
      <4> QED
        BY <4>1, <4>2 DEF Before
    <3>2. CASE u[1] # "out"
      <4>1. u[1] \in {"hand", "in"} /\ g[u] = u
            BY <1>13, <2>1, <2>4, <3>2 DEF Before
      <4> QED
        BY <1>13, <2>4, <4>1 DEF Before
    <3> QED
      BY <3>1, <3>2
  <2>5. CASE p # r /\ u # r /\ ~(p[1] = "out" /\ p[2] = fd)
    <3>1. g[p] = p
          BY <1>13, <2>5
    <3>2. CASE u[1] = "out" /\ u[2] = fd
      <4>1. p[1] \in {"handed", "queue"}
            BY <2>1, <2>5, <3>2 DEF Before
      <4> QED
        BY <1>13, <2>1, <3>1, <3>2, <4>1 DEF Before
    <3>3. CASE ~(u[1] = "out" /\ u[2] = fd)
          BY <1>13, <2>1, <2>5, <3>1, <3>3
    <3> QED
      BY <3>2, <3>3
  <2> QED
    BY <2>2, <2>3, <2>4, <2>5
<1> QED
  BY <1>1, <1>14, <1>15, <1>17, <1>18, StringsGrow, Moved

\* onMessage is called with the first frame.
LEMMA CallPlaced ==
  ASSUME IpcTypes, IpcTypes', Placed, NEW n \in I!Name, CallStep(n)
  PROVE  Placed'
<1>1. /\ UNCHANGED <<inbox, outbox, mixed, strings>> /\ Rests /\ LinksStay /\ queue[n] # <<>>
      /\ handedTo' = [handedTo EXCEPT ![n] = Append(@, Head(queue[n]))]
      /\ queue' = [queue EXCEPT ![n] = Tail(@)]
      BY DEF CallStep
<1>2. queue \in [I!Name -> Seq(IpcFrame)] /\ handedTo \in [I!Name -> Seq(IpcFrame)]
      BY WiresAre
<1>3. PICK q \in Seq(IpcFrame), s \in Seq(IpcFrame) : q = queue[n] /\ s = handedTo[n] /\ q # <<>>
      BY <1>1, <1>2
<1>4. PICK t \in Seq(IpcFrame), f \in IpcFrame : t = Tail(q) /\ f = Head(q)
      BY <1>3, HeadTailProperties
<1>5. /\ f = q[1] /\ 1 \in 1 .. Len(q)
      /\ \A i \in 1 .. Len(t) : t[i] = q[i + 1] /\ i + 1 \in 1 .. Len(q)
      BY <1>3, <1>4
<1>6. /\ queue'[n] = t /\ handedTo'[n] = Append(s, f)
      /\ \A d \in I!Name : d # n => queue'[d] = queue[d] /\ handedTo'[d] = handedTo[d]
      BY <1>1, <1>2, <1>3, <1>4
<1>a. Len(s) + 1 \in Nat
      OBVIOUS
<1>7. PICK r \in Place : r = <<"handed", n, Len(s) + 1>>
      BY <1>a, APlace
<1>8. r[1] = "handed" /\ r[2] = n /\ r[3] = Len(s) + 1
      BY <1>7
<1>9. PICK g : g = [p \in Place |-> IF p = r THEN <<"queue", n, 1>>
                                    ELSE IF p[1] = "queue" /\ p[2] = n THEN <<"queue", n, p[3] + 1>>
                                    ELSE p]
      OBVIOUS
<1>10. ASSUME NEW p \in Place
       PROVE  /\ g[p] \in Place
              /\ p = r => g[p][1] = "queue" /\ g[p][2] = n /\ g[p][3] = 1
              /\ p[1] = "queue" /\ p[2] = n =>
                   g[p][1] = "queue" /\ g[p][2] = n /\ g[p][3] = p[3] + 1
              /\ p # r /\ ~(p[1] = "queue" /\ p[2] = n) => g[p] = p
  <2>1. g[p] = IF p = r THEN <<"queue", n, 1>>
               ELSE IF p[1] = "queue" /\ p[2] = n THEN <<"queue", n, p[3] + 1>>
               ELSE p
        BY <1>9
  <2>2. 1 \in Nat /\ p[3] + 1 \in Nat
        BY PlaceIs
  <2>3. <<"queue", n, 1>> \in Place /\ <<"queue", n, p[3] + 1>> \in Place
        BY <2>2, APlace
  <2> QED
    BY <1>8, <2>1, <2>3
<1>11. g \in [Place -> Place]
       BY <1>9, <1>10
<1>12. ASSUME NEW p \in Place, NEW m \in IpcMessage, Holds(p, m)'
       PROVE  /\ Holds(g[p], m)
              /\ p[1] = "handed" /\ p[2] = n => p[3] <= Len(s) + 1
              /\ p[1] = "queue" => p[3] \in Nat /\ p[3] > 0
  <2>1. CASE p[1] = "handed" /\ p[2] = n
    <3>1. p[3] \in 1 .. Len(Append(s, f)) /\ Append(s, f)[p[3]].tail = m
          BY <1>6, <1>12, <2>1 DEF Holds
    <3>2. \/ p[3] \in 1 .. Len(s) /\ s[p[3]].tail = m
          \/ p[3] = Len(s) + 1 /\ f.tail = m
          BY <3>1
    <3>3. CASE p[3] \in 1 .. Len(s) /\ s[p[3]].tail = m
      <4>1. g[p] = p /\ p[3] <= Len(s) + 1
            BY <1>8, <1>10, <2>1, <3>3
      <4> QED
        BY <1>3, <2>1, <3>3, <4>1 DEF Holds
    <3>4. CASE p[3] = Len(s) + 1 /\ f.tail = m
      <4>1. p = r /\ p[3] <= Len(s) + 1
            BY <1>8, <2>1, <3>4, SamePlace
      <4> QED
        BY <1>3, <1>5, <1>8, <1>10, <3>4, <4>1 DEF Holds
    <3> QED
      BY <3>2, <3>3, <3>4
  <2>2. CASE p[1] = "queue" /\ p[2] = n
    <3>1. p[3] \in 1 .. Len(t) /\ t[p[3]].tail = m
          BY <1>6, <1>12, <2>2 DEF Holds
    <3>2. p[3] + 1 \in 1 .. Len(q) /\ q[p[3] + 1].tail = m /\ p[3] \in Nat /\ p[3] > 0
          BY <1>5, <3>1
    <3> QED
      BY <1>3, <1>10, <2>2, <3>2 DEF Holds
  <2>3. CASE p[1] = "hand"
        BY <1>1, <1>8, <1>10, <1>12, <2>3, HeldInHand
  <2>4. CASE p[1] = "queue" /\ p[2] # n
    <3>1. queue'[p[2]] = queue[p[2]]
          BY <1>6, <2>4, PlaceIs
    <3>2. p[3] \in Nat /\ p[3] > 0
          BY <1>12, <2>4, PlaceIs DEF Holds
    <3> QED
      BY <1>8, <1>10, <1>12, <2>4, <3>1, <3>2, HeldStill
  <2>5. CASE p[1] = "handed" /\ p[2] # n
    <3>1. handedTo'[p[2]] = handedTo[p[2]]
          BY <1>6, <2>5, PlaceIs
    <3> QED
      BY <1>8, <1>10, <1>12, <2>5, <3>1, HeldStill
  <2>6. CASE p[1] \in {"in", "out"}
        BY <1>1, <1>8, <1>10, <1>12, <2>6, HeldStill
  <2> QED
    BY <2>1, <2>2, <2>3, <2>4, <2>5, <2>6, PlaceIs
<1>13. ASSUME NEW p \in Place, NEW u \in Place, NEW m \in IpcMessage,
              Holds(p, m)', Holds(u, m)', g[p] = g[u]
       PROVE  p = u
  <2>a. ASSUME NEW y \in Place, Holds(y, m)', y # r
        PROVE  ~(g[y][1] = "queue" /\ g[y][2] = n /\ g[y][3] = 1)
    <3>1. CASE y[1] = "queue" /\ y[2] = n
      <4>1. g[y][3] = y[3] + 1 /\ y[3] \in Nat /\ y[3] > 0
            BY <1>10, <1>12, <2>a, <3>1
      <4> QED
        BY <4>1
    <3>2. CASE ~(y[1] = "queue" /\ y[2] = n)
      <4>1. g[y] = y
            BY <1>10, <2>a, <3>2
      <4> QED
        BY <3>2, <4>1
    <3> QED
      BY <3>1, <3>2
  <2>b. g[r][1] = "queue" /\ g[r][2] = n /\ g[r][3] = 1
        BY <1>10
  <2>1. p = r <=> u = r
        BY <1>13, <2>a, <2>b
  <2>2. CASE p # r
    <3>a. p # r /\ u # r
          BY <2>1, <2>2
    <3>1. p[1] = u[1] /\ p[2] = u[2]
          BY <1>10, <1>13, <3>a
    <3>2. p[3] = u[3]
      <4>1. CASE p[1] = "queue" /\ p[2] = n
        <5>1. g[p][3] = p[3] + 1 /\ g[u][3] = u[3] + 1 /\ p[3] \in Nat /\ u[3] \in Nat
              BY <1>10, <3>1, <4>1, PlaceIs
        <5> QED
          BY <1>13, <5>1
      <4>2. CASE ~(p[1] = "queue" /\ p[2] = n)
        <5>1. g[p] = p /\ g[u] = u
              BY <1>10, <3>a, <3>1, <4>2
        <5> QED
          BY <1>13, <5>1
      <4> QED
        BY <4>1, <4>2
    <3> QED
      BY <3>1, <3>2, SamePlace
  <2> QED
    BY <2>1, <2>2
<1>14. ASSUME NEW p \in Place, NEW u \in Place, NEW m \in IpcMessage, NEW o \in IpcMessage,
              Holds(p, m)', Holds(u, o)', Before(p, u)'
       PROVE  Before(g[p], g[u])
  <2>1. Before(p, u)
        BY <1>1, <1>14, BeforeStill
  <2>2. CASE p = r
    <3>1. ~(u[1] = "handed")
      <4>1. ~(u[1] = "handed" /\ u[2] = n /\ Len(s) + 1 < u[3])
            BY <1>12, <1>14, PlaceIs
      <4> QED
        BY <1>8, <2>1, <2>2, <4>1 DEF Before
    <3>2. CASE u[1] = "queue"
      <4>1. u[2] = n /\ u[3] > 0 /\ u[3] \in Nat
            BY <1>8, <1>12, <1>14, <2>1, <2>2, <3>2 DEF Before
      <4> QED
        BY <1>10, <2>2, <3>2, <4>1 DEF Before
    <3>3. CASE u[1] = "out"
      <4>1. g[u] = u /\ n \in Conn /\ I!Connected(n) /\ u[2] = link[n]
            BY <1>8, <1>10, <2>1, <2>2, <3>3 DEF Before
      <4> QED
        BY <1>10, <2>2, <3>3, <4>1 DEF Before
    <3>4. CASE u[1] \in {"hand", "in"}
          BY <1>8, <1>10, <2>2, <3>4 DEF Before
    <3>5. u[1] \in {"queue", "out", "hand", "in"}
          BY <3>1, PlaceIs
    <3> QED
      BY <3>2, <3>3, <3>4, <3>5
  <2>3. CASE p # r /\ u = r
    <3>1. p[1] = "handed" /\ p[2] = n /\ g[p] = p
          BY <1>8, <1>10, <2>1, <2>3 DEF Before
    <3> QED
      BY <1>10, <2>3, <3>1 DEF Before
  <2>4. CASE p # r /\ u # r /\ p[1] = "queue" /\ p[2] = n
    <3>1. CASE u[1] = "queue"
      <4>1. u[2] = n /\ p[3] < u[3] /\ p[3] \in Nat /\ u[3] \in Nat
            BY <2>1, <2>4, <3>1, PlaceIs DEF Before
      <4>2. /\ g[p][1] = "queue" /\ g[p][2] = n /\ g[p][3] = p[3] + 1
            /\ g[u][1] = "queue" /\ g[u][2] = n /\ g[u][3] = u[3] + 1
            BY <1>10, <2>4, <3>1, <4>1
      <4> QED
        BY <4>1, <4>2 DEF Before
    <3>2. CASE u[1] # "queue"
      <4>1. g[u] = u /\ g[p][1] = "queue" /\ g[p][2] = n
            BY <1>10, <2>4, <3>2
      <4> QED
        BY <2>1, <2>4, <3>2, <4>1 DEF Before
    <3> QED
      BY <3>1, <3>2
  <2>5. CASE p # r /\ u # r /\ ~(p[1] = "queue" /\ p[2] = n)
    <3>1. g[p] = p
          BY <1>10, <2>5
    <3>2. CASE u[1] = "queue" /\ u[2] = n
      <4>1. p[1] = "handed" /\ p[2] = n
            BY <2>1, <2>5, <3>2 DEF Before
      <4> QED
        BY <1>10, <3>1, <3>2, <4>1 DEF Before
    <3>3. CASE ~(u[1] = "queue" /\ u[2] = n)
          BY <1>10, <2>1, <2>5, <3>1, <3>3
    <3> QED
      BY <3>2, <3>3
  <2> QED
    BY <2>2, <2>3, <2>4, <2>5
<1> QED
  BY <1>1, <1>11, <1>12, <1>13, <1>14, StringsGrow, Moved

LEMMA PlacedStep ==
  ASSUME IpcTypes, IpcTypes', ReadersApart, FromOwner, Placed, IpcStep
  PROVE  Placed'
<1>1. NothingUnowned
      BY DEF FromOwner
<1>2. CASE QuietStep
      BY <1>2, QuietPlaced
<1>3. ASSUME NEW c \in Conn, NEW fd \in FD, ConnectStep(c, fd) PROVE Placed'
      BY <1>1, <1>3, ConnectPlaced
<1>4. ASSUME NEW c \in Conn, NEW fd \in FD, NEW m \in IpcMessage, SendStep(c, fd, m) PROVE Placed'
      BY <1>4, SendPlaced
<1>5. ASSUME NEW fd \in FD, NEW m \in IpcMessage, ServerSendStep(fd, m) PROVE Placed'
      BY <1>5, ServerSendPlaced
<1>6. ASSUME NEW c \in Conn, NEW fd \in FD, NEW p \in IpcPiece, ClientRecvStep(c, fd, p)
      PROVE  Placed'
      BY <1>6, ClientRecvPlaced
<1>7. ASSUME NEW n \in I!Name, CallStep(n) PROVE Placed'
      BY <1>7, CallPlaced
<1>8. ASSUME NEW fd \in FD, CloseStep(fd) PROVE Placed'
      BY <1>8, ClosePlaced
<1>9. ASSUME NEW w \in Worker, NEW fd \in FD, RecvStep(w, fd) PROVE Placed'
      BY <1>9, RecvPlaced
<1>10. ASSUME NEW w \in Worker, NEW fd \in FD,
              \/ RegisterStep(w, fd) \/ ClearStep(w, fd)
              \/ \E p \in IpcPiece : GatherStep(w, fd, p)
       PROVE  Placed'
       BY <1>10, ReaderPlaced
<1>11. ASSUME NEW w \in Worker, NEW fd \in FD, ToOutboxStep(w, fd) PROVE Placed'
       BY <1>11, ToOutboxPlaced
<1>12. ASSUME NEW w \in Worker, ToQueueStep(w) PROVE Placed'
       BY <1>12, ToQueuePlaced
<1> QED
  BY <1>2, <1>3, <1>4, <1>5, <1>6, <1>7, <1>8, <1>9, <1>10, <1>11, <1>12 DEF IpcStep

-----------------------------------------------------------------------------
(* StringIpc: the theorem *)

LEMMA PlacedWhole ==
  ASSUME IpcTypes, FramesWhole, Placed
  PROVE  I!HandedWhole
<1>1. handedTo \in [I!Name -> Seq(IpcFrame)]
      BY WiresAre
<1>2. ASSUME NEW n \in I!Name, NEW i \in 1 .. Len(handedTo[n])
      PROVE  /\ handedTo[n][i].tail \in IpcMessage /\ handedTo[n][i] \in IpcFrame
             /\ <<"handed", n, i>> \in Place
             /\ Holds(<<"handed", n, i>>, handedTo[n][i].tail)
  <2>1. PICK s \in Seq(IpcFrame) : s = handedTo[n]
        BY <1>1
  <2>2. i \in Nat /\ s[i] \in IpcFrame
        BY <1>2, <2>1
  <2>3. s[i].tail \in IpcMessage
        BY <2>2 DEF IpcFrame
  <2>4. <<"handed", n, i>> \in Place
        BY <2>2, APlace
  <2> QED
    BY <1>2, <2>1, <2>2, <2>3, <2>4 DEF Holds
<1>3. ASSUME NEW n \in I!Name, NEW i \in 1 .. Len(handedTo[n]),
             NEW m \in I!Name, NEW j \in 1 .. Len(handedTo[m]),
             handedTo[m][j].tail = handedTo[n][i].tail
      PROVE  n = m /\ i = j
  <2>1. <<"handed", n, i>> = <<"handed", m, j>>
        BY <1>2, <1>3 DEF Placed
  <2> QED
    BY <2>1
<1>4. ASSUME NEW n \in I!Name, NEW i \in 1 .. Len(handedTo[n]), NEW j \in 1 .. i - 1,
             Pure(handedTo[n][i].tail),
             I!Origin(handedTo[n][j].tail) = I!Origin(handedTo[n][i].tail)
      PROVE  handedTo[n][j].tail.n < handedTo[n][i].tail.n
  <2>1. PICK k \in Nat : k = Len(handedTo[n])
        BY <1>1
  <2>2. j \in 1 .. Len(handedTo[n]) /\ j < i
        BY <1>4, <2>1
  <2>3. PICK p \in Place, q \in Place : p = <<"handed", n, j>> /\ q = <<"handed", n, i>>
        BY <1>2, <2>2
  <2>4. Before(p, q)
        BY <2>2, <2>3 DEF Before
  <2>5. Pure(handedTo[n][j].tail)
        BY <1>4 DEF Pure
  <2> QED
    BY <1>2, <1>4, <2>2, <2>3, <2>4, <2>5 DEF Placed
<1>5. ASSUME NEW n \in I!Name, NEW i \in 1 .. Len(handedTo[n])
      PROVE  FrameOk(n, handedTo[n][i])
      BY <1>5 DEF FramesWhole, QueuesWhole
<1>6. ASSUME NEW n \in I!Name, NEW i \in 1 .. Len(handedTo[n])
      PROVE  LET f == handedTo[n][i]  last == Len(f.heads) IN
             /\ Head(f.heads).to = n
             /\ \A m \in I!Name : \A j \in 1 .. Len(handedTo[m]) :
                  handedTo[m][j].tail = f.tail => n = m /\ i = j
             /\ I!Origin(f.tail) \notin mixed =>
                  /\ f.heads[last] = f.tail
                  /\ \A k \in 1 .. last - 1 :
                       \/ I!Origin(f.heads[k]) # I!Origin(f.tail)
                       \/ n \in Conn /\ life[n] > 1
                  /\ \A j \in 1 .. i - 1 :
                       I!Origin(handedTo[n][j].tail) = I!Origin(f.tail) =>
                         handedTo[n][j].tail.n < f.tail.n
  <2>1. PICK f : f = handedTo[n][i]
        OBVIOUS
  <2>2. FrameOk(n, f)
        BY <1>5, <1>6, <2>1
  <2>3. \A m \in I!Name : \A j \in 1 .. Len(handedTo[m]) :
          handedTo[m][j].tail = f.tail => n = m /\ i = j
        BY <1>3, <1>6, <2>1
  <2>4. Pure(f.tail) =>
          \A j \in 1 .. i - 1 :
            I!Origin(handedTo[n][j].tail) = I!Origin(f.tail) =>
              handedTo[n][j].tail.n < f.tail.n
        BY <1>4, <1>6, <2>1
  <2> QED
    BY <2>1, <2>2, <2>3, <2>4 DEF FrameOk, Pure
<1> QED
  BY <1>6 DEF I!HandedWhole

\* What is kept of the messages that are on the way.
OnTheWay == ReadersApart /\ FromOwner /\ Gathered /\ FramesWhole /\ Placed

LEMMA OnTheWayInit == I!Init => OnTheWay
  BY ReadersInit, FromOwnerInit, GatheredInit, FramesInit, PlacedInit DEF OnTheWay

LEMMA OnTheWayStep ==
  ASSUME IpcTypes, OnTheWay, [I!Next]_ipcVars
  PROVE  OnTheWay'
<1>1. IpcTypes' /\ IpcStep
      BY IpcNextTypes, IpcNextSteps
<1> QED
  BY <1>1, ReadersStep, FromOwnerStep, GatheredStep, FramesStep, PlacedStep DEF OnTheWay

\* onMessage is given the text of a message once, where it is addressed to, and, if one
\* thread at a time read its connection, whole and in the order of that connection, for
\* any number of clients, threads, descriptors and strings (com_socket.cpp:
\* ComStringIpcServer::onRecv, ComStringIpcClient::onRecv).
THEOREM MessagesHandedWhole == ServersSpec => []HandedWhole
<1>1. ServersInit => IpcTypes /\ OnTheWay
      BY IpcInitTypes, OnTheWayInit DEF ServersInit
<1>2. IpcTypes /\ OnTheWay /\ [ServersNext]_<<part, vars, ipcVars>> => (IpcTypes /\ OnTheWay)'
  <2> SUFFICES ASSUME IpcTypes, OnTheWay, [ServersNext]_<<part, vars, ipcVars>>
               PROVE  (IpcTypes /\ OnTheWay)'
      OBVIOUS
  <2>1. [I!Next]_ipcVars
        BY DEF ServersNext
  <2> QED
    BY <2>1, IpcNextTypes, OnTheWayStep
<1>3. IpcTypes /\ OnTheWay => HandedWhole
      BY PlacedWhole DEF OnTheWay, HandedWhole
<1> QED
  BY <1>1, <1>2, <1>3, PTL DEF ServersSpec
=============================================================================
