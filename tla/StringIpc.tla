----------------------------- MODULE StringIpc -----------------------------
(***************************************************************************)
(* ComStringIpcServer and ComStringIpcClient (com_socket.cpp): clients     *)
(* with names send strings to the server or, through it, to each other.    *)
(* A frame is the two names and the text, ended by a zero byte; TCP may    *)
(* cut it anywhere, here once: its head (both names) and its tail (text    *)
(* and zero).  The server gathers the pieces of a frame by descriptor, in  *)
(* whatever thread of its pool read them, and learns from each frame which *)
(* descriptor its sender is on.                                            *)
(*                                                                         *)
(* Connections, events and the pool are those of SocketServer: accept      *)
(* takes the lowest free descriptor, any free thread may read one that has *)
(* data, and a connection that has ended is told off before it is closed.  *)
(***************************************************************************)
EXTENDS Naturals, Sequences, FiniteSets, Functions

CONSTANTS
  Client,    \* the clients, who are their names
  Server,    \* the server's name
  FD,        \* descriptor numbers of the server
  Worker,    \* threads of its pool
  MaxSent,   \* bound: strings that the clients and the server send together
  MaxConns,  \* bound: connections that the clients make together
  MaxEnds,   \* bound: of them, those that end
  None

\* What is assumed of them, by the module that gives them values.
IpcConstants ==
  /\ Server \notin Client
  /\ FD \subseteq Nat \ {0}
  /\ MaxSent \in Nat /\ MaxConns \in Nat /\ MaxEnds \in Nat
  /\ None \notin FD /\ None \notin Client \X Nat

Listener == "listener"
App == "app"   \* a thread of the application, which sends
Thread == Worker \cup {Listener, App}
Name == Client \cup {Server}

VARIABLES
  link, life,     \* a client's descriptor at the server; how often it connected
  owner,          \* whose connection an open descriptor is, and which
  inbox, outbox,  \* pieces on the way to the server, and to the client
  vals, val,      \* heads that wait for the end of their frame: per descriptor in
                  \* the server, and in each client
  clients,        \* the server's map: the descriptor of a name
  queue, handed,  \* frames that wait for onMessage, and history: its calls
  sent,           \* strings sent so far
  pc, arg,        \* the server's threads
  named,          \* history: the latest connection that registered a client
  mixed,          \* history: connections that two readers were busy with at once
  misnamed,       \* history: a frame registered a connection that had ended
  raced           \* history: two closeClient calls overlapped on a descriptor

clientVars == <<link, life, val>>
wireVars == <<owner, inbox, outbox>>
tableVars == <<vals, clients, named, mixed, misnamed, raced>>
vars == <<clientVars, wireVars, tableVars, queue, handed, sent, pc, arg>>

Idle == [fd |-> 0, conn |-> None, heads |-> <<>>, tail |-> None, close |-> 0]

Init ==
  /\ link = [c \in Client |-> None] /\ life = [c \in Client |-> 0]
  /\ owner = [fd \in FD |-> None]
  /\ inbox = [fd \in FD |-> <<>>] /\ outbox = [fd \in FD |-> <<>>]
  /\ vals = [fd \in FD |-> <<>>] /\ val = [c \in Client |-> <<>>]
  /\ clients = [c \in Client |-> None]
  /\ queue = [n \in Name |-> <<>>] /\ handed = [n \in Name |-> <<>>]
  /\ sent = [n \in Name |-> 0]
  /\ pc = [t \in Thread |-> "idle"] /\ arg = [t \in Thread |-> Idle]
  /\ named = [c \in Client |-> 0]
  /\ mixed = {} /\ misnamed = FALSE /\ raced = FALSE

Total(f) == FoldFunction(+, 0, f)
Ended == Total(life) - Cardinality({c \in Client : link[c] # None})

\* The connection a message came on.
Origin(m) == <<m.from, m.conn>>
Connected(c) == link[c] # None /\ owner[link[c]] = <<c, life[c]>>
Dead(fd) == owner[fd] # None /\ ~(Connected(owner[fd][1]) /\ link[owner[fd][1]] = fd)
Goto(t, label) == pc' = [pc EXCEPT ![t] = label]

\* The pieces of a frame: its heads, more than one if it is a spoilt one, and its tail.
Pieces(heads, tail) ==
  [i \in 1 .. Len(heads) + 1 |->
     IF i <= Len(heads) THEN [msg |-> heads[i], end |-> FALSE]
     ELSE [msg |-> tail, end |-> TRUE]]

-----------------------------------------------------------------------------
\* The clients.

\* ComTcpClient connects; what val holds of an earlier connection stays in it.
Connect(c) ==
  /\ link[c] = None /\ Total(life) < MaxConns
  /\ LET free == {fd \in FD : owner[fd] = None} IN
     \E fd \in free :
       /\ \A d \in free : fd <= d
       /\ link' = [link EXCEPT ![c] = fd]
       /\ owner' = [owner EXCEPT ![fd] = <<c, life[c] + 1>>]
  /\ life' = [life EXCEPT ![c] = @ + 1]
  /\ UNCHANGED <<val, inbox, outbox, tableVars, queue, handed, sent, pc, arg>>

\* The connection ends: the client lets go of it, or finds it gone.
Disconnect(c) ==
  /\ link[c] # None /\ Ended < MaxEnds
  /\ link' = [link EXCEPT ![c] = None]
  /\ UNCHANGED <<life, val, wireVars, tableVars, queue, handed, sent, pc, arg>>

sendString(c, to) ==
  /\ link[c] # None
  /\ Total(sent) < MaxSent
  /\ sent' = [sent EXCEPT ![c] = @ + 1]
  /\ LET m == [from |-> c, conn |-> life[c], n |-> sent[c] + 1, to |-> to] IN
     inbox' = IF Connected(c) THEN [inbox EXCEPT ![link[c]] = @ \o Pieces(<<m>>, m)]
              ELSE inbox
  /\ UNCHANGED <<clientVars, owner, outbox, tableVars, queue, handed, pc, arg>>

\* ComStringIpcClient::onRecv, for a piece: the names are those of the first head.
clientRecv(c) ==
  /\ Connected(c) /\ outbox[link[c]] # <<>>
  /\ LET piece == Head(outbox[link[c]]) IN
     /\ val' = [val EXCEPT ![c] = IF piece.end THEN <<>> ELSE Append(@, piece.msg)]
     /\ queue' = IF piece.end /\ val[c] # <<>> /\ Head(val[c]).to = c
                 THEN [queue EXCEPT ![c] = Append(@, [heads |-> val[c], tail |-> piece.msg])]
                 ELSE queue
  /\ outbox' = [outbox EXCEPT ![link[c]] = Tail(@)]
  /\ UNCHANGED <<link, life, owner, inbox, tableVars, handed, sent, pc, arg>>

\* ThreadReceiver, of a client or of the server.
callMessage(n) ==
  /\ queue[n] # <<>>
  /\ handed' = [handed EXCEPT ![n] = Append(@, Head(queue[n]))]
  /\ queue' = [queue EXCEPT ![n] = Tail(@)]
  /\ UNCHANGED <<clientVars, wireVars, tableVars, sent, pc, arg>>

-----------------------------------------------------------------------------
\* The server's threads.

\* Threads that are inside the handling of a piece of a descriptor.
BusyWith(fd) == {w \in Worker : pc[w] # "idle" /\ arg[w].fd = fd}

recv(w, fd) ==
  /\ pc[w] = "idle"
  /\ owner[fd] # None /\ inbox[fd] # <<>>
  /\ arg' = [arg EXCEPT ![w] = [Idle EXCEPT !.fd = fd, !.conn = owner[fd],
                                            !.tail = Head(inbox[fd])]]
  /\ inbox' = [inbox EXCEPT ![fd] = Tail(@)]
  /\ mixed' = IF BusyWith(fd) = {} THEN mixed
              ELSE mixed \cup {owner[fd]} \cup {arg[v].conn : v \in BusyWith(fd)}
  /\ Goto(w, "hand")
  /\ UNCHANGED <<clientVars, owner, outbox, vals, clients, named, misnamed, raced, queue,
                 handed, sent>>

\* onRecv up to the zero byte: the piece is added to what the descriptor has.
gather(w) ==
  /\ pc[w] = "hand"
  /\ LET fd == arg[w].fd  piece == arg[w].tail IN
     /\ ~piece.end \/ vals[fd] = <<>>
     /\ vals' = [vals EXCEPT ![fd] = IF piece.end THEN <<>> ELSE Append(@, piece.msg)]
  /\ Goto(w, "idle")
  /\ arg' = [arg EXCEPT ![w] = Idle]
  /\ UNCHANGED <<clientVars, wireVars, clients, named, mixed, misnamed, raced, queue,
                 handed, sent>>

\* A frame registers its sender, but not twice.
SetOnce(c, fd) == IF clients[c] = None THEN [clients EXCEPT ![c] = fd] ELSE clients

setClientFD(c, fd) == [clients EXCEPT ![c] = fd]

\* The registration is that of an open connection, not told off and the latest.
Rightly(m, fd) ==
  /\ owner[fd] = Origin(m)
  /\ \A t \in Thread : ~(pc[t] = "close" /\ arg[t].close = fd)
  /\ m.conn >= named[m.from]

\* The zero byte: the frame's first head names the sender, who is registered.
register(w) ==
  /\ pc[w] = "hand"
  /\ arg[w].tail.end /\ vals[arg[w].fd] # <<>>
  /\ LET fd == arg[w].fd  m == Head(vals[fd]) IN
     /\ clients' = setClientFD(m.from, fd)
     /\ named' = [named EXCEPT ![m.from] = m.conn]
     /\ misnamed' = (misnamed \/ ~Rightly(m, fd))
     /\ arg' = [arg EXCEPT ![w].heads = vals[fd], ![w].tail = @.msg]
  /\ Goto(w, "pass")
  /\ UNCHANGED <<clientVars, wireVars, vals, mixed, raced, queue, handed, sent>>

\* Threads that are inside closeClient(fd), and the beginning of one more.
Closing(fd) == {t \in Thread : pc[t] \in {"off", "close"} /\ arg[t].close = fd}

beginClose(t, fd) ==
  /\ owner[fd] # None
  /\ Goto(t, "off")
  /\ arg' = [arg EXCEPT ![t].close = fd]
  /\ raced' = (raced \/ Closing(fd) # {})

\* send(fd, ..) of a frame: it may fail on a connection that has ended, and then
\* closes it.
sendFrame(t, fd, heads, tail, next) ==
  IF owner[fd] # None /\ ~Dead(fd)
  THEN /\ outbox' = [outbox EXCEPT ![fd] = @ \o Pieces(heads, tail)]
       /\ Goto(t, next)
       /\ UNCHANGED <<arg, raced>>
  ELSE /\ UNCHANGED outbox
       /\ \/ Goto(t, next) /\ UNCHANGED <<arg, raced>>
          \/ beginClose(t, fd)

\* The frame is for the server, or for the descriptor of another name.
pass(w) ==
  /\ pc[w] = "pass"
  /\ LET to == Head(arg[w].heads).to IN
     IF to = Server
     THEN /\ queue' = [queue EXCEPT ![Server] =
                         Append(@, [heads |-> arg[w].heads, tail |-> arg[w].tail])]
          /\ Goto(w, "clear")
          /\ UNCHANGED <<outbox, arg, raced>>
     ELSE /\ IF clients[to] = None THEN Goto(w, "clear") /\ UNCHANGED <<outbox, arg, raced>>
             ELSE sendFrame(w, clients[to], arg[w].heads, arg[w].tail, "clear")
          /\ UNCHANGED queue
  /\ UNCHANGED <<clientVars, owner, inbox, vals, clients, named, mixed, misnamed, handed,
                 sent>>

\* Fault: the gathered bytes stay.
keepVal(w) ==
  /\ pc[w] = "clear"
  /\ Goto(w, "idle")
  /\ arg' = [arg EXCEPT ![w] = Idle]
  /\ UNCHANGED <<clientVars, wireVars, tableVars, queue, handed, sent>>

clearVal(w) ==
  /\ pc[w] = "clear"
  /\ vals' = [vals EXCEPT ![arg[w].fd] = <<>>]
  /\ Goto(w, "idle")
  /\ arg' = [arg EXCEPT ![w] = Idle]
  /\ UNCHANGED <<clientVars, wireVars, clients, named, mixed, misnamed, raced, queue,
                 handed, sent>>

\* The listener closes a connection that has ended.
endSeen(fd) ==
  /\ pc[Listener] = "idle" /\ Dead(fd)
  /\ beginClose(Listener, fd)
  /\ UNCHANGED <<clientVars, wireVars, vals, clients, named, mixed, misnamed, queue,
                 handed, sent>>

\* onConnectionChanged(.., false) and removeClientFD: the first name on fd goes.
toldOff(t) ==
  /\ pc[t] = "off"
  /\ LET fd == arg[t].close  on == {c \in Client : clients[c] = fd} IN
     /\ IF on = {} THEN UNCHANGED clients
        ELSE \E c \in on : clients' = [clients EXCEPT ![c] = None]
  /\ Goto(t, "close")
  /\ UNCHANGED <<clientVars, wireVars, vals, named, mixed, misnamed, raced, queue, handed,
                 sent, arg>>

\* The descriptor is free again; vals[fd] is left as it is.
closeFd(t) ==
  /\ pc[t] = "close"
  /\ LET fd == arg[t].close IN
     /\ owner' = [owner EXCEPT ![fd] = None]
     /\ inbox' = [inbox EXCEPT ![fd] = <<>>]
     /\ outbox' = [outbox EXCEPT ![fd] = <<>>]
  /\ Goto(t, IF t \in Worker THEN "clear" ELSE "idle")
  /\ arg' = [arg EXCEPT ![t].close = 0]
  /\ UNCHANGED <<clientVars, tableVars, queue, handed, sent>>

closeClient(t) == toldOff(t) \/ closeFd(t)

\* ComStringIpcServer::sendString, in a thread of the application, which closes the
\* connection itself when the send fails.
serverSend(c) ==
  /\ pc[App] = "idle"
  /\ Total(sent) < MaxSent /\ clients[c] # None
  /\ sent' = [sent EXCEPT ![Server] = @ + 1]
  /\ LET m == [from |-> Server, conn |-> 0, n |-> sent[Server] + 1, to |-> c] IN
     sendFrame(App, clients[c], <<m>>, m, "idle")
  /\ UNCHANGED <<clientVars, owner, inbox, vals, clients, named, mixed, misnamed, queue,
                 handed>>

-----------------------------------------------------------------------------
onRecv(w) == gather(w) \/ register(w) \/ pass(w) \/ clearVal(w)

Next ==
  \/ \E c \in Client :
       \/ Connect(c) \/ Disconnect(c) \/ clientRecv(c) \/ serverSend(c)
       \/ \E to \in Name \ {c} : sendString(c, to)
  \/ \E n \in Name : callMessage(n)
  \/ \E w \in Worker : onRecv(w) \/ \E fd \in FD : recv(w, fd)
  \/ \E fd \in FD : endSeen(fd)
  \/ \E t \in Thread : closeClient(t)

Spec == Init /\ [][Next]_vars

-----------------------------------------------------------------------------
\* The text of a message is given to onMessage once, and what is given is addressed
\* to it.  If one thread at a time read the sender's connection, it is one whole
\* message, in the order of its connection; only a message cut by the end of a
\* connection can stand before it, when the descriptor was used again or the
\* receiver has reconnected.
HandedWhole ==
  \A n \in Name : \A i \in 1 .. Len(handed[n]) :
    LET f == handed[n][i]  last == Len(f.heads) IN
    /\ Head(f.heads).to = n
    /\ \A m \in Name : \A j \in 1 .. Len(handed[m]) :
         handed[m][j].tail = f.tail => n = m /\ i = j
    /\ Origin(f.tail) \notin mixed =>
         /\ f.heads[last] = f.tail
         /\ \A k \in 1 .. last - 1 :
              \/ Origin(f.heads[k]) # Origin(f.tail)
              \/ n \in Client /\ life[n] > 1
         /\ \A j \in 1 .. i - 1 :
              Origin(handed[n][j].tail) = Origin(f.tail) => handed[n][j].tail.n < f.tail.n

\* A registered name leads to an open connection of that client, and to the
\* present one once a frame from it was taken, unless a frame was registered late
\* or two threads closed one connection.
NamesFollow ==
  \A c \in Client :
    ~misnamed /\ ~raced =>
      /\ clients[c] # None => (owner[clients[c]] # None /\ owner[clients[c]][1] = c)
      /\ Connected(c) /\ named[c] = life[c] => clients[c] = link[c]
=============================================================================
