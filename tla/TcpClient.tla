----------------------------- MODULE TcpClient -----------------------------
(***************************************************************************)
(* ComTcpClient and ComUnixDomainClient (com_socket.cpp): a thread that    *)
(* connects, reads and connects again, and an application whose threads    *)
(* send, ask for a reconnection, wait for the connection and stop.  All of *)
(* them share the descriptor and two flags without a lock.                 *)
(*                                                                         *)
(* Connections are numbered as they are opened.  The network may end one   *)
(* and the server may be out of reach; what is read is left out.           *)
(***************************************************************************)
EXTENDS Naturals

CONSTANTS
  ClientKinds,  \* which clients are checked: "tcp", "unix"
  MaxEnds,      \* bound: connections the network ends
  MaxAsks,      \* bound: calls of reconnect()
  MaxSends      \* bound: calls of send() that fail

\* What is assumed of them, by the module that gives them values.
ClientConstants ==
  /\ ClientKinds \subseteq {"tcp", "unix"}
  /\ MaxEnds \in Nat /\ MaxAsks \in Nat /\ MaxSends \in Nat

VARIABLES
  ckind,       \* which client this is
  reachable,   \* the server can be connected to
  opened,      \* how many connections were opened
  alive,       \* the last of them is open and has not ended
  socketfd,    \* the number of the client's connection, 0 for none
  running,     \* thread_receiver_running
  reconnect_now, connected,
  rx,          \* where the receiver thread is
  sender, waiter, stopper,   \* where threads of the application are
  told,        \* history: the last call of onConnectionChanged
  wanted,      \* history: the last connection reconnect() was called on
  overslept,   \* history: the waiter went to sleep after the notification
  ends, asks, sends

receiverVars == <<socketfd, reconnect_now, connected, rx, told>>
networkVars == <<reachable, opened, alive, ends>>
appVars == <<sender, waiter, stopper, wanted, overslept, asks, sends>>
vars == <<ckind, receiverVars, networkVars, running, appVars>>

\* The state before startClient.
Init ==
  /\ ckind \in ClientKinds
  /\ reachable \in BOOLEAN /\ opened = 0 /\ alive = FALSE
  /\ socketfd = 0 /\ running = FALSE
  /\ reconnect_now = FALSE /\ connected = FALSE
  /\ rx = "none" /\ sender = "idle" /\ waiter = "idle" /\ stopper = "idle"
  /\ told = "none" /\ wanted = 0 /\ overslept = FALSE
  /\ ends = 0 /\ asks = 0 /\ sends = 0

-----------------------------------------------------------------------------
\* The network.

endConnection ==
  /\ alive /\ ends < MaxEnds
  /\ alive' = FALSE /\ ends' = ends + 1
  /\ UNCHANGED <<ckind, receiverVars, reachable, opened, running, appVars>>

changeReach ==
  /\ reachable' = ~reachable
  /\ UNCHANGED <<ckind, receiverVars, opened, alive, ends, running, appVars>>

-----------------------------------------------------------------------------
\* The receiver thread.

receiverFrame == UNCHANGED <<ckind, reachable, ends, running, sender, stopper, wanted,
                             asks, sends>>

\* connect(): a new connection, if the server can be reached.
openSocket(success, failure) ==
  IF reachable
  THEN /\ opened' = opened + 1 /\ socketfd' = opened + 1 /\ alive' = TRUE
       /\ rx' = success
  ELSE /\ UNCHANGED <<opened, socketfd, alive>>
       /\ rx' = failure

\* The TCP client also looks at the state of the connection.
MustClose == reconnect_now \/ (ckind = "tcp" /\ socketfd # 0 /\ ~alive)

rxTop ==
  /\ rx = "top"
  /\ rx' = IF ~running THEN "ended"
           ELSE IF MustClose THEN "close"
           ELSE IF socketfd = 0 THEN "open" ELSE "read"
  /\ receiverFrame
  /\ UNCHANGED <<socketfd, reconnect_now, connected, told, opened, alive, waiter, overslept>>

rxClose ==
  /\ rx = "close"
  /\ alive' = FALSE
  /\ rx' = "forget"
  /\ receiverFrame
  /\ UNCHANGED <<socketfd, reconnect_now, connected, told, opened, waiter, overslept>>

rxForget ==
  /\ rx = "forget"
  /\ socketfd' = 0 /\ connected' = FALSE
  /\ rx' = "tellOff"
  /\ receiverFrame
  /\ UNCHANGED <<reconnect_now, told, opened, alive, waiter, overslept>>

rxTellOff ==
  /\ rx = "tellOff"
  /\ told' = "off"
  /\ rx' = "reset"
  /\ receiverFrame
  /\ UNCHANGED <<socketfd, reconnect_now, connected, opened, alive, waiter, overslept>>

\* A flag that is set sends the thread on at once, one that is not lets it sleep.
rxReset ==
  /\ rx = "reset"
  /\ reconnect_now' = FALSE
  /\ rx' = "open"
  /\ receiverFrame
  /\ UNCHANGED <<socketfd, connected, told, opened, alive, waiter, overslept>>

rxOpen ==
  /\ rx = "open"
  /\ openSocket(IF ckind = "tcp" THEN "connected" ELSE "tellOn", "top")
  /\ receiverFrame
  /\ UNCHANGED <<reconnect_now, connected, told, waiter, overslept>>

rxConnected ==
  /\ rx = "connected"
  /\ connected' = TRUE
  /\ rx' = "notify"
  /\ receiverFrame
  /\ UNCHANGED <<socketfd, reconnect_now, told, opened, alive, waiter, overslept>>

rxNotify ==
  /\ rx = "notify"
  /\ waiter' = IF waiter = "asleep" THEN "idle" ELSE waiter
  /\ overslept' = FALSE
  /\ rx' = "tellOn"
  /\ receiverFrame
  /\ UNCHANGED <<socketfd, reconnect_now, connected, told, opened, alive>>

rxTellOn ==
  /\ rx = "tellOn"
  /\ told' = "on"
  /\ rx' = "read"
  /\ receiverFrame
  /\ UNCHANGED <<socketfd, reconnect_now, connected, opened, alive, waiter, overslept>>

\* Fault: a read that fails is only reported.
rxReadQuiet ==
  /\ rx = "read"
  /\ ckind = "unix" \/ ~alive \/ ~running \/ reconnect_now
  /\ rx' = "top"
  /\ receiverFrame
  /\ UNCHANGED <<socketfd, reconnect_now, connected, told, opened, alive, waiter, overslept>>

\* A read that fails asks for a reconnection.  The TCP client reads on until then.
rxRead ==
  /\ rx = "read"
  /\ ckind = "unix" \/ ~alive \/ ~running \/ reconnect_now
  /\ reconnect_now' = (reconnect_now \/ ~alive)
  /\ rx' = "top"
  /\ receiverFrame
  /\ UNCHANGED <<socketfd, connected, told, opened, alive, waiter, overslept>>

Receive == \/ rxTop \/ rxClose \/ rxForget \/ rxTellOff \/ rxReset \/ rxOpen
           \/ rxConnected \/ rxNotify \/ rxTellOn \/ rxRead

-----------------------------------------------------------------------------
\* The application.

\* The Unix client connects first and says so, connected or not.
startClient ==
  /\ stopper = "idle"
  /\ IF ckind = "tcp"
     THEN rx' = "top" /\ UNCHANGED <<opened, socketfd, alive, told>>
     ELSE openSocket("top", "top") /\ told' = "on"
  /\ running' = TRUE
  /\ stopper' = "started"
  /\ UNCHANGED <<ckind, reachable, ends, reconnect_now, connected, sender, waiter, wanted,
                 overslept, asks, sends>>

\* The TCP client's send() on a connection that has ended; the flag follows later.
sendFails ==
  /\ ckind = "tcp" /\ sender = "idle" /\ sends < MaxSends
  /\ connected /\ socketfd # 0 /\ ~alive
  /\ sender' = "failed" /\ sends' = sends + 1
  /\ UNCHANGED <<ckind, receiverVars, networkVars, running, waiter, stopper, wanted,
                 overslept, asks>>

sendAsks ==
  /\ sender = "failed"
  /\ sender' = "idle"
  /\ reconnect_now' = TRUE
  /\ UNCHANGED <<ckind, socketfd, connected, rx, told, networkVars, running, waiter,
                 stopper, wanted, overslept, asks, sends>>

reconnect ==
  /\ running /\ asks < MaxAsks
  /\ reconnect_now' = TRUE
  /\ wanted' = opened
  /\ asks' = asks + 1
  /\ UNCHANGED <<ckind, socketfd, connected, rx, told, networkVars, running, sender,
                 waiter, stopper, overslept, sends>>

\* waitForConnected with no time-out: the look at connected, then the wait.
waitBegin ==
  /\ ckind = "tcp" /\ waiter = "idle" /\ ~connected
  /\ waiter' = "before"
  /\ UNCHANGED <<ckind, receiverVars, networkVars, running, sender, stopper, wanted,
                 overslept, asks, sends>>

waitSleep ==
  /\ waiter = "before"
  /\ waiter' = "asleep" /\ overslept' = connected
  /\ UNCHANGED <<ckind, receiverVars, networkVars, running, sender, stopper, wanted, asks,
                 sends>>

stopBegin ==
  /\ stopper = "started"
  /\ running' = FALSE
  /\ stopper' = "join"
  /\ UNCHANGED <<ckind, receiverVars, networkVars, sender, waiter, wanted, overslept, asks,
                 sends>>

\* The Unix client says that it is disconnected only if it was connected.
stopRest ==
  /\ stopper = "join" /\ rx = "ended"
  /\ alive' = FALSE /\ socketfd' = 0 /\ connected' = FALSE
  /\ told' = IF ckind = "tcp" \/ socketfd # 0 THEN "off" ELSE told
  /\ stopper' = "stopped"
  /\ UNCHANGED <<ckind, reconnect_now, rx, reachable, opened, ends, running, sender, waiter,
                 wanted, overslept, asks, sends>>

-----------------------------------------------------------------------------
Next ==
  \/ endConnection \/ changeReach
  \/ Receive
  \/ startClient \/ sendFails \/ sendAsks \/ reconnect \/ waitBegin \/ waitSleep
  \/ stopBegin \/ stopRest

\* The receiver thread and a call that has begun go on; nobody has to begin one.
Fairness == WF_vars(Receive) /\ WF_vars(sendAsks) /\ WF_vars(stopRest)

Spec == Init /\ [][Next]_vars
FairSpec == Spec /\ Fairness

-----------------------------------------------------------------------------
\* The connection is not there yet, has ended, or is no longer wanted.
Wanting(k) == running /\ opened = k /\ (k = 0 \/ ~alive \/ wanted = k)

\* Whatever flags cross each other, a running client that has lost its connection,
\* or was asked for another, opens one, says so and wakes who waits for it (unless
\* that thread slept through the notification), as long as the server can be
\* reached; and stopClient returns, with nothing open and that told, but for a Unix
\* client that said at its start that it was connected and never was.
ClientRecovers ==
  /\ \A k \in 0 .. MaxEnds + MaxAsks + MaxSends :
       Wanting(k) ~> \/ opened > k /\ told = "on" /\ (waiter = "asleep" => overslept)
                     \/ ~running \/ ~reachable
  /\ (stopper = "join") ~> (/\ stopper = "stopped" /\ socketfd = 0
                            /\ told = "off" \/ (ckind = "unix" /\ opened = 0))
=============================================================================
