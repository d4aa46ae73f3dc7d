-------------------------------- MODULE Client --------------------------------
(***************************************************************************)
(* The client below its widgets: the runtime's SessionManager, the network *)
(* Client with its read thread, and TcpClient, which both threads use.     *)
(*                                                                         *)
(* The user interface thread connects, hosts, disconnects and sends; the   *)
(* read thread reads, calls the handlers and ends when the connection      *)
(* does.  TcpClient has no lock: the flag m_isConnected and the socket are *)
(* read and written by both threads, each access a step of its own where   *)
(* the other thread can come between.                                      *)
(*                                                                         *)
(* The server is what a client can see of it: a configuration once, then   *)
(* numbered deltas and chat messages, and a connection that it may close   *)
(* at any time.  A reconnected client gets no configuration again.         *)
(***************************************************************************)
EXTENDS ClientPosition

VARIABLES
    uiPc,           \* Where the user interface thread is.
    hosting,        \* The call in progress is host.
    calls,          \* Calls of connect and host begun, one for each game at most.
    socket,         \* The number of the open socket, 0 for none.
    isConnected,    \* m_isConnected of TcpClient
    running,        \* m_running of Client
    readPc,         \* Where the read thread is; "none": not joinable.
    readSocket,     \* The socket that a read in progress uses.
    message,        \* What that thread has read, <<>> for nothing.
    inbox,          \* Sent on the socket and not read.
    peerClosed,     \* The server has closed the connection.
    server,         \* The server: its game, and how far that is.
    localServer,    \* m_localServer: none, running, or being stopped.
    position,       \* m_position
    chat            \* m_expectedMessageId, m_chatHistory, m_pendingChat

uiVars     == <<uiPc, hosting, calls>>
tcpVars    == <<socket, isConnected>>
readVars   == <<readPc, readSocket, message>>
wireVars   == <<inbox, peerClosed>>
serverVars == <<server, localServer>>
stateVars  == <<position, chat>>

vars == <<uiVars, tcpVars, running, readVars, wireVars, serverVars, stateVars>>

Server == [game : {0} \cup GameNumber, configured : BOOLEAN, turn : 0 .. MaxTurns,
           gameActive : BOOLEAN, chats : 0 .. MaxChats]

NewServer(game) == [game |-> game, configured |-> FALSE, turn |-> 0,
                    gameActive |-> TRUE, chats |-> 0]

\* Before the first connection, and when a local server is gone.
NoServer == NewServer(0)

TypeOK ==
    /\ uiPc \in {"idle", "connect", "open", "mark", "start",
                 "shutdown", "close", "stop", "join", "clear", "host", "blocked"}
    /\ hosting \in BOOLEAN
    /\ calls \in 0 .. MaxGames
    /\ socket \in 0 .. MaxGames
    /\ isConnected \in BOOLEAN
    /\ running \in BOOLEAN
    /\ readPc \in {"none", "loop", "enter", "read", "failed", "unmark", "handle",
                   "ending", "ended"}
    /\ readSocket \in 0 .. MaxGames
    /\ message \in {<<>>} \cup ServerEvent
    /\ inbox \in Seq(ServerEvent)
    /\ peerClosed \in BOOLEAN
    /\ server \in Server
    /\ localServer \in {"none", "running", "told", "unseen"}
    /\ position \in Position
    /\ chat \in Chat

Init ==
    /\ uiPc = "idle"
    /\ hosting = FALSE
    /\ calls = 0
    /\ socket = 0
    /\ isConnected = FALSE
    /\ running = FALSE
    /\ readPc = "none"
    /\ readSocket = 0
    /\ message = <<>>
    /\ inbox = <<>>
    /\ peerClosed = FALSE
    /\ server = NoServer
    /\ localServer = "none"
    /\ position = reset
    /\ chat = clear

UiGoto(from, to) == uiPc = from /\ uiPc' = to

ReadGoto(from, to) == readPc = from /\ readPc' = to

\* What was on the wire is lost with the socket.
CloseSocket ==
    /\ socket' = 0
    /\ inbox' = <<>>
    /\ peerClosed' = FALSE

\* GameServer::stop was called and did not find the game thread, which is there
\* now: it was not told to end.
LateThread == localServer = "unseen" /\ server.configured

\* GameServer::stop returns, if there is a local server: lookForGame came before.
StopLocalServer ==
    /\ localServer # "running" /\ ~ LateThread
    /\ localServer' = "none"
    /\ server' = IF localServer = "none" THEN server ELSE NoServer

-----------------------------------------------------------------------------
(* connect, on the user interface thread.                                  *)

connect ==
    /\ UiGoto("idle", "connect")
    /\ calls < MaxGames
    /\ calls' = calls + 1
    /\ position' = setStatus(reset, "Ready")
    /\ chat' = clear
    /\ UNCHANGED <<hosting, tcpVars, running, readVars, wireVars, serverVars>>

\* A local server, if there is one, is stopped: its connection is closed.
resetLocalServer ==
    /\ UiGoto("connect", "open")
    /\ StopLocalServer
    /\ peerClosed' = (peerClosed \/ (localServer # "none" /\ socket # 0))
    /\ UNCHANGED <<hosting, calls, tcpVars, running, readVars, inbox, stateVars>>

\* Client::connect returns false: a connection is open, or it seems so.
refuseConnect ==
    /\ UiGoto("open", "idle")
    /\ isConnected
    /\ UNCHANGED <<hosting, calls, tcpVars, running, readVars, wireVars, serverVars, stateVars>>

\* There is no such server.
failConnect ==
    /\ UiGoto("open", "idle")
    /\ ~ isConnected
    /\ CloseSocket
    /\ UNCHANGED <<hosting, calls, isConnected, running, readVars, serverVars, stateVars>>

\* The server is the one of before, another one, or the one just started.
openSocket ==
    /\ UiGoto("open", "mark")
    /\ ~ isConnected
    /\ socket' = calls
    /\ inbox' = <<>>
    /\ peerClosed' = FALSE
    /\ \/ server # NoServer /\ UNCHANGED server
       \/ localServer = "none" /\ server' = NewServer(calls)
    /\ UNCHANGED <<hosting, calls, isConnected, running, readVars, localServer, stateVars>>

markConnected ==
    /\ UiGoto("mark", "start")
    /\ isConnected' = TRUE
    /\ UNCHANGED <<hosting, calls, socket, running, readVars, wireVars, serverVars, stateVars>>

startReadLoop ==
    /\ UiGoto("start", "idle")
    /\ running' = TRUE
    /\ readPc' = IF running THEN readPc ELSE "loop"
    /\ UNCHANGED <<hosting, calls, tcpVars, readSocket, message, wireVars, serverVars, stateVars>>

-----------------------------------------------------------------------------
(* disconnect, host and shutdown, on the user interface thread.            *)

disconnect ==
    /\ UiGoto("idle", "close")
    /\ hosting' = FALSE
    /\ UNCHANGED <<calls, tcpVars, running, readVars, wireVars, serverVars, stateVars>>

\* host begins with a call of disconnect.
host ==
    /\ UiGoto("idle", "close")
    /\ calls < MaxGames
    /\ calls' = calls + 1
    /\ hosting' = TRUE
    /\ UNCHANGED <<tcpVars, running, readVars, wireVars, serverVars, stateVars>>

\* shutdown stops the local server first, then disconnects.
shutdown ==
    /\ UiGoto("idle", "shutdown")
    /\ hosting' = FALSE
    /\ UNCHANGED <<calls, tcpVars, running, readVars, wireVars, serverVars, stateVars>>

stopLocalServer ==
    /\ UiGoto("shutdown", "close")
    /\ StopLocalServer
    /\ peerClosed' = (peerClosed \/ (localServer # "none" /\ socket # 0))
    /\ UNCHANGED <<hosting, calls, tcpVars, running, readVars, inbox, stateVars>>

\* A mutation of closeConnection: the socket stays open until the read thread
\* has been joined.
CloseAfterJoin ==
    /\ UiGoto("close", "stop")
    /\ UNCHANGED <<hosting, calls, tcpVars, running, readVars, wireVars, serverVars, stateVars>>

closeConnection ==
    /\ UiGoto("close", "stop")
    /\ CloseSocket
    /\ isConnected' = FALSE
    /\ UNCHANGED <<hosting, calls, running, readVars, serverVars, stateVars>>

stopReadLoop ==
    /\ UiGoto("stop", IF running THEN "join" ELSE "clear")
    /\ running' = FALSE
    /\ UNCHANGED <<hosting, calls, tcpVars, readVars, wireVars, serverVars, stateVars>>

\* A mutation of joinReadThread: the read thread is left to itself.
DetachReadThread ==
    /\ UiGoto("join", "clear")
    /\ UNCHANGED <<hosting, calls, tcpVars, running, readVars, wireVars, serverVars, stateVars>>

joinReadThread ==
    /\ UiGoto("join", "clear")
    /\ ReadGoto("ended", "none")
    /\ UNCHANGED <<hosting, calls, tcpVars, running, readSocket, message, wireVars,
                   serverVars, stateVars>>

\* The local server is stopped and the state is cleared.
clearState ==
    /\ UiGoto("clear", IF hosting THEN "host" ELSE "idle")
    /\ StopLocalServer
    /\ position' = reset
    /\ chat' = clear
    /\ UNCHANGED <<hosting, calls, tcpVars, running, readVars, wireVars>>

startLocalServer ==
    /\ UiGoto("host", "open")
    /\ position' = setStatus(reset, "Ready")
    /\ chat' = clear
    /\ localServer' = "running"
    /\ server' = NewServer(calls)
    /\ UNCHANGED <<hosting, calls, tcpVars, running, readVars, wireVars>>

\* A send that fails closes the connection.  One that does not changes nothing
\* in the client.
sendFails ==
    /\ UiGoto("idle", "idle")
    /\ isConnected
    /\ socket = 0 \/ peerClosed
    /\ CloseSocket
    /\ isConnected' = FALSE
    /\ UNCHANGED <<hosting, calls, running, readVars, serverVars, stateVars>>

\* connect, disconnect and shutdown stop the local server in these places.
Stopping == uiPc \in {"connect", "shutdown", "clear"}

\* GameServer::stop begins: it tells the game thread to end if there is one,
\* which is when the configuration was sent.  The server goes on meanwhile.
lookForGame ==
    /\ Stopping
    /\ localServer = "running"
    /\ localServer' = IF server.configured THEN "told" ELSE "unseen"
    /\ UNCHANGED <<uiVars, tcpVars, running, readVars, wireVars, server, stateVars>>

\* The connections are closed, then stop waits for the game thread for ever.
stopHangs ==
    /\ Stopping
    /\ LateThread
    /\ uiPc' = "blocked"
    /\ peerClosed' = (peerClosed \/ socket # 0)
    /\ server' = NoServer
    /\ UNCHANGED <<hosting, calls, tcpVars, running, readVars, inbox, localServer, stateVars>>

InCall ==
    \/ lookForGame \/ stopHangs
    \/ resetLocalServer \/ refuseConnect \/ failConnect \/ openSocket \/ markConnected
    \/ startReadLoop \/ stopLocalServer \/ closeConnection \/ stopReadLoop \/ joinReadThread
    \/ clearState \/ startLocalServer

UserInterface == connect \/ disconnect \/ host \/ shutdown \/ sendFails \/ InCall

-----------------------------------------------------------------------------
(* The read thread.                                                        *)

readLoop ==
    /\ ReadGoto("loop", IF running /\ isConnected THEN "enter" ELSE "ending")
    /\ UNCHANGED <<uiVars, tcpVars, running, readSocket, message, wireVars, serverVars, stateVars>>

\* The read begins with the socket that is open now.
read ==
    /\ ReadGoto("enter", "read")
    /\ readSocket' = socket
    /\ UNCHANGED <<uiVars, tcpVars, running, message, wireVars, serverVars, stateVars>>

receive ==
    /\ ReadGoto("read", "handle")
    /\ readSocket = socket
    /\ inbox # <<>>
    /\ message' = Head(inbox)
    /\ inbox' = Tail(inbox)
    /\ UNCHANGED <<uiVars, tcpVars, running, readSocket, peerClosed, serverVars, stateVars>>

\* The socket was closed, by this side or by the other one.
readFails ==
    /\ ReadGoto("read", "failed")
    /\ socket = 0 \/ readSocket # socket \/ peerClosed
    /\ UNCHANGED <<uiVars, tcpVars, running, readSocket, message, wireVars, serverVars, stateVars>>

\* TcpClient::disconnect closes whatever socket is open, then clears the flag.
closeAfterFailure ==
    /\ ReadGoto("failed", "unmark")
    /\ CloseSocket
    /\ UNCHANGED <<uiVars, isConnected, running, readSocket, message, serverVars, stateVars>>

unmarkConnected ==
    /\ ReadGoto("unmark", "loop")
    /\ isConnected' = FALSE
    /\ UNCHANGED <<uiVars, socket, running, readSocket, message, wireVars, serverVars, stateVars>>

onGameConfig ==
    /\ message.type = "config"
    /\ position' = init(position, message)
    /\ UNCHANGED chat

onGameUpdate ==
    /\ message.type = "delta"
    /\ position' = apply(position, message)
    /\ UNCHANGED chat

onServerChat ==
    /\ message.type = "chat"
    /\ chat' = onChatMessage(chat, message)
    /\ UNCHANGED position

handleNetworkEvent ==
    /\ ReadGoto("handle", "loop")
    /\ onGameConfig \/ onGameUpdate \/ onServerChat
    /\ message' = <<>>
    /\ UNCHANGED <<uiVars, tcpVars, running, readSocket, wireVars, serverVars>>

onDisconnected ==
    /\ ReadGoto("ending", "ended")
    /\ position' = reset
    /\ chat' = clear
    /\ UNCHANGED <<uiVars, tcpVars, running, readSocket, message, wireVars, serverVars>>

ReadThread ==
    \/ readLoop \/ read \/ receive \/ readFails \/ closeAfterFailure \/ unmarkConnected
    \/ handleNetworkEvent \/ onDisconnected

-----------------------------------------------------------------------------
(* The server.                                                             *)

\* A server sends to the connections that are open.
SendToClient(event) ==
    /\ inbox' = IF socket # 0 /\ ~ peerClosed THEN Append(inbox, event) ELSE inbox
    /\ UNCHANGED <<uiVars, tcpVars, running, readVars, peerClosed, localServer, stateVars>>

\* Once, when the second player is there.
sendConfig ==
    /\ server # NoServer /\ ~ server.configured
    /\ server' = [server EXCEPT !.configured = TRUE]
    /\ SendToClient([type |-> "config", game |-> server.game])

sendDelta(gameActive) ==
    /\ server.configured /\ server.gameActive /\ server.turn < MaxTurns
    /\ server' = [server EXCEPT !.turn = @ + 1, !.gameActive = gameActive]
    /\ SendToClient([type |-> "delta", game |-> server.game, turn |-> server.turn + 1,
                     gameActive |-> gameActive])

sendChat ==
    /\ server # NoServer /\ server.chats < MaxChats
    /\ server' = [server EXCEPT !.chats = @ + 1]
    /\ SendToClient([type |-> "chat", game |-> server.game, messageId |-> server.chats + 1])

closeByServer ==
    /\ socket # 0
    /\ ~ peerClosed
    /\ peerClosed' = TRUE
    /\ UNCHANGED <<uiVars, tcpVars, running, readVars, inbox, serverVars, stateVars>>

ServerStep ==
    sendConfig \/ sendChat \/ closeByServer \/ \E gameActive \in BOOLEAN : sendDelta(gameActive)

-----------------------------------------------------------------------------
Next == UserInterface \/ ReadThread \/ ServerStep

\* Both threads go on with what they have begun; a read waits for the server or
\* for a close, and nobody need call, send or close.
Spec == Init /\ [][Next]_vars /\ WF_vars(InCall) /\ WF_vars(ReadThread)

-----------------------------------------------------------------------------
(* Properties.                                                             *)

\* Whatever is reconnected and whenever, the board never skips a move and never
\* shows one twice.  (It may show the first moves of one game and the next ones
\* of another, when connect is called on a connection that ends meanwhile.)
BoardShowsMovesInOrder == ShowsMovesInOrder(position)

\* The chat that is shown has no gap.
ChatWithoutGap == NoGapInHistory(chat)

\* A stopped client has no read thread: the assignment of the next thread finds
\* m_readThread not joinable, which would end the process.
StoppedHasNoThread == ~ running /\ uiPc # "join" => readPc = "none"

\* When disconnect has returned nothing comes from the old connection any more:
\* the state changes only in the next call.
QuietAfterDisconnect ==
    [][~ running /\ uiPc = "idle" /\ uiPc' = "idle" => UNCHANGED stateVars]_vars

\* A call returns, unless it stops a local server whose game thread was made
\* after stop had looked for it (stopHangs; GameServer shows how).  In particular
\* the read thread that a disconnect joins does not wait for a server that says
\* nothing.
CallsReturn == uiPc # "idle" ~> uiPc \in {"idle", "blocked"}

\* client.cpp:58, "Start the blocking read loop only after a successful
\* connect.": when connect has returned with a connection, a thread reads it.
ConnectedIsRead ==
    uiPc = "idle" /\ isConnected => readPc \notin {"none", "ended"}
=============================================================================
