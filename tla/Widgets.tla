------------------------------- MODULE Widgets -------------------------------
(***************************************************************************)
(* The widgets of the Qt client.  The read thread and the calls of the     *)
(* main window change the state of the SessionManager and then signal what *)
(* changed; the widgets post each signal to the event queue of the user    *)
(* interface thread, and read the state only when that thread comes to it. *)
(*                                                                         *)
(* The state is what the widgets can read of it: the size and the stones   *)
(* of the board, a number, the status, the player to move, and how long    *)
(* the chat is.  Client shows that updates come in order and the chat      *)
(* without gaps; updates that are refused change and signal nothing.       *)
(* Textures, layout and dialogs are left out, and the board is taken as    *)
(* large enough to be drawn, as its minimum size makes it.                 *)
(***************************************************************************)
EXTENDS Integers, Sequences

CONSTANTS
    BoardSize,      \* The sizes of boards.
    DefaultSize,    \* The size of the board when there is no game: 9.
    PixelSize,      \* The sizes in pixels that the board widget can have.
    MaxStones,      \* Bound: moves that put a stone.
    MaxChats,       \* Bound: messages of a chat.
    MaxCalls,       \* Bound: calls of connect and host.
    MaxWaiting      \* Bound: events that wait when the next message is read.

ASSUME WidgetsAssumption ==
    /\ BoardSize \subseteq Nat \ {0} /\ DefaultSize \in BoardSize
    /\ PixelSize \subseteq Nat
    /\ \A px \in PixelSize, size \in BoardSize : px >= size
    /\ MaxStones \in Nat /\ MaxChats \in Nat /\ MaxCalls \in Nat /\ MaxWaiting \in Nat

VARIABLES
    position,               \* m_position: its status, player, size and stones.
    chatLength,             \* m_chatHistory: its messages have the numbers 1 to this one.
    calls,                  \* Calls of connect and host, which number the chats.
    connection,             \* The connection: none, open, or lost and still to be reported.
    readSignals,            \* The signals that the handler on the read thread still sends.
    guiPc,                  \* Where the user interface thread is.
    hostSize,               \* The argument of host.
    localServer,            \* There is a local server: m_localServer.
    events,                 \* What is posted to that thread.
    dirty,                  \* The board widget has to be painted.
    size,                   \* boardPixelSize
    renderer,               \* m_boardRenderer
    painted,                \* The board on the screen, and the lines drawn for it.
    statusLabel,            \* m_statusLabel
    currPlayerLabel,        \* m_currPlayerLabel
    chatList,               \* m_chatList: each line by its call and number.
    lastChatMessageId       \* m_lastChatMessageId

stateVars  == <<position, chatLength>>
callVars   == <<calls, connection, hostSize, localServer>>
boardVars  == <<dirty, size, renderer, painted>>
labelVars  == <<statusLabel, currPlayerLabel>>
chatVars   == <<chatList, lastChatMessageId>>
widgetVars == <<boardVars, labelVars, chatVars>>

vars == <<stateVars, callVars, readSignals, guiPc, events, widgetVars>>

-----------------------------------------------------------------------------
opponent(player) == IF player = "Black" THEN "White" ELSE "Black"

reset(n) == [status |-> "Idle", player |-> "Black", size |-> n, stones |-> 0]

\* What connect, host, disconnect, a configuration and a lost connection signal.
EverythingChanged == <<"AS_BoardChange", "AS_PlayerChange", "AS_StateChange">>

\* updateMetrics: a stone is as wide as the lines are apart.
updateMetrics(nodes, px) == [nodes |-> nodes, boardSizePx |-> px, stoneSize |-> px \div nodes]

\* The window is on the screen and nothing was called yet.
Init ==
    /\ position = reset(DefaultSize)
    /\ chatLength = 0
    /\ calls = 0
    /\ connection = "none"
    /\ readSignals = <<>>
    /\ guiPc = "idle"
    /\ hostSize = 0
    /\ localServer = FALSE
    /\ events = <<>>
    /\ dirty = FALSE
    /\ size \in PixelSize
    /\ renderer = updateMetrics(DefaultSize, size)
    /\ painted = [size |-> DefaultSize, stones |-> 0, nodes |-> DefaultSize]
    /\ statusLabel = "Idle"
    /\ currPlayerLabel = "Black"
    /\ chatList = <<>>
    /\ lastChatMessageId = 0

-----------------------------------------------------------------------------
(* The signals.                                                            *)

\* onAppEvent of the widget that subscribed to a signal: what it posts.
onAppEvent == [AS_BoardChange  |-> "update", AS_PlayerChange |-> "player",
               AS_StateChange  |-> "state",  AS_NewChat      |-> "chat"]

\* A mutation of post: it waits for the user interface thread.
PostAndWait(signal) ==
    /\ guiPc = "idle"
    /\ events' = Append(events, onAppEvent[signal])

\* invokeMethod with a queued connection.
post(signal) == events' = Append(events, onAppEvent[signal])

\* EventHub::signal on the read thread, which may be overtaken between two.
signalFromReadThread ==
    /\ readSignals # <<>>
    /\ post(Head(readSignals))
    /\ readSignals' = Tail(readSignals)
    /\ UNCHANGED <<stateVars, callVars, guiPc, widgetVars>>

\* A call of the main window posts all its signals to the thread it runs on,
\* which handles none of them before the call returns: one step.
PostEverything == events' = events \o <<"update", "player", "state">>

-----------------------------------------------------------------------------
(* The read thread: it changes the state, and signals without the lock.    *)

\* It takes the next message.
Reads ==
    /\ connection = "open"
    /\ readSignals = <<>>
    /\ Len(events) <= MaxWaiting
    /\ UNCHANGED <<callVars, guiPc, events, widgetVars>>

onGameConfig(n) ==
    /\ Reads
    /\ position.status # "Active"
    /\ position' = [reset(n) EXCEPT !.status = "Active"]
    /\ readSignals' = EverythingChanged
    /\ UNCHANGED chatLength

\* A mutation of Signals: the end of the game is not signalled.
SignalsOfAction(action, done) ==
    CASE action = "Place"  -> <<"AS_BoardChange", "AS_PlayerChange">>
      [] action = "Pass"   -> <<"AS_PlayerChange">>
      [] action = "Resign" -> <<>>

Signals(action, done) ==
    (CASE action = "Place"  -> <<"AS_BoardChange", "AS_PlayerChange">>
       [] action = "Pass"   -> <<"AS_PlayerChange">>
       [] action = "Resign" -> <<>>)
    \o (IF done THEN <<"AS_StateChange">> ELSE <<>>)

\* A resignation ends the game, a pass may; each names the next player.
onGameUpdate(action, done) ==
    /\ Reads
    /\ position.status = "Active"
    /\ action = "Place" => ~done /\ position.stones < MaxStones
    /\ action = "Resign" => done
    /\ position' = [position EXCEPT !.status = IF done THEN "Done" ELSE @,
                                    !.player = opponent(@),
                                    !.stones = IF action = "Place" THEN @ + 1 ELSE @]
    /\ readSignals' = Signals(action, done)
    /\ UNCHANGED chatLength

\* A message and those that were waiting for it.
onChatMessage(n) ==
    /\ Reads
    /\ n \in chatLength + 1 .. MaxChats
    /\ chatLength' = n
    /\ readSignals' = <<"AS_NewChat">>
    /\ UNCHANGED position

\* The connection ends, by the server or by a call of disconnect.
loseConnection ==
    /\ connection = "open"
    /\ connection' = "lost"
    /\ UNCHANGED <<stateVars, calls, hostSize, localServer, readSignals, guiPc, events,
                   widgetVars>>

onDisconnected ==
    /\ connection = "lost"
    /\ readSignals = <<>>
    /\ connection' = "none"
    /\ position' = reset(DefaultSize)
    /\ chatLength' = 0
    /\ readSignals' = EverythingChanged
    /\ UNCHANGED <<calls, hostSize, localServer, guiPc, events, widgetVars>>

ReadThread ==
    \/ \E n \in BoardSize : onGameConfig(n)
    \/ \E action \in {"Place", "Pass", "Resign"}, done \in BOOLEAN : onGameUpdate(action, done)
    \/ \E n \in 1 .. MaxChats : onChatMessage(n)

-----------------------------------------------------------------------------
(* The calls of the main window, on the user interface thread.             *)

GuiGoto(from, to) == guiPc = from /\ guiPc' = to

connect ==
    /\ GuiGoto("idle", "reset")
    /\ calls < MaxCalls
    /\ calls' = calls + 1
    /\ position' = [reset(DefaultSize) EXCEPT !.status = "Ready"]
    /\ chatLength' = 0
    /\ UNCHANGED <<connection, hostSize, localServer, readSignals, events, widgetVars>>

\* disconnect and shutdown close the connection and wait for the read thread.
CloseConnection == connection' = IF connection = "open" THEN "lost" ELSE connection

\* The local server of an earlier call of host is stopped by connect before it
\* connects, and by shutdown before it disconnects.
stopLocalServer ==
    /\ \/ GuiGoto("reset", "connect") /\ UNCHANGED connection
       \/ GuiGoto("close", "shutdown") /\ CloseConnection
    /\ localServer' = FALSE
    /\ UNCHANGED <<stateVars, calls, hostSize, readSignals, events, widgetVars>>

\* Client::connect, refused on an open connection, and the signals.
connectNetwork ==
    /\ GuiGoto("connect", "idle")
    /\ connection' \in IF connection = "none" THEN {"none", "open"} ELSE {connection}
    /\ PostEverything
    /\ UNCHANGED <<stateVars, calls, hostSize, localServer, readSignals, widgetVars>>

\* host begins with a call of disconnect.
host(n) ==
    /\ GuiGoto("idle", "join")
    /\ calls < MaxCalls
    /\ calls' = calls + 1
    /\ hostSize' = n
    /\ CloseConnection
    /\ UNCHANGED <<stateVars, localServer, readSignals, events, widgetVars>>

\* The read thread is joined, which waits for its last signals.
ReadThreadEnded == connection = "none" /\ readSignals = <<>>

\* disconnect: then the local server is stopped and the state cleared.
disconnect ==
    /\ GuiGoto("join", "host")
    /\ ReadThreadEnded
    /\ localServer' = FALSE
    /\ position' = reset(DefaultSize)
    /\ chatLength' = 0
    /\ PostEverything
    /\ UNCHANGED <<calls, connection, hostSize, readSignals, widgetVars>>

\* GameServer::stop, called by the steps above, need not return: it can wait for
\* its game thread for ever.  GameServer and Client show when; here it can be
\* any time that there is a local server to stop.
stopHangs ==
    /\ guiPc \in {"reset", "close"} \/ (guiPc = "join" /\ ReadThreadEnded)
    /\ localServer
    /\ guiPc' = "blocked"
    /\ UNCHANGED <<stateVars, callVars, readSignals, events, widgetVars>>

startLocalServer ==
    /\ GuiGoto("host", "connect")
    /\ localServer' = TRUE
    /\ position' = [reset(hostSize) EXCEPT !.status = "Ready"]
    /\ chatLength' = 0
    /\ hostSize' = 0
    /\ UNCHANGED <<calls, connection, readSignals, events, widgetVars>>

closeEvent ==
    /\ GuiGoto("idle", "close")
    /\ UNCHANGED <<stateVars, callVars, readSignals, events, widgetVars>>

\* Nothing is signalled: the window goes.
shutdown ==
    /\ GuiGoto("shutdown", "closed")
    /\ ReadThreadEnded
    /\ position' = reset(DefaultSize)
    /\ chatLength' = 0
    /\ UNCHANGED <<callVars, readSignals, events, widgetVars>>

InCall == stopLocalServer \/ connectNetwork \/ disconnect \/ startLocalServer \/ shutdown

-----------------------------------------------------------------------------
(* The event loop.                                                         *)

\* The thread takes an event from the queue.
Event(event) ==
    /\ GuiGoto("idle", "idle")
    /\ events # <<>>
    /\ Head(events) = event
    /\ events' = Tail(events)
    /\ UNCHANGED <<stateVars, callVars, readSignals>>

\* QWidget::update, which later paints once for all the calls before.
update ==
    /\ Event("update")
    /\ dirty' = TRUE
    /\ UNCHANGED <<size, renderer, painted, labelVars, chatVars>>

setCurrentPlayerText ==
    /\ Event("player")
    /\ currPlayerLabel' = position.player
    /\ UNCHANGED <<boardVars, statusLabel, chatVars>>

setGameStateText ==
    /\ Event("state")
    /\ statusLabel' = position.status
    /\ UNCHANGED <<boardVars, currPlayerLabel, chatVars>>

\* The messages after the number n, as lines of the list.
getChatSince(n) ==
    IF n >= chatLength THEN <<>>
    ELSE [i \in 1 .. chatLength - n |-> <<calls, n + i>>]

\* A mutation of appendChatMessages: the number of the last line is not kept.
AppendHistory ==
    /\ Event("chat")
    /\ chatList' = chatList \o getChatSince(lastChatMessageId)
    /\ UNCHANGED <<boardVars, labelVars, lastChatMessageId>>

appendChatMessages ==
    LET entries == getChatSince(lastChatMessageId) IN
    /\ Event("chat")
    /\ chatList' = chatList \o entries
    /\ lastChatMessageId' = lastChatMessageId + Len(entries)
    /\ UNCHANGED <<boardVars, labelVars>>

\* paintEvent: the board is asked for its size, and ...
renderBoard ==
    /\ GuiGoto("idle", "draw")
    /\ dirty
    /\ dirty' = FALSE
    /\ renderer' = IF renderer.nodes = position.size THEN renderer
                   ELSE updateMetrics(position.size, size)
    /\ UNCHANGED <<stateVars, callVars, readSignals, events, size, painted,
                   labelVars, chatVars>>

\* ... asked again for the board to draw.
draw ==
    /\ GuiGoto("draw", "idle")
    /\ painted' = [size |-> position.size, stones |-> position.stones,
                   nodes |-> renderer.nodes]
    /\ UNCHANGED <<stateVars, callVars, readSignals, events, dirty, size,
                   renderer, labelVars, chatVars>>

\* Bound: the widget only grows.
resizeEvent(px) ==
    /\ GuiGoto("idle", "idle")
    /\ px > size
    /\ Len(events) <= MaxWaiting
    /\ size' = px
    /\ renderer' = updateMetrics(renderer.nodes, px)
    /\ events' = Append(events, "update")
    /\ UNCHANGED <<stateVars, callVars, readSignals, dirty, painted, labelVars,
                   chatVars>>

EventLoop ==
    update \/ setCurrentPlayerText \/ setGameStateText \/ appendChatMessages
    \/ renderBoard \/ draw

-----------------------------------------------------------------------------
\* The window is closed, or it hangs; what the read thread still does is in Next.
Terminated == guiPc \in {"closed", "blocked"} /\ UNCHANGED vars

Next ==
    \/ ReadThread \/ loseConnection \/ onDisconnected \/ signalFromReadThread
    \/ connect \/ closeEvent \/ InCall \/ stopHangs
    \/ \E n \in BoardSize : host(n)
    \/ EventLoop
    \/ \E px \in PixelSize : resizeEvent(px)
    \/ Terminated

Spec == Init /\ [][Next]_vars

-----------------------------------------------------------------------------
(* Where a click goes.                                                     *)

\* The pixel at which line i is drawn.
drawnAt(i) == renderer.stoneSize \div 2 + i * renderer.stoneSize

\* pixelToCoord: the lines for which a click on the pixel px can be taken, by
\* rounding and with a tolerance of 0.3 of their distance.  On the edge of the
\* tolerance the arithmetic decides, so that is left open.
pixelToCoord(px) ==
    {i \in 0 .. renderer.nodes - 1 :
        /\ 10 * (px - drawnAt(i)) <= 3 * renderer.stoneSize
        /\ 10 * (drawnAt(i) - px) <= 3 * renderer.stoneSize}

\* The points that a click can name, on a pixel of the board: none, or the one
\* near it.
handleClick(px, py) ==
    IF {px, py} \subseteq 0 .. size - 1 THEN pixelToCoord(px) \X pixelToCoord(py) ELSE {}

-----------------------------------------------------------------------------
(* Properties.                                                             *)

\* Nothing is signalled, posted or to be painted.
Quiet ==
    /\ guiPc = "idle"
    /\ readSignals = <<>>
    /\ events = <<>> /\ ~dirty

\* The board on the screen is that of the game, drawn with as many lines as it
\* has, and a click on the point where two lines cross names that point.
ShowsBoard ==
    /\ painted = [size |-> position.size, stones |-> position.stones, nodes |-> position.size]
    /\ renderer = updateMetrics(position.size, size)
    /\ \A x, y \in 0 .. position.size - 1 : handleClick(drawnAt(x), drawnAt(y)) = {<<x, y>>}

\* The label keeps the player of before a resignation, which signals no change
\* of the player.
ShowsGame ==
    /\ statusLabel = position.status
    /\ currPlayerLabel = position.player \/ position.status = "Done"

ShowsChat == lastChatMessageId >= chatLength

\* The window catches up: although the widgets read the state long after the
\* signal, both threads change it meanwhile, and the board is read twice for a
\* picture, what is on the screen is the state when all signals are handled.
QuietShowsState == Quiet => ShowsBoard /\ ShowsGame /\ ShowsChat

\* No line of the chat is shown twice or out of order and none between two that
\* are shown is missing, also when several messages come before the first
\* signal is handled, or none is left for the second.
ChatListInOrder ==
    \A i \in 1 .. Len(chatList) :
        /\ chatList[i][2] = i
        /\ i > 1 => chatList[i - 1][1] <= chatList[i][1]

\* Hosting a game and closing the window join the read thread, which is signalling
\* meanwhile.  It never waits for the thread that joins it, and it reads nothing
\* new: each step it takes sends one of the signals left or ends the connection,
\* so the join comes to its end.  That the whole call does is not claimed: a local
\* server that it stops may hang (stopHangs).
JoinCanGoOn ==
    guiPc \in {"join", "shutdown"} =>
        /\ connection # "open"
        /\ ENABLED InCall \/ ENABLED (onDisconnected \/ signalFromReadThread)
=============================================================================
