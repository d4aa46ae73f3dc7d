------------------------------ MODULE GameServer ------------------------------
(***************************************************************************)
(* app::GameServer: the handler of the session server and the listener of  *)
(* the game.  Four threads meet in it: the io thread, which queues what    *)
(* clients do; the server thread, which calls the handlers; the game       *)
(* thread, which runs the match and broadcasts its deltas; and the owner,  *)
(* which starts and stops it all.                                          *)
(*                                                                         *)
(* The game is a match, which Game implements.  The session server is what *)
(* Server shows of it: the events of a session are handled in order, and   *)
(* two open sessions never have the same colour.  Messages travel encoded, *)
(* and what a client shows is what its position and its chat make of the   *)
(* messages sent to it so far.                                             *)
(***************************************************************************)
EXTENDS NwEvents, Sequences, FiniteSets

CONSTANTS
    Coord, EventCoord,  \* The board of the match, and what clients name.
    BoardSize,          \* The size that the configuration gives.
    Payload,            \* What clients send: JSON objects.
    MaxSessions,        \* Bound: clients that connect.
    MaxLeaves,          \* Bound: clients that leave before the server stops.
    MaxWaiting,         \* Bound: events in the queue of the server when one is added.
    MaxReceived         \* Bound: messages sent by clients.

ASSUME GameServerAssumption ==
    /\ MaxSessions \in Nat \ {0}
    /\ MaxLeaves \in Nat /\ MaxWaiting \in Nat \ {0} /\ MaxReceived \in Nat
    /\ MaxSessions < UnsignedSize /\ MaxReceived < UnsignedSize
    /\ BoardSize \in UnsignedInt /\ Coord \subseteq Point

\* Points and texts are what clients may name and write.
ASSUME PayloadAssumption ==
    \A payload \in Payload : \A e \in fromClientMessage(payload) :
        /\ e.type = "put" => e.c \in EventCoord
        /\ e.type = "chat" => e.message \in Text

VARIABLES
    gameThread, gameActive, eventQueue, deltas,     \* m_game, as a match
    listening,      \* m_game has this listener.
    joinable,       \* m_gameThread.joinable()
    players,        \* m_players: the session of each player, 0 for none.
    chatHistory,    \* m_chatHistory
    ownerPc,        \* The owner: before start, before stop, in stop.
    sawGameThread,  \* What stop saw of m_gameThread when it began.
    isRunning,      \* m_isRunning of the session server
    serverQueue,    \* m_eventQueue of the session server
    serverPc,       \* The server thread.
    open,           \* The sessions whose connection is open.
    nextSession,    \* The session of the next client.
    seats,          \* The seat of each session.
    active,         \* The sessions with isActive.
    sending,        \* The broadcast of each thread: the sessions not visited.
    message,        \* The broadcast of each thread: what it sends.
    sent,           \* Messages sent by clients.
    handled,        \* The calls of onNetworkEvent.
    shown           \* What each client has made of the messages sent to it.

gameVars    == <<gameThread, gameActive, eventQueue, deltas>>
handlerVars == <<joinable, players, chatHistory>>
ownerVars   == <<listening, ownerPc, sawGameThread, isRunning>>
networkVars == <<open, nextSession, sent>>
sessionVars == <<seats, active>>
wireVars    == <<sending, message, shown>>

vars == <<gameVars, handlerVars, ownerVars, networkVars, sessionVars, wireVars,
          serverQueue, serverPc, handled>>

Game == INSTANCE Match

Client == INSTANCE ClientPosition
              WITH MaxGames <- 1, MaxTurns <- MaxReceived, MaxChats <- MaxReceived

-----------------------------------------------------------------------------
SessionId == 1 .. MaxSessions

Seat == Player \cup {"None", "Observer"}

Thread == {"server", "game"}

isPlayer(seat) == seat \in Player

ServerEvent ==
    [type : {"session"}, sessionId : SessionId]
    \cup [type : {"config"}, boardSize : {BoardSize}]
    \cup [type : {"chat"}, player : Player, messageId : 1 .. MaxReceived, message : Text]
    \cup [type : {"delta"}, turn : 1 .. MaxReceived, seat : Player,
          action : {"Place", "Pass", "Resign"}, coord : SUBSET Coord,
          captures : SUBSET Coord, next : Player, status : {"Active", "Draw"}]

TypeOK ==
    /\ gameThread \in {"none", "running", "ended"}
    /\ gameActive \in BOOLEAN
    /\ eventQueue \in Seq(Game!Event)
    /\ deltas \in Seq(Game!Delta)
    /\ listening \in BOOLEAN /\ joinable \in BOOLEAN /\ sawGameThread \in BOOLEAN
    /\ players \in [Player -> {0} \cup SessionId]
    /\ chatHistory \in Seq([player : Player, message : Text])
    /\ ownerPc \in {"start", "stop", "server", "network", "joinServer",
                    "unsubscribe", "joinGame", "done"}
    /\ isRunning \in BOOLEAN
    /\ serverPc \in {"none", "pop", "broadcast", "ended"}
    /\ open \subseteq SessionId /\ active \subseteq SessionId
    /\ nextSession \in 1 .. MaxSessions + 1
    /\ seats \in [SessionId -> Seat]
    /\ sending \in [Thread -> SUBSET SessionId]
    /\ \A t \in Thread : IF sending[t] = {} THEN message[t] = <<>> ELSE message[t] \in ServerEvent
    /\ sent \in 0 .. MaxReceived
    /\ \A s \in SessionId : shown[s].position.moveId \in 0 .. MaxReceived

Init ==
    /\ Game!Init
    /\ listening = FALSE
    /\ joinable = FALSE
    /\ players = [p \in Player |-> 0]
    /\ chatHistory = <<>>
    /\ ownerPc = "start"
    /\ sawGameThread = FALSE
    /\ isRunning = FALSE
    /\ serverQueue = <<>>
    /\ serverPc = "none"
    /\ open = {}
    /\ nextSession = 1
    /\ seats = [s \in SessionId |-> "None"]
    /\ active = {}
    /\ sending = [t \in Thread |-> {}]
    /\ message = [t \in Thread |-> <<>>]
    /\ sent = 0
    /\ handled = <<>>
    /\ shown = [s \in SessionId |-> [position |-> Client!reset, chat |-> Client!clear]]

-----------------------------------------------------------------------------
(* The owner.                                                              *)

start ==
    /\ ownerPc = "start"
    /\ ownerPc' = "stop"
    /\ listening' = TRUE
    /\ isRunning' = TRUE
    /\ serverPc' = "pop"
    /\ UNCHANGED <<gameVars, handlerVars, sawGameThread, networkVars, sessionVars, wireVars,
                   serverQueue, handled>>

\* A mutation of stop: the game is not told.
StopWithoutShutdown ==
    /\ ownerPc \in {"start", "stop"}
    /\ ownerPc' = "server"
    /\ sawGameThread' = joinable
    /\ UNCHANGED <<gameVars, handlerVars, listening, isRunning, networkVars, sessionVars,
                   wireVars, serverQueue, serverPc, handled>>

\* The game is told to end when its thread is there.
stop ==
    /\ ownerPc \in {"start", "stop"}
    /\ ownerPc' = "server"
    /\ sawGameThread' = joinable
    /\ IF joinable THEN Game!pushEvent([type |-> "Shutdown"]) ELSE UNCHANGED gameVars
    /\ UNCHANGED <<handlerVars, listening, isRunning, networkVars, sessionVars, wireVars,
                   serverQueue, serverPc, handled>>

\* The session server is stopped: its flag and the event that wakes its thread.
stopServer ==
    /\ ownerPc = "server"
    /\ ownerPc' = "network"
    /\ isRunning' = FALSE
    /\ serverQueue' = IF isRunning THEN Append(serverQueue, [type |-> "Shutdown"])
                      ELSE serverQueue
    /\ UNCHANGED <<gameVars, handlerVars, listening, sawGameThread, networkVars, sessionVars,
                   wireVars, serverPc, handled>>

stopNetwork ==
    /\ ownerPc = "network"
    /\ ownerPc' = "joinServer"
    /\ open' = {}
    /\ UNCHANGED <<gameVars, handlerVars, listening, sawGameThread, isRunning, nextSession,
                   sent, sessionVars, wireVars, serverQueue, serverPc, handled>>

joinServer ==
    /\ ownerPc = "joinServer"
    /\ serverPc \in {"none", "ended"}
    /\ ownerPc' = "unsubscribe"
    /\ UNCHANGED <<gameVars, handlerVars, listening, sawGameThread, isRunning, networkVars,
                   sessionVars, wireVars, serverQueue, serverPc, handled>>

\* The mutex of the listeners is held while a delta is signalled.
unsubscribeState ==
    /\ ownerPc = "unsubscribe"
    /\ sending["game"] = {}
    /\ ownerPc' = "joinGame"
    /\ listening' = FALSE
    /\ UNCHANGED <<gameVars, handlerVars, sawGameThread, isRunning, networkVars, sessionVars,
                   wireVars, serverQueue, serverPc, handled>>

joinGame ==
    /\ ownerPc = "joinGame"
    /\ joinable => gameThread = "ended"
    /\ ownerPc' = "done"
    /\ joinable' = FALSE
    /\ players' = [p \in Player |-> 0]
    /\ UNCHANGED <<gameVars, chatHistory, listening, sawGameThread, isRunning, networkVars,
                   sessionVars, wireVars, serverQueue, serverPc, handled>>

Stopping == stopServer \/ stopNetwork \/ joinServer \/ unsubscribeState \/ joinGame

-----------------------------------------------------------------------------
(* The io thread queues what clients do.                                   *)

Queue(e) ==
    /\ Len(serverQueue) < MaxWaiting
    /\ serverQueue' = Append(serverQueue, e)
    /\ UNCHANGED <<gameVars, handlerVars, ownerVars, sessionVars, wireVars, serverPc, handled>>

clientConnects ==
    /\ ownerPc \in {"stop", "server", "network"}
    /\ nextSession <= MaxSessions
    /\ open' = open \cup {nextSession}
    /\ nextSession' = nextSession + 1
    /\ Queue([type |-> "ClientConnected", session |-> nextSession])
    /\ UNCHANGED sent

clientSends(s, payload) ==
    /\ s \in open
    /\ sent < MaxReceived
    /\ sent' = sent + 1
    /\ Queue([type |-> "ClientMessage", session |-> s, payload |-> payload])
    /\ UNCHANGED <<open, nextSession>>

clientLeaves(s) ==
    /\ s \in open
    /\ Cardinality((1 .. nextSession - 1) \ open) < MaxLeaves
    /\ open' = open \ {s}
    /\ Queue([type |-> "ClientDisconnected", session |-> s])
    /\ UNCHANGED <<nextSession, sent>>

Network ==
    \/ clientConnects
    \/ \E s \in SessionId : clientLeaves(s) \/ \E payload \in Payload : clientSends(s, payload)

-----------------------------------------------------------------------------
(* Broadcasts.                                                             *)

\* The sessions that exist.
Sessions == {s \in SessionId : seats[s] # "None"}

\* What the client keeps of the game and of the chat after an event.
ShownAfter(before, e) ==
    CASE e.type = "config" ->
             [before EXCEPT !.position = Client!init(@, [game |-> 1])]
      [] e.type = "delta" ->
             [before EXCEPT !.position = Client!apply(@,
                 [turn |-> e.turn, gameActive |-> e.status = "Active", event |-> e])]
      [] e.type = "chat" ->
             [before EXCEPT !.chat = Client!onChatMessage(@, e)]
      [] OTHER -> before

\* What the clients show after e was sent to the session s, if its connection
\* is open: the client acts on what it can read of the message.
SentTo(s, e) ==
    LET received == fromServerMessage(toServerMessage(e))
    IN  IF s \in open /\ received # {}
        THEN [shown EXCEPT ![s] = ShownAfter(@, CHOOSE r \in received : TRUE)]
        ELSE shown

\* The thread t begins to broadcast e.
broadcast(t, e) ==
    /\ sending' = [sending EXCEPT ![t] = Sessions]
    /\ message' = [message EXCEPT ![t] = e]

\* forEachSession: the next session gets the message if it is active.  After
\* the last one the thread goes on with its loop.  The order of a hash map is
\* any order; what one session gets does not depend on the others, and the
\* smallest number is taken first.
visit(t, s) ==
    /\ s \in sending[t]
    /\ \A r \in sending[t] : s <= r
    /\ sending' = [sending EXCEPT ![t] = @ \ {s}]
    /\ message' = [message EXCEPT ![t] = IF sending[t] = {s} THEN <<>> ELSE @]
    /\ shown' = IF s \in active THEN SentTo(s, message[t]) ELSE shown
    /\ serverPc' = IF t = "game" \/ sending[t] # {s} THEN serverPc
                   ELSE IF isRunning THEN "pop" ELSE "ended"
    /\ UNCHANGED <<gameVars, handlerVars, ownerVars, networkVars, sessionVars, serverQueue,
                   handled>>

-----------------------------------------------------------------------------
(* The server thread.                                                      *)

\* The next event is taken; the steps below are what is done with it.
Pop(type) ==
    /\ serverPc = "pop"
    /\ serverQueue # <<>>
    /\ Head(serverQueue).type = type
    /\ serverQueue' = Tail(serverQueue)
    /\ UNCHANGED <<listening, ownerPc, sawGameThread, networkVars>>

\* The loop goes on while the server runs.
Loop == serverPc' = IF isRunning THEN "pop" ELSE "ended"

SeatIsTaken(seat) == \E s \in active : seats[s] = seat

freeSeat ==
    IF ~ SeatIsTaken("Black") THEN "Black"
    ELSE IF ~ SeatIsTaken("White") THEN "White"
    ELSE "Observer"

\* Whether a session with a seat takes part: the game has not begun and nobody
\* plays the colour.
Joins(seat) == isPlayer(seat) /\ ~ gameActive /\ players[seat] = 0

\* What every new session does: it is active and gets its number.  A broadcast
\* of the game thread that runs at this time may meet it or not.
newSession(s, seat) ==
    /\ seats' = [seats EXCEPT ![s] = seat]
    /\ active' = active \cup {s}
    /\ shown' = SentTo(s, ServerSessionAssign(s))
    /\ UNCHANGED <<gameVars, chatHistory, isRunning, handled>>

Met(s) == {sending["game"]} \cup
          (IF sending["game"] = {} THEN {} ELSE {sending["game"] \cup {s}})

\* onClientConnected, when the session does not complete the players.
connect ==
    LET s == Head(serverQueue).session
    IN  /\ Pop("ClientConnected")
        /\ newSession(s, freeSeat)
        /\ players' = IF Joins(freeSeat) THEN [players EXCEPT ![freeSeat] = s] ELSE players
        /\ ~ (Joins(freeSeat) /\ (\A p \in Player : players'[p] # 0) /\ ~ joinable)
        /\ \E sessions \in Met(s) : sending' = [sending EXCEPT !["game"] = sessions]
        /\ Loop
        /\ UNCHANGED <<joinable, message>>

\* A mutation of connectStartsGame: a game is started although there was one.
StartGameAgain ==
    LET s == Head(serverQueue).session
    IN  /\ Pop("ClientConnected")
        /\ newSession(s, freeSeat)
        /\ Joins(freeSeat)
        /\ players' = [players EXCEPT ![freeSeat] = s]
        /\ \A p \in Player : players'[p] # 0
        /\ joinable' = TRUE
        /\ serverPc' = "broadcast"
        /\ message' = [message EXCEPT !["server"] = ServerGameConfig(BoardSize)]
        /\ \E sessions \in Met(s) :
               sending' = [server |-> Sessions \cup {s}, game |-> sessions]

\* onClientConnected, when it does: the game thread is made, and everybody
\* gets the configuration.
connectStartsGame ==
    LET s == Head(serverQueue).session
    IN  /\ Pop("ClientConnected")
        /\ newSession(s, freeSeat)
        /\ Joins(freeSeat)
        /\ players' = [players EXCEPT ![freeSeat] = s]
        /\ \A p \in Player : players'[p] # 0
        /\ ~ joinable
        /\ joinable' = TRUE
        /\ serverPc' = "broadcast"
        /\ message' = [message EXCEPT !["server"] = ServerGameConfig(BoardSize)]
        /\ \E sessions \in Met(s) :
               sending' = [server |-> Sessions \cup {s}, game |-> sessions]

\* onClientDisconnected: the seat is free again, and the session plays no more.
disconnect ==
    LET s == Head(serverQueue).session
    IN  /\ Pop("ClientDisconnected")
        /\ active' = active \ {s}
        /\ players' = [p \in Player |-> IF players[p] = s THEN 0 ELSE players[p]]
        /\ Loop
        /\ UNCHANGED <<gameVars, joinable, chatHistory, isRunning, seats, wireVars, handled>>

\* What the client meant, if it is a player and can be understood.
Intents(e) ==
    IF isPlayer(seats[e.session]) THEN fromClientMessage(e.payload) ELSE {}

\* A mutation of PlayerOf: the colours are swapped.
PlayerSwapped(seat) == IF seat = "Black" THEN "White" ELSE "Black"

PlayerOf(seat) == IF seat = "Black" THEN "Black" ELSE "White"

\* The message does not reach the handler.
dropMessage ==
    /\ Pop("ClientMessage")
    /\ Intents(Head(serverQueue)) = {}
    /\ Loop
    /\ UNCHANGED <<gameVars, handlerVars, isRunning, sessionVars, wireVars, handled>>

\* onNetworkEvent, of the client event c.
Handle(c) ==
    /\ handled' = Append(handled, [session |-> Head(serverQueue).session, event |-> c])
    /\ UNCHANGED <<joinable, players, isRunning, sessionVars, shown>>

\* The event of the game that a client event becomes.
GameEvent(player, c) ==
    CASE c.type = "put"    -> [type |-> "Put", player |-> player, c |-> c.c]
      [] c.type = "pass"   -> [type |-> "Pass", player |-> player]
      [] c.type = "resign" -> [type |-> "Resign"]

handleMove ==
    /\ Pop("ClientMessage")
    /\ gameActive
    /\ \E c \in Intents(Head(serverQueue)) :
           /\ c.type # "chat"
           /\ Handle(c)
           /\ Game!pushEvent(GameEvent(PlayerOf(seats[Head(serverQueue).session]), c))
    /\ Loop
    /\ UNCHANGED <<chatHistory, sending, message>>

\* A move while there is no game is rejected, and nobody is told.
rejectMove ==
    /\ Pop("ClientMessage")
    /\ ~ gameActive
    /\ \E c \in Intents(Head(serverQueue)) : c.type # "chat" /\ Handle(c)
    /\ Loop
    /\ UNCHANGED <<gameVars, chatHistory, sending, message>>

\* The number of a chat message is its place in the history.
handleChat ==
    /\ Pop("ClientMessage")
    /\ \E c \in Intents(Head(serverQueue)) :
           LET player == PlayerOf(seats[Head(serverQueue).session])
           IN  /\ c.type = "chat"
               /\ Handle(c)
               /\ chatHistory' = Append(chatHistory, [player |-> player, message |-> c.message])
               /\ broadcast("server", ServerChat(player, Len(chatHistory) + 1, c.message))
    /\ serverPc' = "broadcast"
    /\ UNCHANGED gameVars

shutdown ==
    /\ Pop("Shutdown")
    /\ isRunning' = FALSE
    /\ serverPc' = "ended"
    /\ UNCHANGED <<gameVars, handlerVars, sessionVars, wireVars, handled>>

ServerThread ==
    \/ connect \/ connectStartsGame \/ disconnect
    \/ dropMessage \/ handleMove \/ rejectMove \/ handleChat \/ shutdown
    \/ \E s \in SessionId : visit("server", s)

-----------------------------------------------------------------------------
(* The game thread.                                                        *)

run ==
    /\ joinable
    /\ Game!run
    /\ UNCHANGED <<handlerVars, ownerVars, networkVars, sessionVars, wireVars, serverQueue,
                   serverPc, handled>>

\* A mutation of DeltaEvent: the moves are counted from zero.
DeltaEventFromZero(delta) ==
    [type |-> "delta", turn |-> delta.moveId - 1, seat |-> delta.player,
     action |-> delta.action, coord |-> delta.coord, captures |-> delta.captures,
     next |-> delta.nextPlayer, status |-> IF delta.gameActive THEN "Active" ELSE "Draw"]

\* onGameDelta: the event for a delta.  A game that is over is a draw.
DeltaEvent(delta) ==
    [type |-> "delta", turn |-> delta.moveId, seat |-> delta.player,
     action |-> delta.action, coord |-> delta.coord, captures |-> delta.captures,
     next |-> delta.nextPlayer, status |-> IF delta.gameActive THEN "Active" ELSE "Draw"]

\* A step of the match; its delta is signalled before the next one.
play ==
    /\ sending["game"] = {}
    /\ Game!GameLoop
    /\ IF deltas' # deltas /\ listening
       THEN broadcast("game", DeltaEvent(deltas'[Len(deltas')]))
       ELSE UNCHANGED <<sending, message>>
    /\ UNCHANGED <<handlerVars, ownerVars, networkVars, sessionVars, shown, serverQueue,
                   serverPc, handled>>

GameThread == run \/ play \/ \E s \in SessionId : visit("game", s)

-----------------------------------------------------------------------------
\* The thread was made after stop had looked for it: nobody ends the game.
LateThread == joinable /\ ~ sawGameThread

\* stop waits for a game that waits for a move, for ever.
stopHangs ==
    /\ ownerPc = "joinGame"
    /\ LateThread
    /\ gameThread = "running" /\ gameActive /\ eventQueue = <<>>
    /\ UNCHANGED vars

Terminated == ownerPc = "done" /\ UNCHANGED vars

Next == start \/ stop \/ Stopping \/ Network \/ ServerThread \/ GameThread
        \/ stopHangs \/ Terminated

\* Fairness is stated of what a step does first: the thread takes an event or
\* visits a session.  No other thread does that, and whenever it is possible the
\* thread has a step that does it.
TakesEvent == serverPc = "pop" /\ serverQueue # <<>> /\ serverQueue' = Tail(serverQueue)

VisitsSession(t) == \E s \in sending[t] : sending' = [sending EXCEPT ![t] = @ \ {s}]

Plays == (joinable /\ Game!run) \/ (sending["game"] = {} /\ Game!GameLoop)

\* The threads run, and the owner goes through stop once it has begun.
Spec ==
    /\ Init /\ [][Next]_vars
    /\ WF_ownerPc(Stopping)
    /\ WF_serverQueue(TakesEvent)
    /\ WF_gameVars(Plays)
    /\ \A t \in Thread : WF_sending(VisitsSession(t))

-----------------------------------------------------------------------------
(* Properties.                                                             *)

\* The move e shows the delta.
Shows(e, delta) ==
    /\ e.turn = delta.moveId /\ e.action = delta.action
    /\ e.seat = delta.player /\ e.next = delta.nextPlayer
    /\ e.coord = delta.coord /\ e.captures = delta.captures
    /\ e.status = "Active" <=> delta.gameActive

\* What a client shows of the game is how the game went, and a client that is
\* connected and got the configuration has seen every move that was signalled
\* and is not on its way: no client starts in the middle of a game.  What it
\* shows of the chat is how the chat began.
ClientsShowGame ==
    \A s \in SessionId :
        LET position == shown[s].position
            history  == shown[s].chat.history
        IN  /\ Len(position.moves) <= Len(deltas)
            /\ \A i \in 1 .. Len(position.moves) : Shows(position.moves[i].event, deltas[i])
            /\ position.boardOf # 0 /\ s \in open /\ s \notin sending["game"]
                   => Len(position.moves) = Len(deltas)
            /\ Len(history) <= Len(chatHistory)
            /\ \A i \in 1 .. Len(history) :
                   /\ history[i].player = chatHistory[i].player
                   /\ history[i].message = chatHistory[i].message

\* A call of the handler that can have led to a delta: a stone or a pass of the
\* player's own seat, or a resignation of somebody.
LedTo(call, delta) ==
    CASE delta.action = "Place"  -> /\ call.event.type = "put"
                                    /\ delta.coord = {call.event.c}
                                    /\ seats[call.session] = delta.player
      [] delta.action = "Pass"   -> /\ call.event.type = "pass"
                                    /\ seats[call.session] = delta.player
      [] delta.action = "Resign" -> call.event.type = "resign"

\* Every move of the game was sent by a client with the seat of its player,
\* each by a message of its own, and they are in the order of the messages.
MovesComeFromTheirSeat ==
    \E cause \in [1 .. Len(deltas) -> 1 .. Len(handled)] :
        /\ \A i \in 1 .. Len(deltas) : LedTo(handled[cause[i]], deltas[i])
        /\ \A i, j \in 1 .. Len(deltas) : i < j => cause[i] < cause[j]

\* The owner is not in stop for ever, whatever the clients and the game do,
\* unless the game thread was made after stop had looked for it.
StopReturns == []<>(ownerPc \in {"start", "stop", "done"} \/ LateThread)
=============================================================================
