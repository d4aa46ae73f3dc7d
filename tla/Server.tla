-------------------------------- MODULE Server --------------------------------
(***************************************************************************)
(* network::Server and its SessionManager.  The io thread of TcpServer     *)
(* turns connections into queue events; the server thread pops them, keeps *)
(* the sessions and calls the handler; the game thread broadcasts; the     *)
(* owner starts and stops the server.                                      *)
(*                                                                         *)
(* The transport is what the callbacks of TcpServer promise: a connection  *)
(* is announced, then its messages, then its end.  The calls of the        *)
(* handler and the messages sent are kept as histories: they are what the  *)
(* game and the clients see of this component.                             *)
(*                                                                         *)
(* Pop never throws here (stop pushes an event before it releases the      *)
(* queue), so the release is left out; so are remove and the branch of add *)
(* for a known connection, which nothing reaches: CONN_ID repeats no       *)
(* number.                                                                 *)
(***************************************************************************)
EXTENDS Integers, FiniteSets, Sequences

CONSTANTS
    Payload,            \* What a client may send.
    ClientEvent,        \* The payloads that fromClientMessage accepts.
    MaxSessionId,       \* The largest SessionId, after which the counter is 0.
    FirstSessionId,     \* Where earlier servers of the process left nextSessionId.
    MaxConnections,     \* Bound: connections accepted.
    MaxReceived,        \* Bound: messages received from all connections.
    MaxBroadcasts       \* Bound: broadcasts.

ASSUME ServerAssumption ==
    /\ ClientEvent \subseteq Payload
    /\ MaxSessionId \in Nat \ {0}
    /\ FirstSessionId \in 1 .. MaxSessionId
    /\ MaxConnections \in 1 .. MaxSessionId
    /\ MaxReceived \in Nat
    /\ MaxBroadcasts \in Nat

VARIABLES
    isRunning,              \* m_isRunning
    ownerPc,                \* The owner: before start, before stop, in stop.
    networkRunning,         \* m_running of TcpServer
    connections,            \* m_connections of TcpServer: the open connections.
    nextConnection,         \* CONN_ID
    received,               \* What was received on each connection.
    eventQueue,             \* m_eventQueue
    serverPc,               \* The server thread.
    connecting,             \* The session being set up, 0 for none.
    sessions,               \* m_sessions: a context for each session.
    connectionToSession,    \* m_connectionToSession
    nextSessionId,          \* nextSessionId
    broadcastNumber,        \* Broadcasts begun, which number their messages.
    unvisited,              \* Sessions the broadcast in progress has to visit.
    broadcasting,           \* A broadcast is in progress.
    outbox,                 \* What was sent on each connection.
    calls                   \* The calls of the handler.

ownerVars     == <<isRunning, ownerPc>>
networkVars   == <<networkRunning, connections, nextConnection, received>>
sessionVars   == <<connecting, sessions, connectionToSession, nextSessionId>>
broadcastVars == <<broadcastNumber, unvisited, broadcasting>>

vars == <<ownerVars, networkVars, eventQueue, serverPc, sessionVars,
          broadcastVars, outbox, calls>>

-----------------------------------------------------------------------------
ConnectionId == 1 .. MaxConnections

SessionId == 1 .. MaxSessionId

PlayerSeat == {"Black", "White"}

Seat == PlayerSeat \cup {"None", "Observer"}

isPlayer(seat) == seat \in PlayerSeat

SessionContext == [connectionId : ConnectionId, seat : Seat, isActive : BOOLEAN]

QueueEvent == [type : {"ClientConnected", "ClientDisconnected"}, connection : ConnectionId]
              \cup [type : {"ClientMessage"}, connection : ConnectionId, payload : Payload]
              \cup [type : {"Shutdown"}]

ServerMessage == [type : {"session"}, session : SessionId]
                 \cup [type : {"broadcast"}, number : 1 .. MaxBroadcasts]

HandlerCall == [call : {"onClientConnected"}, session : SessionId, seat : Seat]
               \cup [call : {"onNetworkEvent"}, session : SessionId, event : ClientEvent]
               \cup [call : {"onClientDisconnected"}, session : SessionId]

TypeOK ==
    /\ isRunning \in BOOLEAN
    /\ ownerPc \in {"start", "stop", "push", "network", "join", "done"}
    /\ networkRunning \in BOOLEAN
    /\ connections \subseteq ConnectionId
    /\ nextConnection \in 1 .. MaxConnections + 1
    /\ received \in [ConnectionId -> Seq(Payload)]
    /\ eventQueue \in Seq(QueueEvent)
    /\ serverPc \in {"none", "loop", "pop", "seat", "assign", "ended"}
    /\ connecting \in {0} \cup SessionId
    /\ DOMAIN sessions \subseteq SessionId
    /\ \A s \in DOMAIN sessions : sessions[s] \in SessionContext
    /\ DOMAIN connectionToSession \subseteq ConnectionId
    /\ \A c \in DOMAIN connectionToSession : connectionToSession[c] \in SessionId
    /\ nextSessionId \in SessionId
    /\ broadcastNumber \in 0 .. MaxBroadcasts
    /\ unvisited \subseteq SessionId
    /\ broadcasting \in BOOLEAN
    /\ outbox \in [ConnectionId -> Seq(ServerMessage)]
    /\ calls \in Seq(HandlerCall)

Init ==
    /\ isRunning = FALSE
    /\ ownerPc = "start"
    /\ networkRunning = FALSE
    /\ connections = {}
    /\ nextConnection = 1
    /\ received = [c \in ConnectionId |-> <<>>]
    /\ eventQueue = <<>>
    /\ serverPc = "none"
    /\ connecting = 0
    /\ sessions = << >>
    /\ connectionToSession = << >>
    /\ nextSessionId = FirstSessionId
    /\ broadcastNumber = 0
    /\ unvisited = {}
    /\ broadcasting = FALSE
    /\ outbox = [c \in ConnectionId |-> <<>>]
    /\ calls = <<>>

-----------------------------------------------------------------------------
(* The owner.                                                              *)

\* The network does not run when the port could not be bound.
start ==
    /\ ownerPc = "start"
    /\ ownerPc' = "stop"
    /\ isRunning' = TRUE
    /\ networkRunning' \in BOOLEAN
    /\ serverPc' = "loop"
    /\ UNCHANGED <<connections, nextConnection, received, eventQueue,
                   sessionVars, broadcastVars, outbox, calls>>

\* stop, called with the server running or never started.
stop ==
    /\ ownerPc \in {"start", "stop"}
    /\ ownerPc' = IF isRunning THEN "push" ELSE "network"
    /\ isRunning' = FALSE
    /\ UNCHANGED <<networkVars, eventQueue, serverPc, sessionVars,
                   broadcastVars, outbox, calls>>

\* A mutation of stopPushesShutdown: nothing wakes the server thread.
StopWithoutShutdown ==
    /\ ownerPc = "push"
    /\ ownerPc' = "network"
    /\ UNCHANGED <<isRunning, networkVars, eventQueue, serverPc, sessionVars,
                   broadcastVars, outbox, calls>>

stopPushesShutdown ==
    /\ ownerPc = "push"
    /\ ownerPc' = "network"
    /\ eventQueue' = Append(eventQueue, [type |-> "Shutdown"])
    /\ UNCHANGED <<isRunning, networkVars, serverPc, sessionVars,
                   broadcastVars, outbox, calls>>

\* A mutation of stopNetwork: the connections stay open.
StopKeepsConnections ==
    /\ ownerPc = "network"
    /\ ownerPc' = "join"
    /\ networkRunning' = FALSE
    /\ UNCHANGED <<isRunning, connections, nextConnection, received, eventQueue, serverPc,
                   sessionVars, broadcastVars, outbox, calls>>

\* TcpServer::stop: the connections are closed, without a callback, and the io
\* thread is joined.  What a callback still pushes is behind the shutdown.
stopNetwork ==
    /\ ownerPc = "network"
    /\ ownerPc' = "join"
    /\ networkRunning' = FALSE
    /\ connections' = {}
    /\ UNCHANGED <<isRunning, nextConnection, received, eventQueue, serverPc,
                   sessionVars, broadcastVars, outbox, calls>>

\* A mutation of joinThread: stop does not wait for the server thread.
DetachThread ==
    /\ ownerPc = "join"
    /\ ownerPc' = "done"
    /\ UNCHANGED <<isRunning, networkVars, eventQueue, serverPc, sessionVars,
                   broadcastVars, outbox, calls>>

joinThread ==
    /\ ownerPc = "join"
    /\ serverPc \in {"none", "ended"}
    /\ ownerPc' = "done"
    /\ UNCHANGED <<isRunning, networkVars, eventQueue, serverPc, sessionVars,
                   broadcastVars, outbox, calls>>

Owner == stop \/ stopPushesShutdown \/ stopNetwork \/ joinThread

-----------------------------------------------------------------------------
(* The io thread.                                                          *)

\* doAccept: the connection is in the map before its callback.
accept ==
    /\ networkRunning
    /\ nextConnection <= MaxConnections
    /\ connections' = connections \cup {nextConnection}
    /\ nextConnection' = nextConnection + 1
    /\ eventQueue' = Append(eventQueue,
           [type |-> "ClientConnected", connection |-> nextConnection])
    /\ UNCHANGED <<ownerVars, networkRunning, received, serverPc, sessionVars,
                   broadcastVars, outbox, calls>>

onClientMessage(c, payload) ==
    /\ c \in connections
    /\ Cardinality(UNION {{k} \X (1 .. Len(received[k])) : k \in ConnectionId}) < MaxReceived
    /\ received' = [received EXCEPT ![c] = Append(@, payload)]
    /\ eventQueue' = Append(eventQueue,
           [type |-> "ClientMessage", connection |-> c, payload |-> payload])
    /\ UNCHANGED <<ownerVars, networkRunning, connections, nextConnection, serverPc,
                   sessionVars, broadcastVars, outbox, calls>>

\* A mutation of onClientDisconnected: it is reported by the read and by the
\* write that failed.
DisconnectReportedTwice(c) ==
    LET event == [type |-> "ClientDisconnected", connection |-> c]
    IN  /\ c \in connections
        /\ connections' = connections \ {c}
        /\ eventQueue' = eventQueue \o <<event, event>>
        /\ UNCHANGED <<ownerVars, networkRunning, nextConnection, received, serverPc,
                       sessionVars, broadcastVars, outbox, calls>>

\* The client is gone, or a read or write failed: doDisconnect.
onClientDisconnected(c) ==
    /\ c \in connections
    /\ connections' = connections \ {c}
    /\ eventQueue' = Append(eventQueue,
           [type |-> "ClientDisconnected", connection |-> c])
    /\ UNCHANGED <<ownerVars, networkRunning, nextConnection, received, serverPc,
                   sessionVars, broadcastVars, outbox, calls>>

Network ==
    \/ accept
    \/ \E c \in ConnectionId :
           onClientDisconnected(c) \/ \E payload \in Payload : onClientMessage(c, payload)

-----------------------------------------------------------------------------
(* The sessions.                                                           *)

getSessionId(c) ==
    IF c \in DOMAIN connectionToSession THEN connectionToSession[c] ELSE 0

getSeat(s) == IF s \in DOMAIN sessions THEN sessions[s].seat ELSE "None"

\* The connections of the active sessions with a seat; one at most.
getConnectionIdBySeat(seat) ==
    {sessions[s].connectionId : s \in {t \in DOMAIN sessions :
        sessions[t].isActive /\ sessions[t].seat = seat}}

\* A mutation of freeSeat: Black is free whenever White is.
FreeSeatByWhite ==
    IF getConnectionIdBySeat("White") = {} THEN "Black"
    ELSE IF getConnectionIdBySeat("Black") = {} THEN "White"
    ELSE "Observer"

freeSeat ==
    IF getConnectionIdBySeat("Black") = {} THEN "Black"
    ELSE IF getConnectionIdBySeat("White") = {} THEN "White"
    ELSE "Observer"

\* A mutation of After: the counter runs to zero.
AfterToZero(s) == IF s = MaxSessionId THEN 0 ELSE s + 1

\* The counter after s: it wraps around and skips zero.
After(s) == IF s = MaxSessionId THEN 1 ELSE s + 1

\* The first number from nextSessionId on, around the end, that is not in use.
generateSessionId ==
    LET distance(s) == IF s >= nextSessionId THEN s - nextSessionId
                       ELSE s + MaxSessionId - nextSessionId
        free == SessionId \ DOMAIN sessions
    IN  CHOOSE s \in free : \A t \in free : distance(s) <= distance(t)

\* A map of the code with one more entry.
With(f, x, value) == [y \in DOMAIN f \cup {x} |-> IF y = x THEN value ELSE f[y]]

NewContext(c) == [connectionId |-> c, seat |-> "None", isActive |-> TRUE]

\* Whether a message for the session s would be put on its connection.
Reachable(s) == s \in DOMAIN sessions /\ sessions[s].connectionId \in connections

\* The outbox after sending a message to the session s, if that succeeds.
Sent(s, message) ==
    IF Reachable(s)
    THEN [outbox EXCEPT ![sessions[s].connectionId] = Append(@, message)]
    ELSE outbox

-----------------------------------------------------------------------------
(* The server thread.                                                      *)

\* The condition of the while loop: the thread goes on to Pop, or it ends and
\* what is still in the queue is dropped.  It is evaluated in the step that
\* finishes an event.
WhileRunning == serverPc' = IF isRunning THEN "pop" ELSE "ended"

enterLoop ==
    /\ serverPc = "loop"
    /\ WhileRunning
    /\ UNCHANGED <<ownerVars, networkVars, eventQueue, sessionVars, broadcastVars,
                   outbox, calls>>

\* A mutation of Pop: a message stays at the front of the queue.
PopLeavesMessage(type) ==
    /\ serverPc = "pop"
    /\ eventQueue # <<>>
    /\ Head(eventQueue).type = type
    /\ eventQueue' = IF type = "ClientMessage" THEN eventQueue ELSE Tail(eventQueue)
    /\ UNCHANGED <<ownerVars, networkVars, broadcastVars>>

\* The next event is taken from the queue and processed.
Pop(type) ==
    /\ serverPc = "pop"
    /\ eventQueue # <<>>
    /\ Head(eventQueue).type = type
    /\ eventQueue' = Tail(eventQueue)
    /\ UNCHANGED <<ownerVars, networkVars, broadcastVars>>

\* A mutation of add: the connection gets the number after its session.
AddNextNumber(c, s) ==
    /\ sessions' = With(sessions, s, NewContext(c))
    /\ connectionToSession' = With(connectionToSession, c, After(s))

add(c, s) ==
    /\ sessions' = With(sessions, s, NewContext(c))
    /\ connectionToSession' = With(connectionToSession, c, s)

\* processClientConnect, in the three steps another thread can see.
connectAdd ==
    /\ Pop("ClientConnected")
    /\ add(Head(eventQueue).connection, generateSessionId)
    /\ nextSessionId' = After(generateSessionId)
    /\ connecting' = generateSessionId
    /\ serverPc' = "seat"
    /\ UNCHANGED <<outbox, calls>>

connectSeat ==
    /\ serverPc = "seat"
    /\ sessions' = [sessions EXCEPT ![connecting].seat = freeSeat]
    /\ serverPc' = "assign"
    /\ UNCHANGED <<ownerVars, networkVars, eventQueue, connecting, connectionToSession,
                   nextSessionId, broadcastVars, outbox, calls>>

\* A mutation of connectAssign: the number is sent until it can be.
AssignUntilSent ==
    /\ serverPc = "assign"
    /\ Reachable(connecting)
    /\ outbox' = Sent(connecting, [type |-> "session", session |-> connecting])
    /\ calls' = Append(calls, [call |-> "onClientConnected", session |-> connecting,
                               seat |-> getSeat(connecting)])
    /\ connecting' = 0
    /\ WhileRunning
    /\ UNCHANGED <<ownerVars, networkVars, eventQueue, sessions, connectionToSession,
                   nextSessionId, broadcastVars>>

\* The client is sent its number, which fails when it is gone already, and the
\* handler is called.
connectAssign ==
    /\ serverPc = "assign"
    /\ outbox' = Sent(connecting, [type |-> "session", session |-> connecting])
    /\ calls' = Append(calls, [call |-> "onClientConnected", session |-> connecting,
                               seat |-> getSeat(connecting)])
    /\ connecting' = 0
    /\ WhileRunning
    /\ UNCHANGED <<ownerVars, networkVars, eventQueue, sessions, connectionToSession,
                   nextSessionId, broadcastVars>>

\* processClientMessage: a player's event goes to the handler.
Forwarded(event) ==
    /\ isPlayer(getSeat(getSessionId(event.connection)))
    /\ event.payload \in ClientEvent

forwardMessage ==
    LET event == Head(eventQueue)
    IN  /\ Pop("ClientMessage")
        /\ Forwarded(event)
        /\ calls' = Append(calls, [call |-> "onNetworkEvent",
                                   session |-> getSessionId(event.connection),
                                   event |-> event.payload])
        /\ WhileRunning
        /\ UNCHANGED <<sessionVars, outbox>>

dropMessage ==
    /\ Pop("ClientMessage")
    /\ ~ Forwarded(Head(eventQueue))
    /\ WhileRunning
    /\ UNCHANGED <<sessionVars, outbox, calls>>

\* processClientDisconnect: the session keeps its seat and is not active.
disconnect ==
    LET s == getSessionId(Head(eventQueue).connection)
    IN  /\ Pop("ClientDisconnected")
        /\ sessions' = [sessions EXCEPT ![s].isActive = FALSE]
        /\ calls' = IF isPlayer(getSeat(s))
                    THEN Append(calls, [call |-> "onClientDisconnected", session |-> s])
                    ELSE calls
        /\ WhileRunning
        /\ UNCHANGED <<connecting, connectionToSession, nextSessionId, outbox>>

\* processShutdown: stop has set m_isRunning to false before it pushes.
shutdown ==
    /\ serverPc = "pop"
    /\ eventQueue # <<>>
    /\ Head(eventQueue).type = "Shutdown"
    /\ eventQueue' = Tail(eventQueue)
    /\ isRunning' = FALSE
    /\ serverPc' = "ended"
    /\ UNCHANGED <<ownerPc, networkVars, sessionVars, broadcastVars, outbox, calls>>

ServerLoop ==
    \/ enterLoop
    \/ connectAdd \/ connectSeat \/ connectAssign
    \/ forwardMessage \/ dropMessage \/ disconnect \/ shutdown

-----------------------------------------------------------------------------
(* The game thread, which broadcasts while the server thread goes on.  It  *)
(* visits the sessions in the order of the hash table: any order.  One     *)
(* added meanwhile may be visited or not.                                  *)

broadcast ==
    /\ ~ broadcasting
    /\ broadcastNumber < MaxBroadcasts
    /\ broadcasting' = TRUE
    /\ broadcastNumber' = broadcastNumber + 1
    /\ unvisited' = DOMAIN sessions
    /\ UNCHANGED <<ownerVars, networkVars, eventQueue, serverPc, sessionVars, outbox, calls>>

meetNewSession ==
    /\ broadcasting
    /\ serverPc = "seat"
    /\ connecting \notin unvisited
    /\ unvisited' = unvisited \cup {connecting}
    /\ UNCHANGED <<ownerVars, networkVars, eventQueue, serverPc, sessionVars,
                   broadcastNumber, broadcasting, outbox, calls>>

visitSession(s) ==
    /\ broadcasting
    /\ s \in unvisited
    /\ unvisited' = unvisited \ {s}
    /\ outbox' = IF sessions[s].isActive /\ sessions[s].seat # "None"
                 THEN Sent(s, [type |-> "broadcast", number |-> broadcastNumber])
                 ELSE outbox
    /\ UNCHANGED <<ownerVars, networkVars, eventQueue, serverPc, sessionVars,
                   broadcastNumber, broadcasting, calls>>

\* A mutation of endBroadcast: the loop ends at the first session.
EndBroadcastEarly ==
    /\ broadcasting
    /\ broadcasting' = FALSE
    /\ unvisited' = {}
    /\ UNCHANGED <<ownerVars, networkVars, eventQueue, serverPc, sessionVars,
                   broadcastNumber, outbox, calls>>

endBroadcast ==
    /\ broadcasting
    /\ unvisited = {}
    /\ broadcasting' = FALSE
    /\ UNCHANGED <<ownerVars, networkVars, eventQueue, serverPc, sessionVars,
                   broadcastNumber, unvisited, outbox, calls>>

Broadcast ==
    \/ broadcast \/ meetNewSession \/ endBroadcast
    \/ \E s \in SessionId : visitSession(s)

-----------------------------------------------------------------------------
\* stop has returned: the one state in which nothing needs to happen.
Terminated == ownerPc = "done" /\ UNCHANGED vars

Next == start \/ Owner \/ Network \/ ServerLoop \/ Broadcast \/ Terminated

\* Every thread that can go on is scheduled; the owner need not call stop, and
\* clients and io do what they like.
Spec ==
    /\ Init /\ [][Next]_vars
    /\ WF_vars(ServerLoop)
    /\ WF_vars(ownerPc \notin {"start", "stop"} /\ Owner)

-----------------------------------------------------------------------------
(* Properties.                                                             *)

\* A player's seat is given away only when the connection of the session that
\* had it is closed: two open connections never play the same colour.
SeatHasOneOpenConnection ==
    \A s, t \in DOMAIN sessions :
        /\ Reachable(s) /\ Reachable(t)
        /\ isPlayer(sessions[s].seat) /\ sessions[s].seat = sessions[t].seat
        => s = t

\* The two maps of the session manager are inverse to each other, and a client
\* is told the number of its own session, once.
SessionsMatchConnections ==
    /\ \A c \in DOMAIN connectionToSession :
           /\ connectionToSession[c] \in DOMAIN sessions
           /\ sessions[connectionToSession[c]].connectionId = c
    /\ \A s \in DOMAIN sessions :
           /\ sessions[s].connectionId \in DOMAIN connectionToSession
           /\ connectionToSession[sessions[s].connectionId] = s
    /\ \A c \in ConnectionId : \A i, j \in 1 .. Len(outbox[c]) :
           outbox[c][i].type = "session" =>
               /\ c \in DOMAIN connectionToSession
               /\ outbox[c][i].session = connectionToSession[c]
               /\ outbox[c][j].type = "session" => i = j

\* The handler hears of a session first that it connected, once, and of its end
\* last, once: no event of a session comes before the one or after the other.
CallsInOrder ==
    \A i \in 1 .. Len(calls) :
        /\ calls[i].call # "onClientConnected" =>
               \E j \in 1 .. i - 1 : /\ calls[j].session = calls[i].session
                                    /\ calls[j].call = "onClientConnected"
        /\ \A j \in 1 .. i - 1 : calls[j].session = calls[i].session =>
               /\ calls[i].call # "onClientConnected"
               /\ calls[j].call # "onClientDisconnected"

\* The events among what the connection c sent, and those of the session s
\* among the calls.
Came(c) == {i \in 1 .. Len(received[c]) : received[c][i] \in ClientEvent}
Handled(s) == {j \in 1 .. Len(calls) :
                   calls[j].session = s /\ calls[j].call = "onNetworkEvent"}

\* The events of a player's connection that can be parsed reach the handler in
\* the order they came, none lost before the last one and none twice: each has
\* one cause, later for a later one.  Those of an observer never do.
EventsInOrder ==
    \A c \in DOMAIN connectionToSession :
        LET s == connectionToSession[c]
        IN  \E cause \in [Handled(s) -> Came(c)] :
                /\ \A j \in Handled(s) : calls[j].event = received[c][cause[j]]
                /\ \A j, k \in Handled(s) : j < k => cause[j] < cause[k]
                /\ Handled(s) # {} => isPlayer(sessions[s].seat)
                /\ \A j \in Handled(s), i \in Came(c) :
                       i < cause[j] => \E k \in Handled(s) : cause[k] = i

\* Where the broadcasts are among what was sent on the connection c.
Heard(c) == {i \in 1 .. Len(outbox[c]) : outbox[c][i].type = "broadcast"}

\* From the first broadcast a client is sent on it is sent every one, in order,
\* until its connection closes: none is missing between two, and when no
\* broadcast is under way an open connection has got the last one.  A client
\* that applies numbered updates in order depends on it.
BroadcastsWithoutGap ==
    \A c \in ConnectionId : \A i \in Heard(c) :
        /\ \A j \in Heard(c) : i < j /\ Heard(c) \cap (i + 1 .. j - 1) = {}
               => outbox[c][j].number = outbox[c][i].number + 1
        /\ c \in connections /\ ~ broadcasting /\ (\A j \in Heard(c) : j <= i)
               => outbox[c][i].number = broadcastNumber

\* When stop has returned the handler is not called any more, no session changes
\* and nothing is sent, although the game thread may go on broadcasting: the
\* owner may destroy the handler.
QuietAfterStop == [][ownerPc = "done" => UNCHANGED <<calls, sessions, outbox>>]_vars

\* stop returns, with clients that go on connecting, sending and leaving until
\* the network is stopped, and with their events queued before and behind the
\* shutdown.
StopReturns == ownerPc = "push" ~> ownerPc = "done"

\* A client whose connection was accepted gets a session, unless the server is
\* stopped first.
ClientGetsSession ==
    \A c \in ConnectionId :
        c \in connections ~> c \in DOMAIN connectionToSession \/ ~ isRunning
=============================================================================
