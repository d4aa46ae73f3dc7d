----------------------------- MODULE ServerProofs -----------------------------
(***************************************************************************)
(* The session server, for every number of connections, messages and       *)
(* broadcasts: the types, the seats, the two maps of the session manager,  *)
(* the order of the calls and of the events, the broadcasts, and that a    *)
(* stopped server is quiet.                                                *)
(*                                                                         *)
(* The server thread learns of a connection from the queue, later than the *)
(* transport; what it knows agrees with the transport once the events that *)
(* wait in the queue are counted.  The invariant says so, part by part:    *)
(*   - the queue holds the events of a connection from its first to its    *)
(*     last (QueueInOrder), and a connection has a session once its first  *)
(*     event was taken (Known), an active one until its last was           *)
(*     (ActiveWhileOpen);                                                  *)
(*   - the messages of a connection wait in the queue from some number on, *)
(*     and the events among those before it were handled (Delivered);      *)
(*   - a client that is still connected was sent the last broadcast, or it *)
(*     is yet to be visited and was sent the one before                    *)
(*     (BroadcastsCounted).                                                *)
(* The queue, the calls and the boxes are sequences that grow at their end *)
(* and shrink at their front: each part says where an element was before   *)
(* the step, and no induction on a sequence is needed.                     *)
(***************************************************************************)
EXTENDS Server, FiniteSetTheorems, SequenceTheorems, WellFoundedInduction, TLAPS

\* The event e is one of the connection c.
Of(e, c) == e.type # "Shutdown" /\ e.connection = c

\* The owner starts the server thread once and waits for its end, with the
\* network closed.  The thread sets up a session only between connectAdd and
\* connectAssign.
Phases ==
    /\ ownerPc = "start" => serverPc = "none"
    /\ ownerPc = "done" => serverPc \in {"none", "ended"}
    /\ ownerPc \in {"join", "done"} => ~ networkRunning /\ connections = {}
    /\ IF serverPc \in {"seat", "assign"} THEN connecting \in DOMAIN sessions ELSE connecting = 0
    /\ serverPc = "seat" => sessions[connecting].seat = "None"

\* The events of a connection are queued as the transport calls back.
QueueInOrder ==
    /\ \A c \in connections : c < nextConnection
    /\ \A i \in 1 .. Len(eventQueue) :
           /\ eventQueue[i].type # "Shutdown" => eventQueue[i].connection < nextConnection
           /\ eventQueue[i].type = "ClientDisconnected" => eventQueue[i].connection \notin connections
    /\ \A i, j \in 1 .. Len(eventQueue) :
           /\ i < j
           /\ eventQueue[i].type # "Shutdown" /\ eventQueue[j].type # "Shutdown"
           /\ eventQueue[i].connection = eventQueue[j].connection
           => /\ eventQueue[i].type # "ClientDisconnected"
              /\ eventQueue[j].type # "ClientConnected"

\* A connection is known from the time its first event was processed.
Known ==
    \A c \in ConnectionId :
        /\ c \in DOMAIN connectionToSession => c < nextConnection
        /\ c < nextConnection =>
               (c \notin DOMAIN connectionToSession
                    <=> \E i \in 1 .. Len(eventQueue) :
                            eventQueue[i] = [type |-> "ClientConnected", connection |-> c])

\* The two maps are inverse to each other.
InverseMaps ==
    /\ \A c \in DOMAIN connectionToSession :
           /\ connectionToSession[c] \in DOMAIN sessions
           /\ sessions[connectionToSession[c]].connectionId = c
    /\ \A s \in DOMAIN sessions :
           /\ sessions[s].connectionId \in DOMAIN connectionToSession
           /\ connectionToSession[sessions[s].connectionId] = s

\* A session is active until the last event of its connection was processed.
ActiveWhileOpen ==
    \A s \in DOMAIN sessions : ~ sessions[s].isActive =>
        /\ sessions[s].connectionId \notin connections
        /\ \A i \in 1 .. Len(eventQueue) : ~ Of(eventQueue[i], sessions[s].connectionId)

\* One active session for each colour.
SeatHasOneActive ==
    \A s, t \in DOMAIN sessions :
        /\ sessions[s].isActive /\ sessions[t].isActive
        /\ isPlayer(sessions[s].seat) /\ sessions[s].seat = sessions[t].seat
        => s = t

\* A client is told the number of its session when the session is set up.
ToldOnce ==
    \A c \in ConnectionId : \A i \in 1 .. Len(outbox[c]) : outbox[c][i].type = "session" =>
        /\ c \in DOMAIN connectionToSession
        /\ outbox[c][i].session = connectionToSession[c]
        /\ connectionToSession[c] # connecting
        /\ \A j \in 1 .. Len(outbox[c]) : outbox[c][j].type = "session" => i = j

\* The handler knows the sessions that are set up, and the end of no active one.
HandlerKnows ==
    /\ \A i \in 1 .. Len(calls) :
           /\ calls[i].session \in DOMAIN sessions \ {connecting}
           /\ calls[i].call = "onClientDisconnected" => ~ sessions[calls[i].session].isActive
    /\ \A s \in DOMAIN sessions \ {connecting} : \E i \in 1 .. Len(calls) :
           calls[i].session = s /\ calls[i].call = "onClientConnected"

\* A session that still gets broadcasts got the last one, or it got the one
\* before and is visited yet.
BroadcastsCounted ==
    /\ unvisited \subseteq DOMAIN sessions
    /\ unvisited # {} => broadcasting
    /\ broadcasting => broadcastNumber > 0
    /\ \A c \in ConnectionId : \A i \in 1 .. Len(outbox[c]) : outbox[c][i].type = "broadcast" =>
           /\ c \in DOMAIN connectionToSession
           /\ sessions[connectionToSession[c]].seat # "None"
           /\ c \in connections /\ (\A j \in i + 1 .. Len(outbox[c]) : outbox[c][j].type # "broadcast")
              => outbox[c][i].number = IF connectionToSession[c] \in unvisited
                                       THEN broadcastNumber - 1 ELSE broadcastNumber

\* Between two broadcasts that a client was sent none is missing.
NoneMissing ==
    \A c \in ConnectionId : \A i, j \in 1 .. Len(outbox[c]) :
        /\ i < j
        /\ outbox[c][i].type = "broadcast" /\ outbox[c][j].type = "broadcast"
        /\ \A k \in i + 1 .. j - 1 : outbox[c][k].type # "broadcast"
        => outbox[c][j].number = outbox[c][i].number + 1

\* Where the messages of c are in the queue.
Waiting(c) == {i \in 1 .. Len(eventQueue) :
                   eventQueue[i].type = "ClientMessage" /\ eventQueue[i].connection = c}

\* The messages of c after the first n wait in the queue, in their order.
Waits(c, n) ==
    \E place \in [Waiting(c) -> n + 1 .. Len(received[c])] :
        /\ \A i \in Waiting(c) : eventQueue[i].payload = received[c][place[i]]
        /\ \A i, j \in Waiting(c) : i < j => place[i] < place[j]
        /\ \A k \in n + 1 .. Len(received[c]) : \E i \in Waiting(c) : place[i] = k

\* The events among the first n messages of c were handled, in their order.
Done(c, n) ==
    LET s == connectionToSession[c]
    IN  \E cause \in [Handled(s) -> Came(c)] :
            /\ \A j \in Handled(s) : calls[j].event = received[c][cause[j]] /\ cause[j] <= n
            /\ \A j, k \in Handled(s) : j < k => cause[j] < cause[k]
            /\ Handled(s) # {} => isPlayer(sessions[s].seat)
            /\ isPlayer(sessions[s].seat) =>
                   \A i \in Came(c) : i <= n => \E j \in Handled(s) : cause[j] = i

\* What became of the messages of c when n were taken from the queue: none
\* before its session is set up.
Progress(c, n) ==
    /\ Waits(c, n)
    /\ c \notin DOMAIN connectionToSession => n = 0
    /\ c \in DOMAIN connectionToSession =>
           /\ connectionToSession[c] = connecting => n = 0
           /\ Done(c, n)

Delivered == \A c \in ConnectionId : \E n \in 0 .. Len(received[c]) : Progress(c, n)

IInv ==
    /\ TypeOK /\ Phases /\ QueueInOrder /\ Known /\ InverseMaps /\ ActiveWhileOpen
    /\ SeatHasOneActive /\ ToldOnce /\ HandlerKnows /\ CallsInOrder
    /\ BroadcastsCounted /\ NoneMissing /\ Delivered

-----------------------------------------------------------------------------
(* Helpers.                                                                *)

\* What an event of the queue is, by its type.
LEMMA EventShape ==
    ASSUME NEW e \in QueueEvent
    PROVE  /\ e.type \in {"ClientConnected", "ClientDisconnected", "ClientMessage", "Shutdown"}
           /\ e.type # "Shutdown" => e.connection \in ConnectionId
           /\ e.type = "ClientMessage" => e.payload \in Payload
           /\ e.type = "ClientConnected"
                  => e = [type |-> "ClientConnected", connection |-> e.connection]
BY DEF QueueEvent

\* The queue as numbers and events.
LEMMA QueueTypes ==
    ASSUME TypeOK
    PROVE  /\ Len(eventQueue) \in Nat
           /\ \A i \in 1 .. Len(eventQueue) : eventQueue[i] \in QueueEvent
  <1>1. eventQueue \in Seq(QueueEvent)
    BY DEF TypeOK
  <1>2. QED
    BY <1>1, LenProperties, ElementOfSeq

\* What the first event is, and where the others are when it is taken.
LEMMA TailFacts ==
    ASSUME TypeOK, eventQueue # <<>>, eventQueue' = Tail(eventQueue)
    PROVE  /\ 1 \in 1 .. Len(eventQueue)
           /\ Head(eventQueue) = eventQueue[1] /\ Head(eventQueue) \in QueueEvent
           /\ eventQueue' \in Seq(QueueEvent)
           /\ Len(eventQueue') = Len(eventQueue) - 1 /\ Len(eventQueue') \in Nat
           /\ \A i \in 1 .. Len(eventQueue') :
                  /\ eventQueue'[i] = eventQueue[i + 1]
                  /\ i + 1 \in 1 .. Len(eventQueue) /\ 1 < i + 1 /\ i + 1 # 1
           /\ \A i, j \in 1 .. Len(eventQueue') : i < j => i + 1 < j + 1
           /\ \A i \in 1 .. Len(eventQueue) : i # 1 =>
                  /\ i - 1 \in 1 .. Len(eventQueue') /\ eventQueue'[i - 1] = eventQueue[i]
                  /\ (i - 1) + 1 = i
           /\ \A i, j \in 1 .. Len(eventQueue) : i < j => i - 1 < j - 1
  <1>1. eventQueue \in Seq(QueueEvent) /\ eventQueue # <<>> /\ eventQueue' = Tail(eventQueue)
    BY DEF TypeOK
  <1>2. /\ Head(eventQueue) \in QueueEvent
        /\ Tail(eventQueue) \in Seq(QueueEvent)
        /\ Len(Tail(eventQueue)) = Len(eventQueue) - 1
        /\ \A i \in 1 .. Len(Tail(eventQueue)) : Tail(eventQueue)[i] = eventQueue[i + 1]
    BY <1>1, HeadTailProperties
  <1>3. Len(eventQueue) \in Nat /\ Len(eventQueue) # 0
    BY <1>1, EmptySeq
  <1>4. \A n \in Nat : n # 0 =>
            /\ 1 \in 1 .. n /\ n - 1 \in Nat
            /\ \A i \in 1 .. n - 1 : i + 1 \in 1 .. n /\ 1 < i + 1 /\ i + 1 # 1
            /\ \A i, j \in 1 .. n - 1 : i < j => i + 1 < j + 1
            /\ \A i \in 1 .. n : i # 1 => i - 1 \in 1 .. n - 1 /\ (i - 1) + 1 = i
            /\ \A i, j \in 1 .. n : i < j => i - 1 < j - 1
    OBVIOUS
  <1>5. Head(eventQueue) = eventQueue[1]
    BY <1>1
  <1>6. \A i \in 1 .. Len(eventQueue) : i # 1 => eventQueue'[i - 1] = eventQueue[i]
    <2>1. SUFFICES ASSUME NEW i \in 1 .. Len(eventQueue), i # 1
                   PROVE  eventQueue'[i - 1] = eventQueue[i]
      OBVIOUS
    <2>2. i - 1 \in 1 .. Len(eventQueue) - 1 /\ (i - 1) + 1 = i
      BY <1>3, <1>4, <2>1
    <2>3. Tail(eventQueue)[i - 1] = eventQueue[(i - 1) + 1]
      BY <1>2, <2>2
    <2>4. QED
      BY <1>1, <2>2, <2>3
  <1>7. QED
    BY <1>1, <1>2, <1>3, <1>4, <1>5, <1>6, Zenon

LEMMA PopFacts ==
    ASSUME TypeOK, NEW type, Pop(type)
    PROVE  /\ 1 \in 1 .. Len(eventQueue) /\ eventQueue # <<>> /\ eventQueue' = Tail(eventQueue)
           /\ Head(eventQueue) = eventQueue[1] /\ Head(eventQueue) \in QueueEvent
           /\ Head(eventQueue).type = type
           /\ eventQueue' \in Seq(QueueEvent)
  <1>1. eventQueue # <<>> /\ eventQueue' = Tail(eventQueue) /\ Head(eventQueue).type = type
    BY DEF Pop
  <1>2. QED
    BY <1>1, TailFacts

\* What is in the queue when an event is added.
LEMMA PushFacts ==
    ASSUME TypeOK, NEW e \in QueueEvent, eventQueue' = Append(eventQueue, e)
    PROVE  /\ eventQueue' \in Seq(QueueEvent)
           /\ Len(eventQueue') = Len(eventQueue) + 1
           /\ \A i \in 1 .. Len(eventQueue) : eventQueue'[i] = eventQueue[i]
           /\ eventQueue'[Len(eventQueue) + 1] = e
           /\ \A i \in 1 .. Len(eventQueue') :
                  i \in 1 .. Len(eventQueue) \/ i = Len(eventQueue) + 1
  <1>1. eventQueue \in Seq(QueueEvent)
    BY DEF TypeOK
  <1>2. /\ eventQueue' \in Seq(QueueEvent)
        /\ Len(eventQueue') = Len(eventQueue) + 1
        /\ \A i \in 1 .. Len(eventQueue) : eventQueue'[i] = eventQueue[i]
        /\ eventQueue'[Len(eventQueue) + 1] = e
    BY <1>1, AppendProperties
  <1>3. \A n \in Nat : \A i \in 1 .. n + 1 : i \in 1 .. n \/ i = n + 1
    OBVIOUS
  <1>4. QED
    BY <1>1, <1>2, <1>3, LenProperties

\* The connection of a message or of an end has a session, which is active.
LEMMA KnownHead ==
    ASSUME TypeOK, QueueInOrder, Known, InverseMaps, ActiveWhileOpen,
           NEW type \in {"ClientMessage", "ClientDisconnected"}, Pop(type),
           NEW c, c = Head(eventQueue).connection
    PROVE  /\ c \in ConnectionId /\ c \in DOMAIN connectionToSession
           /\ getSessionId(c) = connectionToSession[c]
           /\ connectionToSession[c] \in DOMAIN sessions
           /\ sessions[connectionToSession[c]].connectionId = c
           /\ sessions[connectionToSession[c]].isActive
  <1>1. /\ 1 \in 1 .. Len(eventQueue) /\ eventQueue[1].type = type
        /\ eventQueue[1].connection = c /\ c \in ConnectionId /\ c < nextConnection
    <2>1. /\ 1 \in 1 .. Len(eventQueue) /\ eventQueue[1].type = type
          /\ eventQueue[1].connection = c /\ eventQueue[1] \in QueueEvent
      BY PopFacts
    <2>2. QED
      BY <2>1, EventShape DEF QueueInOrder
  <1>2. c \in DOMAIN connectionToSession
    <2>1. SUFFICES ASSUME c \notin DOMAIN connectionToSession
                   PROVE  FALSE
      OBVIOUS
    <2>2. PICK i \in 1 .. Len(eventQueue) :
              eventQueue[i] = [type |-> "ClientConnected", connection |-> c]
      BY <1>1, <2>1 DEF Known
    <2>3. i # 1 /\ 1 < i
      BY <1>1, <2>2, QueueTypes
    <2>4. QED
      BY <1>1, <2>2, <2>3 DEF QueueInOrder
  <1>3. /\ connectionToSession[c] \in DOMAIN sessions
        /\ sessions[connectionToSession[c]].connectionId = c
    BY <1>2 DEF InverseMaps
  <1>4. Of(eventQueue[1], c)
    BY <1>1 DEF Of
  <1>5. QED
    BY <1>1, <1>2, <1>3, <1>4 DEF ActiveWhileOpen, getSessionId

\* There is a free number: the sessions are as many as the known connections,
\* and the counter finds the nearest free one.
LEMMA FreeNumber ==
    ASSUME TypeOK, InverseMaps, NEW c \in ConnectionId, c \notin DOMAIN connectionToSession
    PROVE  generateSessionId \in SessionId \ DOMAIN sessions
  <1> DEFINE free == SessionId \ DOMAIN sessions
             distance == [s \in SessionId |-> IF s >= nextSessionId THEN s - nextSessionId
                                              ELSE s + MaxSessionId - nextSessionId]
             connectionOf == [s \in DOMAIN sessions |-> sessions[s].connectionId]
             others == ConnectionId \ {c}
  <1>1. /\ MaxSessionId \in Nat \ {0} /\ MaxConnections \in 1 .. MaxSessionId
        /\ nextSessionId \in SessionId
    BY ServerAssumption DEF TypeOK
  <1>2. IsFiniteSet(SessionId) /\ Cardinality(SessionId) = MaxSessionId
    BY <1>1, FS_Interval DEF SessionId
  <1>3. IsFiniteSet(others) /\ Cardinality(others) = MaxConnections - 1
    <2>1. IsFiniteSet(ConnectionId) /\ Cardinality(ConnectionId) = MaxConnections
      BY <1>1, FS_Interval DEF ConnectionId
    <2>2. QED
      BY <2>1, FS_RemoveElement
  <1>4. connectionOf \in Injection(DOMAIN sessions, others)
    <2>1. connectionOf \in [DOMAIN sessions -> others]
      BY DEF TypeOK, SessionContext, InverseMaps
    <2>2. \A s, t \in DOMAIN sessions : connectionOf[s] = connectionOf[t] => s = t
      BY DEF InverseMaps
    <2>3. QED
      BY <2>1, <2>2 DEF Injection, IsInjective
  <1>5. Cardinality(DOMAIN sessions) <= MaxConnections - 1
    <2> HIDE DEF connectionOf, others
    <2>1. QED
      BY <1>3, <1>4, FS_Injection
  <1>6. free # {}
    <2>1. SUFFICES ASSUME SessionId \subseteq DOMAIN sessions
                   PROVE  FALSE
      OBVIOUS
    <2>2. SessionId = DOMAIN sessions
      BY <2>1 DEF TypeOK
    <2>3. QED
      BY <1>1, <1>2, <1>5, <2>2
  <1>7. \A s \in SessionId : distance[s] \in Nat
    BY <1>1 DEF SessionId
  <1>8. \E s \in free : \A t \in free : distance[s] <= distance[t]
    <2> DEFINE distances == {distance[s] : s \in free}
    <2>1. distances \subseteq Nat /\ distances # {}
      BY <1>6, <1>7
    <2>2. PICK d \in distances : \A n \in distances : ~ (<<n, d>> \in OpToRel(<, Nat))
      <3> HIDE DEF distances
      <3>1. IsWellFoundedOn(OpToRel(<, Nat), Nat)
        BY NatLessThanWellFounded
      <3>2. QED
        BY <2>1, <3>1, WFMin
    <2>3. PICK s \in free : d = distance[s]
      OBVIOUS
    <2>4. ASSUME NEW t \in free
          PROVE  distance[s] <= distance[t]
      <3>1. ~ (distance[t] < distance[s])
        BY <1>7, <2>2, <2>3, <2>4 DEF OpToRel
      <3>2. QED
        BY <1>7, <2>4, <3>1
    <2>5. QED
      BY <2>4
  <1>9. generateSessionId = CHOOSE s \in free : \A t \in free : distance[s] <= distance[t]
    BY DEF generateSessionId
  <1>10. QED
    <2> HIDE DEF free, distance
    <2>1. generateSessionId \in free
      BY <1>8, <1>9
    <2>2. QED
      BY <2>1 DEF free

\* What connectAdd does to the two maps: one entry more, for a connection that
\* was not known and a number that was free.
LEMMA AddFacts ==
    ASSUME TypeOK, Phases, QueueInOrder, Known, InverseMaps, connectAdd,
           NEW c, c = Head(eventQueue).connection,
           NEW s, s = generateSessionId
    PROVE  /\ c \in ConnectionId \ DOMAIN connectionToSession /\ c < nextConnection
           /\ s \in SessionId \ DOMAIN sessions
           /\ connecting = 0 /\ connecting' = s
           /\ DOMAIN sessions' = DOMAIN sessions \cup {s}
           /\ sessions'[s] = [connectionId |-> c, seat |-> "None", isActive |-> TRUE]
           /\ \A t \in DOMAIN sessions : sessions'[t] = sessions[t]
           /\ DOMAIN connectionToSession' = DOMAIN connectionToSession \cup {c}
           /\ connectionToSession'[c] = s
           /\ \A d \in DOMAIN connectionToSession : connectionToSession'[d] = connectionToSession[d]
  <1>1. /\ Pop("ClientConnected") /\ add(c, s) /\ connecting' = s /\ connecting = 0
    BY DEF connectAdd, Phases, Pop
  <1>2. /\ 1 \in 1 .. Len(eventQueue) /\ Head(eventQueue) = eventQueue[1]
        /\ eventQueue[1] \in QueueEvent /\ eventQueue[1].type = "ClientConnected"
    BY <1>1, PopFacts
  <1>3. /\ c \in ConnectionId /\ c < nextConnection
        /\ eventQueue[1] = [type |-> "ClientConnected", connection |-> c]
    BY <1>2, EventShape DEF QueueInOrder
  <1>4. c \notin DOMAIN connectionToSession
    BY <1>2, <1>3 DEF Known
  <1>5. s \in SessionId \ DOMAIN sessions
    BY <1>3, <1>4, FreeNumber
  <1>6. QED
    BY <1>1, <1>3, <1>4, <1>5 DEF add, With, NewContext

\* What connectSeat does to the sessions.
LEMMA SeatFacts ==
    ASSUME TypeOK, Phases, connectSeat
    PROVE  /\ connecting \in DOMAIN sessions /\ sessions[connecting].seat = "None"
           /\ DOMAIN sessions' = DOMAIN sessions
           /\ sessions'[connecting].seat = freeSeat
           /\ sessions'[connecting].connectionId = sessions[connecting].connectionId
           /\ sessions'[connecting].isActive = sessions[connecting].isActive
           /\ \A t \in DOMAIN sessions : t # connecting => sessions'[t] = sessions[t]
           /\ freeSeat \in {"Black", "White", "Observer"}
           /\ sessions'[connecting] \in SessionContext
  <1>1. connecting \in DOMAIN sessions /\ sessions[connecting].seat = "None"
        /\ sessions[connecting] \in SessionContext
    BY DEF TypeOK, Phases, connectSeat
  <1>2. freeSeat \in {"Black", "White", "Observer"}
    BY DEF freeSeat
  <1>3. sessions' = [sessions EXCEPT ![connecting].seat = freeSeat]
    BY DEF connectSeat
  <1>4. QED
    BY <1>1, <1>2, <1>3 DEF SessionContext, Seat, PlayerSeat

\* What disconnect does: the session, which was active, is not.
LEMMA DisconnectFacts ==
    ASSUME TypeOK, Phases, QueueInOrder, Known, InverseMaps, ActiveWhileOpen, disconnect,
           NEW c, c = Head(eventQueue).connection,
           NEW s, s = connectionToSession[c]
    PROVE  /\ c \in ConnectionId /\ c \in DOMAIN connectionToSession
           /\ s \in DOMAIN sessions /\ s # connecting
           /\ sessions[s].connectionId = c /\ sessions[s].isActive
           /\ DOMAIN sessions' = DOMAIN sessions
           /\ sessions'[s].seat = sessions[s].seat /\ sessions'[s].connectionId = c
           /\ ~ sessions'[s].isActive
           /\ \A t \in DOMAIN sessions : t # s => sessions'[t] = sessions[t]
           /\ \A t \in DOMAIN sessions :
                  /\ sessions'[t] \in SessionContext
                  /\ sessions'[t].seat = sessions[t].seat
                  /\ sessions'[t].connectionId = sessions[t].connectionId
                  /\ sessions'[t].isActive => sessions[t].isActive
           /\ calls' = IF isPlayer(getSeat(s))
                       THEN Append(calls, [call |-> "onClientDisconnected", session |-> s])
                       ELSE calls
  <1>1. Pop("ClientDisconnected") /\ serverPc = "pop"
    BY DEF disconnect, Pop
  <1>2. /\ c \in ConnectionId /\ c \in DOMAIN connectionToSession
        /\ getSessionId(c) = s /\ s \in DOMAIN sessions
        /\ sessions[s].connectionId = c /\ sessions[s].isActive
    BY <1>1, KnownHead
  <1>3. s # connecting
    BY <1>1, <1>2, ServerAssumption DEF Phases, TypeOK, SessionId
  <1>4. \A t \in DOMAIN sessions : sessions[t] \in SessionContext
    BY DEF TypeOK
  <1>5. /\ sessions' = [sessions EXCEPT ![s].isActive = FALSE]
        /\ calls' = IF isPlayer(getSeat(s))
                    THEN Append(calls, [call |-> "onClientDisconnected", session |-> s])
                    ELSE calls
    BY <1>2 DEF disconnect
  <1>6. QED
    BY <1>2, <1>3, <1>4, <1>5 DEF SessionContext

\* The outbox of each connection after a message to a session.
LEMMA SentFacts ==
    ASSUME TypeOK, NEW s \in DOMAIN sessions, NEW m \in ServerMessage, outbox' = Sent(s, m),
           NEW c \in ConnectionId
    PROVE  /\ outbox'[c] \in Seq(ServerMessage)
           /\ \/ outbox'[c] = outbox[c]
              \/ /\ c = sessions[s].connectionId /\ c \in connections
                 /\ Len(outbox'[c]) = Len(outbox[c]) + 1
                 /\ \A i \in 1 .. Len(outbox[c]) : outbox'[c][i] = outbox[c][i]
                 /\ outbox'[c][Len(outbox[c]) + 1] = m
           /\ Len(outbox[c]) \in Nat
           /\ s \in DOMAIN sessions /\ sessions[s].connectionId = c /\ c \in connections
                  => outbox'[c] # outbox[c]
  <1>1. outbox[c] \in Seq(ServerMessage) /\ Len(outbox[c]) \in Nat
        /\ outbox \in [ConnectionId -> Seq(ServerMessage)]
    BY LenProperties DEF TypeOK
  <1>2. CASE c = sessions[s].connectionId /\ c \in connections
    <2>1. outbox'[c] = Append(outbox[c], m)
      BY <1>1, <1>2 DEF Sent, Reachable
    <2>2. /\ outbox'[c] \in Seq(ServerMessage)
          /\ Len(outbox'[c]) = Len(outbox[c]) + 1
          /\ \A i \in 1 .. Len(outbox[c]) : outbox'[c][i] = outbox[c][i]
          /\ outbox'[c][Len(outbox[c]) + 1] = m
      BY <1>1, <2>1, AppendProperties
    <2>3. outbox'[c] # outbox[c]
      BY <1>1, <2>2
    <2>4. QED
      BY <1>1, <1>2, <2>2, <2>3
  <1>3. CASE ~ (c = sessions[s].connectionId /\ c \in connections)
    <2>1. outbox'[c] = outbox[c]
      BY <1>1, <1>3 DEF Sent, Reachable
    <2>2. QED
      BY <1>1, <1>3, <2>1
  <1>4. QED
    BY <1>2, <1>3

\* The calls after one more.
LEMMA CallFacts ==
    ASSUME TypeOK, NEW k \in HandlerCall, calls' = Append(calls, k)
    PROVE  /\ calls' \in Seq(HandlerCall) /\ Len(calls) \in Nat
           /\ Len(calls') = Len(calls) + 1
           /\ \A i \in 1 .. Len(calls) : calls'[i] = calls[i]
           /\ calls'[Len(calls) + 1] = k
           /\ \A i \in 1 .. Len(calls') : i \in 1 .. Len(calls) \/ i = Len(calls) + 1
  <1>1. calls \in Seq(HandlerCall)
    BY DEF TypeOK
  <1>2. Len(calls) \in Nat
    BY <1>1, LenProperties
  <1>3. /\ calls' \in Seq(HandlerCall)
        /\ Len(calls') = Len(calls) + 1
        /\ \A i \in 1 .. Len(calls) : calls'[i] = calls[i]
        /\ calls'[Len(calls) + 1] = k
    BY <1>1, AppendProperties
  <1>4. \A n \in Nat : \A i \in 1 .. n + 1 : i \in 1 .. n \/ i = n + 1
    OBVIOUS
  <1>5. QED
    BY <1>2, <1>3, <1>4

-----------------------------------------------------------------------------
(* Types.                                                                  *)

LEMMA TypeStep ==
    ASSUME IInv, [Next]_vars
    PROVE  TypeOK'
  <1> USE DEF vars, ownerVars, networkVars, sessionVars, broadcastVars
  <1>1. TypeOK /\ Phases /\ QueueInOrder /\ Known /\ InverseMaps /\ ActiveWhileOpen /\ BroadcastsCounted
    BY DEF IInv
  <1>2. CASE UNCHANGED vars
    BY <1>1, <1>2 DEF TypeOK
  <1>3. CASE start \/ stop \/ stopNetwork \/ joinThread
    BY <1>1, <1>3 DEF TypeOK, start, stop, stopNetwork, joinThread
  <1>4. CASE stopPushesShutdown
    <2>1. [type |-> "Shutdown"] \in QueueEvent
      BY DEF QueueEvent
    <2>2. eventQueue' \in Seq(QueueEvent)
      BY <1>1, <1>4, <2>1, PushFacts DEF stopPushesShutdown
    <2>3. QED
      BY <1>1, <1>4, <2>2 DEF TypeOK, stopPushesShutdown
  <1>5. CASE accept
    <2>1. nextConnection \in ConnectionId /\ nextConnection' \in 1 .. MaxConnections + 1
      BY <1>1, <1>5, ServerAssumption DEF TypeOK, accept, ConnectionId
    <2>2. [type |-> "ClientConnected", connection |-> nextConnection] \in QueueEvent
      BY <2>1 DEF QueueEvent
    <2>3. eventQueue' \in Seq(QueueEvent)
      BY <1>1, <1>5, <2>2, PushFacts DEF accept
    <2>4. QED
      BY <1>1, <1>5, <2>1, <2>3 DEF TypeOK, accept
  <1>6. ASSUME NEW c \in ConnectionId, NEW payload \in Payload, onClientMessage(c, payload)
        PROVE  TypeOK'
    <2>1. [type |-> "ClientMessage", connection |-> c, payload |-> payload] \in QueueEvent
      BY DEF QueueEvent
    <2>2. eventQueue' \in Seq(QueueEvent)
      BY <1>1, <1>6, <2>1, PushFacts DEF onClientMessage
    <2>3. Append(received[c], payload) \in Seq(Payload)
      BY <1>1, AppendProperties DEF TypeOK
    <2>4. QED
      BY <1>1, <1>6, <2>2, <2>3 DEF TypeOK, onClientMessage
  <1>7. ASSUME NEW c \in ConnectionId, onClientDisconnected(c)
        PROVE  TypeOK'
    <2>1. [type |-> "ClientDisconnected", connection |-> c] \in QueueEvent
      BY DEF QueueEvent
    <2>2. eventQueue' \in Seq(QueueEvent)
      BY <1>1, <1>7, <2>1, PushFacts DEF onClientDisconnected
    <2>3. QED
      BY <1>1, <1>7, <2>2 DEF TypeOK, onClientDisconnected
  <1>8. CASE enterLoop
    BY <1>1, <1>8 DEF TypeOK, enterLoop, WhileRunning
  <1>9. CASE connectAdd
    <2> DEFINE c == Head(eventQueue).connection
               s == generateSessionId
    <2>1. /\ c \in ConnectionId /\ s \in SessionId /\ connecting' = s
          /\ DOMAIN sessions' = DOMAIN sessions \cup {s}
          /\ sessions'[s] = [connectionId |-> c, seat |-> "None", isActive |-> TRUE]
          /\ \A t \in DOMAIN sessions : sessions'[t] = sessions[t]
          /\ DOMAIN connectionToSession' = DOMAIN connectionToSession \cup {c}
          /\ connectionToSession'[c] = s
          /\ \A d \in DOMAIN connectionToSession : connectionToSession'[d] = connectionToSession[d]
      BY <1>1, <1>9, AddFacts
    <2>2. eventQueue' \in Seq(QueueEvent)
      BY <1>1, <1>9, PopFacts DEF connectAdd
    <2>3. nextSessionId' = After(s) /\ serverPc' = "seat"
          /\ UNCHANGED <<ownerVars, networkVars, broadcastVars, outbox, calls>>
      BY <1>9 DEF connectAdd, Pop
    <2> HIDE DEF c, s
    <2>4. nextSessionId' \in SessionId
      BY <2>1, <2>3, ServerAssumption DEF After, SessionId
    <2>5. sessions'[s] \in SessionContext
      BY <2>1 DEF SessionContext, Seat
    <2>6. QED
      BY <1>1, <2>1, <2>2, <2>3, <2>4, <2>5 DEF TypeOK
  <1>10. CASE connectSeat
    BY <1>1, <1>10, SeatFacts DEF TypeOK, connectSeat
  <1>11. CASE connectAssign
    <2>1. connecting \in DOMAIN sessions /\ connecting \in SessionId
      BY <1>1, <1>11 DEF Phases, TypeOK, connectAssign
    <2>2. [type |-> "session", session |-> connecting] \in ServerMessage
      BY <2>1 DEF ServerMessage
    <2>3. \A c \in ConnectionId : outbox'[c] \in Seq(ServerMessage)
      BY <1>1, <1>11, <2>1, <2>2, SentFacts DEF connectAssign
    <2>4. outbox' \in [ConnectionId -> Seq(ServerMessage)]
      <3>1. outbox' \in [ConnectionId -> Seq(ServerMessage)] <=> outbox' = [c \in ConnectionId |-> outbox'[c]]
        BY <2>3
      <3>2. outbox' = [c \in ConnectionId |-> outbox'[c]]
        BY <1>1, <1>11 DEF TypeOK, connectAssign, Sent
      <3>3. QED
        BY <3>1, <3>2
    <2>5. getSeat(connecting) \in Seat
      BY <1>1, <2>1 DEF TypeOK, getSeat, SessionContext
    <2>6. [call |-> "onClientConnected", session |-> connecting,
           seat |-> getSeat(connecting)] \in HandlerCall
      BY <2>1, <2>5 DEF HandlerCall
    <2>7. calls' \in Seq(HandlerCall)
      BY <1>1, <1>11, <2>6, CallFacts DEF connectAssign
    <2>8. QED
      BY <1>1, <1>11, <2>4, <2>7 DEF TypeOK, connectAssign, WhileRunning
  <1>12. CASE forwardMessage
    <2> DEFINE c == Head(eventQueue).connection
               k == [call |-> "onNetworkEvent", session |-> getSessionId(c),
                     event |-> Head(eventQueue).payload]
    <2>1. /\ Pop("ClientMessage") /\ Head(eventQueue).payload \in ClientEvent
          /\ calls' = Append(calls, k) /\ WhileRunning
          /\ UNCHANGED <<sessionVars, outbox>>
      BY <1>12 DEF forwardMessage, Forwarded
    <2>2. getSessionId(c) \in SessionId
      BY <1>1, <2>1, KnownHead DEF TypeOK
    <2>3. k \in HandlerCall
      BY <2>1, <2>2 DEF HandlerCall
    <2>4. calls' \in Seq(HandlerCall)
      <3> HIDE DEF k
      <3>1. QED
        BY <1>1, <2>1, <2>3, CallFacts
    <2>5. eventQueue' \in Seq(QueueEvent)
      BY <1>1, <2>1, PopFacts
    <2>6. QED
      BY <1>1, <2>1, <2>4, <2>5 DEF TypeOK, Pop, WhileRunning
  <1>13. CASE dropMessage
    <2>1. eventQueue' \in Seq(QueueEvent)
      BY <1>1, <1>13, PopFacts DEF dropMessage
    <2>2. QED
      BY <1>1, <1>13, <2>1 DEF TypeOK, dropMessage, Pop, WhileRunning
  <1>14. CASE disconnect
    <2> DEFINE s == connectionToSession[Head(eventQueue).connection]
    <2>1. /\ s \in DOMAIN sessions
          /\ DOMAIN sessions' = DOMAIN sessions
          /\ \A t \in DOMAIN sessions : sessions'[t] \in SessionContext
          /\ calls' = IF isPlayer(getSeat(s))
                      THEN Append(calls, [call |-> "onClientDisconnected", session |-> s])
                      ELSE calls
      BY <1>1, <1>14, DisconnectFacts
    <2>2. [call |-> "onClientDisconnected", session |-> s] \in HandlerCall
      BY <1>1, <2>1 DEF TypeOK, HandlerCall
    <2>3. calls' \in Seq(HandlerCall)
      <3>1. CASE calls' = calls
        BY <1>1, <3>1 DEF TypeOK
      <3>2. CASE calls' = Append(calls, [call |-> "onClientDisconnected", session |-> s])
        BY <1>1, <2>2, <3>2, CallFacts
      <3>3. QED
        BY <2>1, <3>1, <3>2
    <2>4. eventQueue' \in Seq(QueueEvent)
      BY <1>1, <1>14, PopFacts DEF disconnect
    <2>5. QED
      BY <1>1, <1>14, <2>1, <2>3, <2>4 DEF TypeOK, disconnect, Pop, WhileRunning
  <1>15. CASE shutdown
    <2>1. eventQueue' \in Seq(QueueEvent)
      BY <1>1, <1>15, HeadTailProperties DEF TypeOK, shutdown
    <2>2. QED
      BY <1>1, <1>15, <2>1 DEF TypeOK, shutdown
  <1>16. CASE broadcast
    BY <1>1, <1>16, ServerAssumption DEF TypeOK, broadcast
  <1>17. CASE meetNewSession
    BY <1>1, <1>17 DEF TypeOK, Phases, meetNewSession
  <1>18. CASE endBroadcast
    BY <1>1, <1>18 DEF TypeOK, endBroadcast
  <1>19. ASSUME NEW s \in SessionId, visitSession(s)
         PROVE  TypeOK'
    <2>1. s \in DOMAIN sessions /\ broadcastNumber \in 1 .. MaxBroadcasts
      BY <1>1, <1>19, ServerAssumption DEF TypeOK, BroadcastsCounted, visitSession
    <2>2. [type |-> "broadcast", number |-> broadcastNumber] \in ServerMessage
      BY <2>1 DEF ServerMessage
    <2>3. outbox' \in [ConnectionId -> Seq(ServerMessage)]
      <3>1. CASE outbox' = outbox
        BY <1>1, <3>1 DEF TypeOK
      <3>2. CASE outbox' = Sent(s, [type |-> "broadcast", number |-> broadcastNumber])
        <4>1. \A c \in ConnectionId : outbox'[c] \in Seq(ServerMessage)
          BY <1>1, <2>1, <2>2, <3>2, SentFacts
        <4>2. outbox' = [c \in ConnectionId |-> outbox'[c]]
          BY <1>1, <3>2 DEF TypeOK, Sent
        <4>3. QED
          BY <4>1, <4>2
      <3>3. QED
        BY <1>19, <3>1, <3>2 DEF visitSession
    <2>4. QED
      BY <1>1, <1>19, <2>3 DEF TypeOK, visitSession
  <1>20. QED
    BY <1>2, <1>3, <1>4, <1>5, <1>6, <1>7, <1>8, <1>9, <1>10, <1>11, <1>12, <1>13, <1>14,
       <1>15, <1>16, <1>17, <1>18, <1>19
    DEF Next, Owner, Network, ServerLoop, Broadcast, Terminated

-----------------------------------------------------------------------------
(* The queue.                                                              *)

\* What each step does to the queue and to what its order depends on.
LEMMA QueueStep ==
    ASSUME IInv, Next
    PROVE  \/ /\ UNCHANGED <<eventQueue, nextConnection, connectionToSession>>
              /\ connections' \subseteq connections
           \/ /\ eventQueue' = Append(eventQueue, [type |-> "Shutdown"])
              /\ UNCHANGED <<connections, nextConnection, connectionToSession>>
           \/ accept
           \/ \E c \in ConnectionId :
                  onClientDisconnected(c) \/ \E payload \in Payload : onClientMessage(c, payload)
           \/ connectAdd
           \/ /\ \E type \in {"ClientMessage", "ClientDisconnected", "Shutdown"} :
                     Head(eventQueue).type = type
              /\ eventQueue # <<>> /\ eventQueue' = Tail(eventQueue)
              /\ UNCHANGED <<connections, nextConnection, connectionToSession>>
  <1> USE DEF vars, ownerVars, networkVars, sessionVars, broadcastVars
  <1>1. CASE start \/ stop \/ joinThread \/ Terminated \/ enterLoop \/ connectSeat
             \/ connectAssign \/ Broadcast
    BY <1>1 DEF start, stop, joinThread, Terminated, enterLoop, connectSeat, connectAssign,
                Broadcast, broadcast, meetNewSession, endBroadcast, visitSession
  <1>2. CASE stopNetwork
    BY <1>2 DEF stopNetwork
  <1>3. CASE stopPushesShutdown
    BY <1>3 DEF stopPushesShutdown
  <1>4. CASE forwardMessage \/ dropMessage \/ disconnect \/ shutdown
    BY <1>4 DEF forwardMessage, dropMessage, disconnect, shutdown, Pop
  <1>5. QED
    BY <1>1, <1>2, <1>3, <1>4 DEF Next, Owner, Network, ServerLoop

LEMMA QueueOrderStep ==
    ASSUME IInv, [Next]_vars
    PROVE  QueueInOrder'
  <1> USE DEF vars, ownerVars, networkVars, sessionVars, broadcastVars
  <1>1. TypeOK /\ QueueInOrder
    BY DEF IInv
  <1>n. Len(eventQueue) \in Nat /\ nextConnection \in Nat /\ ConnectionId \subseteq Nat
    BY <1>1, QueueTypes DEF TypeOK, ConnectionId
  <1>2. CASE /\ UNCHANGED <<eventQueue, nextConnection>> /\ connections' \subseteq connections
    BY <1>1, <1>2 DEF QueueInOrder
  <1>3. ASSUME NEW e \in QueueEvent, eventQueue' = Append(eventQueue, e),
               \A c \in connections' : c < nextConnection',
               nextConnection' >= nextConnection, nextConnection' \in Nat,
               e.type # "Shutdown" => e.connection < nextConnection',
               e.type = "ClientDisconnected" => e.connection \notin connections',
               \A i \in 1 .. Len(eventQueue) : eventQueue[i].type = "ClientDisconnected" =>
                   eventQueue[i].connection \notin connections',
               \A i \in 1 .. Len(eventQueue) :
                   /\ eventQueue[i].type # "Shutdown" /\ e.type # "Shutdown"
                   /\ eventQueue[i].connection = e.connection
                   => eventQueue[i].type # "ClientDisconnected" /\ e.type # "ClientConnected"
        PROVE  QueueInOrder'
    <2>1. /\ \A i \in 1 .. Len(eventQueue) : eventQueue'[i] = eventQueue[i]
          /\ eventQueue'[Len(eventQueue) + 1] = e
          /\ \A i \in 1 .. Len(eventQueue') : i \in 1 .. Len(eventQueue) \/ i = Len(eventQueue) + 1
      BY <1>1, <1>3, PushFacts
    <2>2. ASSUME NEW i \in 1 .. Len(eventQueue')
          PROVE  /\ eventQueue'[i].type # "Shutdown" => eventQueue'[i].connection < nextConnection'
                 /\ eventQueue'[i].type = "ClientDisconnected" =>
                        eventQueue'[i].connection \notin connections'
      <3>1. CASE i = Len(eventQueue) + 1
        BY <1>3, <2>1, <3>1
      <3>2. CASE i \in 1 .. Len(eventQueue)
        <4>1. eventQueue[i] \in QueueEvent /\ eventQueue'[i] = eventQueue[i]
          BY <1>1, <2>1, <3>2, QueueTypes
        <4>2. eventQueue[i].type # "Shutdown" =>
                  eventQueue[i].connection < nextConnection /\ eventQueue[i].connection \in Nat
          BY <1>1, <1>n, <3>2, <4>1, EventShape DEF QueueInOrder
        <4>3. QED
          BY <1>n, <1>3, <3>2, <4>1, <4>2
      <3>3. QED
        BY <2>1, <3>1, <3>2
    <2>3. ASSUME NEW i \in 1 .. Len(eventQueue'), NEW j \in 1 .. Len(eventQueue'), i < j,
                 eventQueue'[i].type # "Shutdown", eventQueue'[j].type # "Shutdown",
                 eventQueue'[i].connection = eventQueue'[j].connection
          PROVE  /\ eventQueue'[i].type # "ClientDisconnected"
                 /\ eventQueue'[j].type # "ClientConnected"
      <3>1. i \in 1 .. Len(eventQueue) /\ eventQueue'[i] = eventQueue[i]
        <4>1. i # Len(eventQueue) + 1
          BY <1>n, <2>1, <2>3
        <4>2. QED
          BY <2>1, <4>1
      <3>2. CASE j \in 1 .. Len(eventQueue)
        BY <1>1, <2>1, <2>3, <3>1, <3>2 DEF QueueInOrder
      <3>3. CASE j = Len(eventQueue) + 1
        BY <1>3, <2>1, <2>3, <3>1, <3>3
      <3>4. QED
        BY <2>1, <3>2, <3>3
    <2>4. QED
      BY <1>3, <2>2, <2>3 DEF QueueInOrder
  <1>4. CASE /\ eventQueue' = Append(eventQueue, [type |-> "Shutdown"])
             /\ UNCHANGED <<connections, nextConnection>>
    BY <1>1, <1>n, <1>3, <1>4 DEF QueueInOrder, QueueEvent
  <1>5. CASE accept
    <2> DEFINE e == [type |-> "ClientConnected", connection |-> nextConnection]
    <2>1. nextConnection \in ConnectionId
      BY <1>1, <1>5, ServerAssumption DEF TypeOK, ConnectionId, accept
    <2>2. e \in QueueEvent
      BY <2>1 DEF QueueEvent
    <2>3. \A c \in connections' : c < nextConnection'
      BY <1>1, <1>n, <1>5 DEF TypeOK, QueueInOrder, accept
    <2>4. \A i \in 1 .. Len(eventQueue) : eventQueue[i].type # "Shutdown" =>
              eventQueue[i].connection # nextConnection
      <3>1. \A i \in 1 .. Len(eventQueue) : eventQueue[i].type # "Shutdown" =>
                eventQueue[i].connection < nextConnection /\ eventQueue[i].connection \in Nat
        BY <1>1, <1>n, QueueTypes, EventShape DEF QueueInOrder
      <3>2. QED
        BY <1>n, <3>1
    <2>5. QED
      BY <1>1, <1>n, <1>3, <1>5, <2>2, <2>3, <2>4 DEF QueueInOrder, accept
  <1>6. ASSUME NEW c \in ConnectionId, NEW payload \in Payload, onClientMessage(c, payload)
        PROVE  QueueInOrder'
    <2> DEFINE e == [type |-> "ClientMessage", connection |-> c, payload |-> payload]
    <2>1. e \in QueueEvent
      BY DEF QueueEvent
    <2>2. /\ eventQueue' = Append(eventQueue, e) /\ c \in connections
          /\ UNCHANGED <<connections, nextConnection>>
      BY <1>6 DEF onClientMessage
    <2>3. QED
      BY <1>1, <1>n, <1>3, <2>1, <2>2 DEF QueueInOrder
  <1>7. ASSUME NEW c \in ConnectionId, onClientDisconnected(c)
        PROVE  QueueInOrder'
    <2> DEFINE e == [type |-> "ClientDisconnected", connection |-> c]
    <2>1. e \in QueueEvent
      BY DEF QueueEvent
    <2>2. /\ eventQueue' = Append(eventQueue, e) /\ c \in connections
          /\ connections' = connections \ {c} /\ nextConnection' = nextConnection
      BY <1>7 DEF onClientDisconnected
    <2>3. QED
      BY <1>1, <1>n, <1>3, <2>1, <2>2 DEF QueueInOrder
  <1>8. CASE /\ eventQueue # <<>> /\ eventQueue' = Tail(eventQueue)
             /\ UNCHANGED <<connections, nextConnection>>
    <2>1. ASSUME NEW i \in 1 .. Len(eventQueue')
          PROVE  /\ eventQueue'[i].type # "Shutdown" => eventQueue'[i].connection < nextConnection'
                 /\ eventQueue'[i].type = "ClientDisconnected" =>
                        eventQueue'[i].connection \notin connections'
      <3>1. i + 1 \in 1 .. Len(eventQueue) /\ eventQueue'[i] = eventQueue[i + 1]
        BY <1>1, <1>8, TailFacts
      <3>2. QED
        BY <1>1, <1>8, <3>1 DEF QueueInOrder
    <2>2. ASSUME NEW i \in 1 .. Len(eventQueue'), NEW j \in 1 .. Len(eventQueue'), i < j,
                 eventQueue'[i].type # "Shutdown", eventQueue'[j].type # "Shutdown",
                 eventQueue'[i].connection = eventQueue'[j].connection
          PROVE  /\ eventQueue'[i].type # "ClientDisconnected"
                 /\ eventQueue'[j].type # "ClientConnected"
      <3>1. /\ i + 1 \in 1 .. Len(eventQueue) /\ eventQueue'[i] = eventQueue[i + 1]
            /\ j + 1 \in 1 .. Len(eventQueue) /\ eventQueue'[j] = eventQueue[j + 1]
            /\ i + 1 < j + 1
        BY <1>1, <1>8, <2>2, TailFacts
      <3>2. QED
        BY <1>1, <2>2, <3>1 DEF QueueInOrder
    <2>3. QED
      BY <1>1, <1>8, <2>1, <2>2 DEF QueueInOrder
  <1>9. CASE connectAdd
    BY <1>8, <1>9 DEF connectAdd, Pop
  <1>10. QED
    BY <1>2, <1>4, <1>5, <1>6, <1>7, <1>8, <1>9, QueueStep

LEMMA KnownStep ==
    ASSUME IInv, [Next]_vars
    PROVE  Known'
  <1> USE DEF vars, ownerVars, networkVars, sessionVars, broadcastVars
  <1>1. TypeOK /\ Phases /\ QueueInOrder /\ Known /\ InverseMaps
    BY DEF IInv
  <1>n. Len(eventQueue) \in Nat /\ nextConnection \in Nat /\ ConnectionId \subseteq Nat
    BY <1>1, QueueTypes DEF TypeOK, ConnectionId
  <1>2. CASE UNCHANGED <<eventQueue, nextConnection, connectionToSession>>
    BY <1>1, <1>2 DEF Known
  <1>3. ASSUME NEW e \in QueueEvent, e.type # "ClientConnected",
               eventQueue' = Append(eventQueue, e),
               UNCHANGED <<nextConnection, connectionToSession>>
        PROVE  Known'
    <2>1. /\ \A i \in 1 .. Len(eventQueue) : eventQueue'[i] = eventQueue[i]
          /\ eventQueue'[Len(eventQueue) + 1] = e
          /\ \A i \in 1 .. Len(eventQueue') : i \in 1 .. Len(eventQueue) \/ i = Len(eventQueue) + 1
          /\ Len(eventQueue') = Len(eventQueue) + 1
      BY <1>1, <1>3, PushFacts
    <2>2. \A i \in 1 .. Len(eventQueue) : i \in 1 .. Len(eventQueue')
      BY <1>n, <2>1
    <2>3. ASSUME NEW c \in ConnectionId
          PROVE  (\E i \in 1 .. Len(eventQueue') :
                      eventQueue'[i] = [type |-> "ClientConnected", connection |-> c])
                 <=> (\E i \in 1 .. Len(eventQueue) :
                      eventQueue[i] = [type |-> "ClientConnected", connection |-> c])
      <3>1. e # [type |-> "ClientConnected", connection |-> c]
        BY <1>3
      <3>2. QED
        BY <2>1, <2>2, <3>1
    <2>4. QED
      BY <1>1, <1>3, <2>3 DEF Known
  <1>4. CASE accept
    <2> DEFINE e == [type |-> "ClientConnected", connection |-> nextConnection]
    <2>1. nextConnection \in ConnectionId /\ nextConnection' = nextConnection + 1
          /\ eventQueue' = Append(eventQueue, e) /\ connectionToSession' = connectionToSession
      BY <1>1, <1>4, ServerAssumption DEF TypeOK, ConnectionId, accept
    <2>2. e \in QueueEvent
      BY <2>1 DEF QueueEvent
    <2>3. /\ \A i \in 1 .. Len(eventQueue) : eventQueue'[i] = eventQueue[i]
          /\ eventQueue'[Len(eventQueue) + 1] = e
          /\ \A i \in 1 .. Len(eventQueue') : i \in 1 .. Len(eventQueue) \/ i = Len(eventQueue) + 1
          /\ Len(eventQueue') = Len(eventQueue) + 1
      BY <1>1, <2>1, <2>2, PushFacts
    <2>4. /\ \A i \in 1 .. Len(eventQueue) : i \in 1 .. Len(eventQueue')
          /\ Len(eventQueue) + 1 \in 1 .. Len(eventQueue')
      BY <1>n, <2>3
    <2>5. ASSUME NEW c \in ConnectionId, c < nextConnection'
          PROVE  c \notin DOMAIN connectionToSession
                    <=> \E i \in 1 .. Len(eventQueue') :
                            eventQueue'[i] = [type |-> "ClientConnected", connection |-> c]
      <3>1. CASE c = nextConnection
        <4>1. ~ (c < nextConnection)
          BY <1>n, <3>1
        <4>2. c \notin DOMAIN connectionToSession
          BY <1>1, <4>1 DEF Known
        <4>3. QED
          BY <2>3, <2>4, <3>1, <4>2
      <3>2. CASE c # nextConnection
        <4>1. c < nextConnection
          BY <1>n, <2>1, <2>5, <3>2
        <4>2. e # [type |-> "ClientConnected", connection |-> c]
          BY <3>2
        <4>3. QED
          BY <1>1, <2>3, <2>4, <4>1, <4>2 DEF Known
      <3>3. QED
        BY <3>1, <3>2
    <2>6. \A c \in ConnectionId : c \in DOMAIN connectionToSession => c < nextConnection'
      <3>1. \A c \in ConnectionId : c < nextConnection => c < nextConnection + 1
        BY <1>n
      <3>2. QED
        BY <1>1, <2>1, <3>1 DEF Known
    <2>7. QED
      BY <2>1, <2>5, <2>6 DEF Known
  <1>5. ASSUME NEW c \in ConnectionId, NEW payload \in Payload, onClientMessage(c, payload)
        PROVE  Known'
    <2>1. [type |-> "ClientMessage", connection |-> c, payload |-> payload] \in QueueEvent
      BY DEF QueueEvent
    <2>2. QED
      BY <1>3, <1>5, <2>1 DEF onClientMessage
  <1>6. ASSUME NEW c \in ConnectionId, onClientDisconnected(c)
        PROVE  Known'
    <2>1. [type |-> "ClientDisconnected", connection |-> c] \in QueueEvent
      BY DEF QueueEvent
    <2>2. QED
      BY <1>3, <1>6, <2>1 DEF onClientDisconnected
  <1>7. CASE eventQueue' = Append(eventQueue, [type |-> "Shutdown"])
             /\ UNCHANGED <<nextConnection, connectionToSession>>
    BY <1>3, <1>7 DEF QueueEvent
  <1>8. ASSUME NEW c \in ConnectionId, eventQueue # <<>>, eventQueue' = Tail(eventQueue),
               eventQueue[1] # [type |-> "ClientConnected", connection |-> c]
        PROVE  (\E i \in 1 .. Len(eventQueue') :
                    eventQueue'[i] = [type |-> "ClientConnected", connection |-> c])
               <=> (\E i \in 1 .. Len(eventQueue) :
                    eventQueue[i] = [type |-> "ClientConnected", connection |-> c])
    <2>1. ASSUME NEW i \in 1 .. Len(eventQueue'),
                 eventQueue'[i] = [type |-> "ClientConnected", connection |-> c]
          PROVE  i + 1 \in 1 .. Len(eventQueue)
                 /\ eventQueue[i + 1] = [type |-> "ClientConnected", connection |-> c]
      BY <1>1, <1>8, <2>1, TailFacts
    <2>2. ASSUME NEW i \in 1 .. Len(eventQueue),
                 eventQueue[i] = [type |-> "ClientConnected", connection |-> c]
          PROVE  i - 1 \in 1 .. Len(eventQueue')
                 /\ eventQueue'[i - 1] = [type |-> "ClientConnected", connection |-> c]
      BY <1>1, <1>8, <2>2, TailFacts
    <2>3. QED
      BY <2>1, <2>2
  <1>9. CASE connectAdd
    <2> DEFINE c == Head(eventQueue).connection
    <2>1. /\ c \in ConnectionId \ DOMAIN connectionToSession /\ c < nextConnection
          /\ DOMAIN connectionToSession' = DOMAIN connectionToSession \cup {c}
      BY <1>1, <1>9, AddFacts
    <2>2. /\ eventQueue # <<>> /\ eventQueue' = Tail(eventQueue) /\ nextConnection' = nextConnection
          /\ 1 \in 1 .. Len(eventQueue) /\ eventQueue[1].connection = c
          /\ eventQueue[1].type = "ClientConnected"
      BY <1>1, <1>9, PopFacts DEF connectAdd, Pop
    <2> HIDE DEF c
    <2>3. ~ \E i \in 1 .. Len(eventQueue') :
                eventQueue'[i] = [type |-> "ClientConnected", connection |-> c]
      <3>1. SUFFICES ASSUME NEW i \in 1 .. Len(eventQueue'),
                            eventQueue'[i] = [type |-> "ClientConnected", connection |-> c]
                     PROVE  FALSE
        OBVIOUS
      <3>2. i + 1 \in 1 .. Len(eventQueue) /\ 1 < i + 1 /\ eventQueue'[i] = eventQueue[i + 1]
        BY <1>1, <2>2, TailFacts
      <3>3. QED
        BY <1>1, <2>2, <3>1, <3>2 DEF QueueInOrder
    <2>4. ASSUME NEW d \in ConnectionId, d # c, d < nextConnection
          PROVE  d \notin DOMAIN connectionToSession'
                    <=> \E i \in 1 .. Len(eventQueue') :
                            eventQueue'[i] = [type |-> "ClientConnected", connection |-> d]
      <3>1. eventQueue[1] # [type |-> "ClientConnected", connection |-> d]
        <4>1. [type |-> "ClientConnected", connection |-> d].connection = d
          OBVIOUS
        <4>2. QED
          BY <2>2, <2>4, <4>1
      <3>2. QED
        BY <1>1, <1>8, <2>1, <2>2, <2>4, <3>1 DEF Known
    <2>5. QED
      BY <1>1, <2>1, <2>2, <2>3, <2>4 DEF Known
  <1>10. CASE /\ \E type \in {"ClientMessage", "ClientDisconnected", "Shutdown"} :
                     Head(eventQueue).type = type
              /\ eventQueue # <<>> /\ eventQueue' = Tail(eventQueue)
              /\ UNCHANGED <<nextConnection, connectionToSession>>
    <2>1. eventQueue[1].type # "ClientConnected"
      BY <1>1, <1>10 DEF TypeOK
    <2>2. \A c \in ConnectionId : eventQueue[1] # [type |-> "ClientConnected", connection |-> c]
      BY <2>1
    <2>3. QED
      BY <1>1, <1>8, <1>10, <2>2 DEF Known
  <1>11. QED
    BY <1>2, <1>4, <1>5, <1>6, <1>7, <1>9, <1>10, QueueStep

-----------------------------------------------------------------------------
(* The sessions.                                                           *)

\* Three steps change the sessions.
LEMMA SessionStep ==
    ASSUME [Next]_vars
    PROVE  \/ UNCHANGED <<sessions, connectionToSession>>
           \/ connectAdd \/ connectSeat \/ disconnect
  <1> USE DEF vars, ownerVars, networkVars, sessionVars, broadcastVars
  <1>1. CASE start \/ Owner \/ Terminated \/ UNCHANGED vars
    BY <1>1 DEF start, Owner, stop, stopPushesShutdown, stopNetwork, joinThread, Terminated
  <1>2. CASE Network
    BY <1>2 DEF Network, accept, onClientMessage, onClientDisconnected
  <1>3. CASE enterLoop \/ connectAssign \/ forwardMessage \/ dropMessage \/ shutdown
    BY <1>3 DEF enterLoop, connectAssign, forwardMessage, dropMessage, shutdown
  <1>4. CASE Broadcast
    BY <1>4 DEF Broadcast, broadcast, meetNewSession, endBroadcast, visitSession
  <1>5. QED
    BY <1>1, <1>2, <1>3, <1>4 DEF Next, ServerLoop

LEMMA PhasesStep ==
    ASSUME IInv, [Next]_vars
    PROVE  Phases'
  <1> USE DEF vars, ownerVars, networkVars, sessionVars, broadcastVars
  <1>1. TypeOK /\ Phases /\ QueueInOrder /\ Known /\ InverseMaps /\ ActiveWhileOpen
        /\ 0 \notin DOMAIN sessions
    BY ServerAssumption DEF IInv, TypeOK, SessionId
  <1>2. CASE start
    BY <1>1, <1>2 DEF Phases, start
  <1>a. CASE Owner
    BY <1>1, <1>a DEF Phases, Owner, stop, stopPushesShutdown, stopNetwork, joinThread
  <1>b. CASE UNCHANGED vars
    BY <1>1, <1>b DEF Phases
  <1>3. CASE Network
    BY <1>1, <1>3 DEF Phases, Network, accept, onClientMessage, onClientDisconnected
  <1>4. CASE enterLoop \/ connectAssign \/ forwardMessage \/ dropMessage \/ shutdown
    BY <1>1, <1>4 DEF Phases, enterLoop, connectAssign, forwardMessage, dropMessage, shutdown,
                      Pop, WhileRunning
  <1>5. CASE Broadcast
    BY <1>1, <1>5 DEF Phases, Broadcast, broadcast, meetNewSession, endBroadcast, visitSession
  <1>6. CASE connectAdd
    <2>1. /\ serverPc = "pop" /\ serverPc' = "seat" /\ ownerPc' = ownerPc
          /\ UNCHANGED <<networkRunning, connections>>
      BY <1>6 DEF connectAdd, Pop
    <2>2. connecting' \in DOMAIN sessions' /\ sessions'[connecting'].seat = "None"
      <3>1. /\ connecting' = generateSessionId
            /\ DOMAIN sessions' = DOMAIN sessions \cup {generateSessionId}
            /\ sessions'[generateSessionId] = [connectionId |-> Head(eventQueue).connection,
                                               seat |-> "None", isActive |-> TRUE]
        BY <1>1, <1>6, AddFacts
      <3>2. QED
        BY <3>1
    <2>3. QED
      BY <1>1, <2>1, <2>2 DEF Phases
  <1>7. CASE connectSeat
    <2>1. connecting \in DOMAIN sessions /\ DOMAIN sessions' = DOMAIN sessions
      BY <1>1, <1>7, SeatFacts
    <2>2. QED
      BY <1>1, <1>7, <2>1 DEF Phases, connectSeat
  <1>8. CASE disconnect
    BY <1>1, <1>8 DEF Phases, disconnect, Pop, WhileRunning
  <1>9. QED
    BY <1>2, <1>a, <1>b, <1>3, <1>4, <1>5, <1>6, <1>7, <1>8 DEF Next, ServerLoop, Terminated

LEMMA InverseStep ==
    ASSUME IInv, [Next]_vars
    PROVE  InverseMaps'
  <1>1. TypeOK /\ Phases /\ QueueInOrder /\ Known /\ InverseMaps /\ ActiveWhileOpen
    BY DEF IInv
  <1>2. CASE UNCHANGED <<sessions, connectionToSession>>
    BY <1>1, <1>2 DEF InverseMaps
  <1>3. CASE connectAdd
    <2> DEFINE c == Head(eventQueue).connection
               s == generateSessionId
    <2>1. /\ c \in ConnectionId \ DOMAIN connectionToSession
          /\ s \in SessionId \ DOMAIN sessions
          /\ DOMAIN sessions' = DOMAIN sessions \cup {s}
          /\ sessions'[s] = [connectionId |-> c, seat |-> "None", isActive |-> TRUE]
          /\ \A t \in DOMAIN sessions : sessions'[t] = sessions[t]
          /\ DOMAIN connectionToSession' = DOMAIN connectionToSession \cup {c}
          /\ connectionToSession'[c] = s
          /\ \A d \in DOMAIN connectionToSession : connectionToSession'[d] = connectionToSession[d]
      BY <1>1, <1>3, AddFacts
    <2> HIDE DEF c, s
    <2>2. QED
      BY <1>1, <2>1 DEF InverseMaps
  <1>4. CASE connectSeat
    <2>1. connectionToSession' = connectionToSession
      BY <1>4 DEF connectSeat
    <2>2. QED
      BY <1>1, <1>4, <2>1, SeatFacts DEF InverseMaps
  <1>5. CASE disconnect
    <2>1. connectionToSession' = connectionToSession
      BY <1>5 DEF disconnect
    <2>2. /\ DOMAIN sessions' = DOMAIN sessions
          /\ \A t \in DOMAIN sessions : sessions'[t].connectionId = sessions[t].connectionId
      BY <1>1, <1>5, DisconnectFacts
    <2>3. QED
      BY <1>1, <2>1, <2>2 DEF InverseMaps
  <1>6. QED
    BY <1>2, <1>3, <1>4, <1>5, SessionStep

\* A connection that was closed or has no event in the queue stays so: only the
\* transport opens one, with a new number.
LEMMA ClosedStaysClosed ==
    ASSUME IInv, Next, NEW c \in ConnectionId, c < nextConnection, c \notin connections,
           \A i \in 1 .. Len(eventQueue) : ~ Of(eventQueue[i], c)
    PROVE  /\ c \notin connections'
           /\ \A i \in 1 .. Len(eventQueue') : ~ Of(eventQueue'[i], c)
  <1>1. TypeOK
    BY DEF IInv
  <1>n. nextConnection \in Nat /\ ConnectionId \subseteq Nat /\ c # nextConnection
    BY <1>1 DEF TypeOK, ConnectionId
  <1>2. CASE /\ UNCHANGED <<eventQueue, nextConnection, connectionToSession>>
             /\ connections' \subseteq connections
    BY <1>2
  <1>3. ASSUME NEW e \in QueueEvent, eventQueue' = Append(eventQueue, e), ~ Of(e, c)
        PROVE  \A i \in 1 .. Len(eventQueue') : ~ Of(eventQueue'[i], c)
    BY <1>1, <1>3, PushFacts
  <1>4. CASE /\ eventQueue' = Append(eventQueue, [type |-> "Shutdown"])
             /\ UNCHANGED <<connections, nextConnection, connectionToSession>>
    BY <1>3, <1>4 DEF QueueEvent, Of
  <1>5. CASE accept
    <2> DEFINE e == [type |-> "ClientConnected", connection |-> nextConnection]
    <2>1. nextConnection \in ConnectionId
      BY <1>1, <1>5, ServerAssumption DEF TypeOK, ConnectionId, accept
    <2>2. e \in QueueEvent /\ ~ Of(e, c)
      BY <1>n, <2>1 DEF QueueEvent, Of
    <2>3. eventQueue' = Append(eventQueue, e) /\ connections' = connections \cup {nextConnection}
      BY <1>5 DEF accept
    <2>4. QED
      BY <1>n, <1>3, <2>2, <2>3
  <1>6. ASSUME NEW d \in ConnectionId, NEW payload \in Payload, onClientMessage(d, payload)
        PROVE  /\ c \notin connections'
               /\ \A i \in 1 .. Len(eventQueue') : ~ Of(eventQueue'[i], c)
    <2> DEFINE e == [type |-> "ClientMessage", connection |-> d, payload |-> payload]
    <2>1. d \in connections /\ connections' = connections /\ eventQueue' = Append(eventQueue, e)
      BY <1>6, Zenon DEF onClientMessage, networkVars
    <2>2. e \in QueueEvent /\ ~ Of(e, c)
      BY <2>1 DEF QueueEvent, Of
    <2>3. QED
      BY <1>3, <2>1, <2>2
  <1>7. ASSUME NEW d \in ConnectionId, onClientDisconnected(d)
        PROVE  /\ c \notin connections'
               /\ \A i \in 1 .. Len(eventQueue') : ~ Of(eventQueue'[i], c)
    <2> DEFINE e == [type |-> "ClientDisconnected", connection |-> d]
    <2>1. d \in connections /\ connections' = connections \ {d} /\ eventQueue' = Append(eventQueue, e)
      BY <1>7 DEF onClientDisconnected
    <2>2. e \in QueueEvent /\ ~ Of(e, c)
      BY <2>1 DEF QueueEvent, Of
    <2>3. QED
      BY <1>3, <2>1, <2>2
  <1>8. CASE eventQueue # <<>> /\ eventQueue' = Tail(eventQueue) /\ connections' = connections
    BY <1>1, <1>8, TailFacts
  <1>9. CASE connectAdd
    BY <1>8, <1>9 DEF connectAdd, Pop, networkVars
  <1>10. QED
    BY <1>2, <1>4, <1>5, <1>6, <1>7, <1>8, <1>9, QueueStep

LEMMA ActiveWhileOpenStep ==
    ASSUME IInv, [Next]_vars
    PROVE  ActiveWhileOpen'
  <1>1. TypeOK /\ Phases /\ QueueInOrder /\ Known /\ InverseMaps /\ ActiveWhileOpen
    BY DEF IInv
  <1>2. CASE UNCHANGED vars
    BY <1>1, <1>2 DEF ActiveWhileOpen, vars, networkVars, sessionVars
  <1>3. ASSUME Next, NEW s \in DOMAIN sessions, ~ sessions[s].isActive
        PROVE  /\ sessions[s].connectionId \notin connections'
               /\ \A i \in 1 .. Len(eventQueue') : ~ Of(eventQueue'[i], sessions[s].connectionId)
    <2>1. sessions[s].connectionId \in ConnectionId /\ sessions[s].connectionId < nextConnection
      BY <1>1 DEF TypeOK, SessionContext, InverseMaps, Known
    <2>2. QED
      BY <1>1, <1>3, <2>1, ClosedStaysClosed DEF ActiveWhileOpen
  <1>4. CASE Next /\ UNCHANGED <<sessions, connectionToSession>>
    BY <1>3, <1>4 DEF ActiveWhileOpen
  <1>5. CASE Next /\ connectAdd
    <2> DEFINE s == generateSessionId
    <2>1. /\ DOMAIN sessions' = DOMAIN sessions \cup {s}
          /\ \A t \in DOMAIN sessions : sessions'[t] = sessions[t]
          /\ sessions'[s] = [connectionId |-> Head(eventQueue).connection,
                             seat |-> "None", isActive |-> TRUE]
      BY <1>1, <1>5, AddFacts
    <2> HIDE DEF s
    <2>2. QED
      BY <1>3, <1>5, <2>1 DEF ActiveWhileOpen
  <1>6. CASE Next /\ connectSeat
    <2>1. /\ DOMAIN sessions' = DOMAIN sessions
          /\ \A t \in DOMAIN sessions :
                 /\ sessions'[t].connectionId = sessions[t].connectionId
                 /\ sessions'[t].isActive = sessions[t].isActive
      BY <1>1, <1>6, SeatFacts
    <2>2. QED
      BY <1>3, <1>6, <2>1 DEF ActiveWhileOpen
  <1>7. CASE Next /\ disconnect
    <2> DEFINE c == Head(eventQueue).connection
               s == connectionToSession[c]
    <2>1. /\ s \in DOMAIN sessions
          /\ DOMAIN sessions' = DOMAIN sessions
          /\ sessions'[s].connectionId = c
      BY <1>1, <1>7, DisconnectFacts
    <2>a. \A t \in DOMAIN sessions : t # s => sessions'[t] = sessions[t]
      <3>1. Pop("ClientDisconnected") /\ sessions' = [sessions EXCEPT ![getSessionId(c)].isActive = FALSE]
        BY <1>7 DEF disconnect
      <3>2. getSessionId(c) = s
        BY <1>1, <3>1, KnownHead
      <3>3. QED
        BY <3>1, <3>2
    <2>2. /\ 1 \in 1 .. Len(eventQueue) /\ eventQueue # <<>> /\ eventQueue' = Tail(eventQueue)
          /\ eventQueue[1].type = "ClientDisconnected" /\ eventQueue[1].connection = c
          /\ connections' = connections
      BY <1>1, <1>7, PopFacts DEF disconnect, Pop, networkVars
    <2> HIDE DEF c, s
    <2>3. c \notin connections'
      BY <1>1, <2>2 DEF QueueInOrder
    <2>4. ASSUME NEW i \in 1 .. Len(eventQueue'), Of(eventQueue'[i], c)
          PROVE  FALSE
      <3>1. i + 1 \in 1 .. Len(eventQueue) /\ 1 < i + 1 /\ eventQueue'[i] = eventQueue[i + 1]
        BY <1>1, <2>2, TailFacts
      <3>2. QED
        BY <1>1, <2>2, <2>4, <3>1 DEF QueueInOrder, Of
    <2>5. QED
      BY <1>3, <1>7, <2>1, <2>a, <2>3, <2>4 DEF ActiveWhileOpen
  <1>8. QED
    BY <1>2, <1>4, <1>5, <1>6, <1>7, SessionStep

LEMMA SeatHasOneActiveStep ==
    ASSUME IInv, [Next]_vars
    PROVE  SeatHasOneActive'
  <1>1. TypeOK /\ Phases /\ QueueInOrder /\ Known /\ InverseMaps /\ ActiveWhileOpen /\ SeatHasOneActive
    BY DEF IInv
  <1>2. CASE UNCHANGED <<sessions, connectionToSession>>
    BY <1>1, <1>2 DEF SeatHasOneActive
  <1>3. CASE connectAdd
    <2> DEFINE s == generateSessionId
    <2>1. /\ DOMAIN sessions' = DOMAIN sessions \cup {s}
          /\ sessions'[s] = [connectionId |-> Head(eventQueue).connection,
                             seat |-> "None", isActive |-> TRUE]
          /\ \A t \in DOMAIN sessions : sessions'[t] = sessions[t]
      BY <1>1, <1>3, AddFacts
    <2> HIDE DEF s
    <2>2. ~ isPlayer(sessions'[s].seat)
      BY <2>1 DEF isPlayer, PlayerSeat
    <2>3. QED
      BY <1>1, <2>1, <2>2 DEF SeatHasOneActive
  <1>4. CASE connectSeat
    <2>1. /\ DOMAIN sessions' = DOMAIN sessions
          /\ sessions'[connecting].seat = freeSeat
          /\ \A t \in DOMAIN sessions : t # connecting => sessions'[t] = sessions[t]
      BY <1>1, <1>4, SeatFacts
    <2>2. ASSUME NEW t \in DOMAIN sessions, sessions[t].isActive,
                 isPlayer(freeSeat), sessions[t].seat = freeSeat
          PROVE  FALSE
      <3>1. sessions[t].connectionId \in getConnectionIdBySeat(freeSeat)
        BY <2>2 DEF getConnectionIdBySeat
      <3>2. getConnectionIdBySeat(freeSeat) = {}
        BY <2>2 DEF freeSeat, isPlayer, PlayerSeat
      <3>3. QED
        BY <3>1, <3>2
    <2>3. QED
      BY <1>1, <2>1, <2>2 DEF SeatHasOneActive
  <1>5. CASE disconnect
    <2>1. /\ DOMAIN sessions' = DOMAIN sessions
          /\ \A t \in DOMAIN sessions :
                 /\ sessions'[t].seat = sessions[t].seat
                 /\ sessions'[t].isActive => sessions[t].isActive
      BY <1>1, <1>5, DisconnectFacts
    <2>2. QED
      BY <1>1, <2>1 DEF SeatHasOneActive
  <1>6. QED
    BY <1>2, <1>3, <1>4, <1>5, SessionStep

-----------------------------------------------------------------------------
(* What the clients are told of their sessions, and the calls.             *)

\* Two steps send.
LEMMA OutboxStep ==
    ASSUME [Next]_vars
    PROVE  \/ outbox' = outbox
           \/ connectAssign
           \/ \E s \in SessionId : visitSession(s)
  <1> USE DEF vars, ownerVars, networkVars, sessionVars, broadcastVars
  <1>1. CASE start \/ Owner \/ Terminated \/ UNCHANGED vars
    BY <1>1 DEF start, Owner, stop, stopPushesShutdown, stopNetwork, joinThread, Terminated
  <1>2. CASE Network
    BY <1>2 DEF Network, accept, onClientMessage, onClientDisconnected
  <1>3. CASE enterLoop \/ connectAdd \/ connectSeat \/ forwardMessage \/ dropMessage
             \/ disconnect \/ shutdown
    BY <1>3 DEF enterLoop, connectAdd, connectSeat, forwardMessage, dropMessage, disconnect,
                shutdown
  <1>4. CASE broadcast \/ meetNewSession \/ endBroadcast
    BY <1>4 DEF broadcast, meetNewSession, endBroadcast
  <1>5. QED
    BY <1>1, <1>2, <1>3, <1>4 DEF Next, ServerLoop, Broadcast

\* Two steps move connecting, three call the handler.
LEMMA CallStep ==
    ASSUME [Next]_vars
    PROVE  /\ connecting' = connecting \/ connectAdd \/ connectAssign
           /\ calls' = calls \/ connectAssign \/ forwardMessage \/ disconnect
  <1> USE DEF vars, ownerVars, networkVars, sessionVars, broadcastVars
  <1>1. CASE start \/ Owner \/ Terminated \/ UNCHANGED vars
    BY <1>1 DEF start, Owner, stop, stopPushesShutdown, stopNetwork, joinThread, Terminated
  <1>2. CASE Network
    BY <1>2 DEF Network, accept, onClientMessage, onClientDisconnected
  <1>3. CASE ServerLoop
    BY <1>3 DEF ServerLoop, enterLoop, connectAdd, connectSeat, forwardMessage, dropMessage,
                disconnect, shutdown
  <1>4. CASE Broadcast
    BY <1>4 DEF Broadcast, broadcast, meetNewSession, endBroadcast, visitSession
  <1>5. QED
    BY <1>1, <1>2, <1>3, <1>4 DEF Next

\* The session that connectAssign finishes is that of its connection.
LEMMA AssignFacts ==
    ASSUME TypeOK, Phases, InverseMaps, connectAssign
    PROVE  /\ connecting \in DOMAIN sessions /\ connecting \in SessionId /\ connecting' = 0
           /\ [type |-> "session", session |-> connecting] \in ServerMessage
           /\ outbox' = Sent(connecting, [type |-> "session", session |-> connecting])
           /\ [call |-> "onClientConnected", session |-> connecting,
               seat |-> getSeat(connecting)] \in HandlerCall
           /\ calls' = Append(calls, [call |-> "onClientConnected", session |-> connecting,
                                      seat |-> getSeat(connecting)])
           /\ UNCHANGED <<sessions, connectionToSession>>
           /\ sessions[connecting].connectionId \in DOMAIN connectionToSession
           /\ connectionToSession[sessions[connecting].connectionId] = connecting
  <1>1. connecting \in DOMAIN sessions /\ connecting \in SessionId
    BY DEF Phases, TypeOK, connectAssign
  <1>2. getSeat(connecting) \in Seat
    BY <1>1 DEF TypeOK, getSeat, SessionContext
  <1>3. QED
    BY <1>1, <1>2 DEF connectAssign, InverseMaps, ServerMessage, HandlerCall

LEMMA ToldOnceStep ==
    ASSUME IInv, [Next]_vars
    PROVE  ToldOnce'
  <1>1. /\ TypeOK /\ Phases /\ QueueInOrder /\ Known /\ InverseMaps /\ ActiveWhileOpen
        /\ BroadcastsCounted /\ ToldOnce
    BY DEF IInv
  <1>2. CASE UNCHANGED <<connectionToSession, connecting, outbox>>
    BY <1>1, <1>2 DEF ToldOnce
  <1>3. CASE connectAdd
    <2> DEFINE d == Head(eventQueue).connection
               s == generateSessionId
    <2>1. /\ s \notin DOMAIN sessions /\ connecting' = s
          /\ DOMAIN connectionToSession' = DOMAIN connectionToSession \cup {d}
          /\ \A c \in DOMAIN connectionToSession : connectionToSession'[c] = connectionToSession[c]
      BY <1>1, <1>3, AddFacts
    <2>2. outbox' = outbox
      BY <1>3 DEF connectAdd
    <2> HIDE DEF d, s
    <2>3. \A c \in DOMAIN connectionToSession : connectionToSession'[c] # connecting'
      BY <1>1, <2>1 DEF InverseMaps
    <2>4. QED
      BY <1>1, <2>1, <2>2, <2>3 DEF ToldOnce
  <1>4. CASE connectAssign
    <2> DEFINE m == [type |-> "session", session |-> connecting]
    <2>1. /\ connecting \in DOMAIN sessions /\ connecting' = 0 /\ m \in ServerMessage
          /\ outbox' = Sent(connecting, m)
          /\ connectionToSession' = connectionToSession
          /\ sessions[connecting].connectionId \in DOMAIN connectionToSession
          /\ connectionToSession[sessions[connecting].connectionId] = connecting
      BY <1>1, <1>4, AssignFacts
    <2>2. \A c \in DOMAIN connectionToSession : connectionToSession[c] # connecting'
      BY <1>1, <2>1, ServerAssumption DEF TypeOK, SessionId
    <2>3. m.type = "session" /\ m.session = connecting
      OBVIOUS
    <2> HIDE DEF m
    <2>4. ASSUME NEW c \in ConnectionId, NEW i \in 1 .. Len(outbox'[c]), outbox'[c][i].type = "session"
          PROVE  /\ c \in DOMAIN connectionToSession'
                 /\ outbox'[c][i].session = connectionToSession'[c]
                 /\ connectionToSession'[c] # connecting'
                 /\ \A j \in 1 .. Len(outbox'[c]) : outbox'[c][j].type = "session" => i = j
      <3>1. CASE outbox'[c] = outbox[c]
        BY <1>1, <2>1, <2>2, <2>4, <3>1 DEF ToldOnce
      <3>2. CASE /\ c = sessions[connecting].connectionId
                 /\ Len(outbox'[c]) = Len(outbox[c]) + 1
                 /\ \A j \in 1 .. Len(outbox[c]) : outbox'[c][j] = outbox[c][j]
                 /\ outbox'[c][Len(outbox[c]) + 1] = m
        <4>1. \A j \in 1 .. Len(outbox[c]) : outbox'[c][j].type # "session"
          BY <1>1, <2>1, <3>2 DEF ToldOnce
        <4>2. \A j \in 1 .. Len(outbox'[c]) :
                  j \in 1 .. Len(outbox[c]) \/ j = Len(outbox[c]) + 1
          <5>1. Len(outbox[c]) \in Nat
            BY <1>1, LenProperties DEF TypeOK
          <5>2. \A n \in Nat : \A j \in 1 .. n + 1 : j \in 1 .. n \/ j = n + 1
            OBVIOUS
          <5>3. QED
            BY <3>2, <5>1, <5>2
        <4>3. i = Len(outbox[c]) + 1
          BY <2>4, <4>1, <4>2
        <4>4. \A j \in 1 .. Len(outbox'[c]) : outbox'[c][j].type = "session" => i = j
          BY <4>1, <4>2, <4>3
        <4>5. QED
          BY <2>1, <2>2, <2>3, <3>2, <4>3, <4>4
      <3>3. QED
        BY <1>1, <2>1, <3>1, <3>2, SentFacts
    <2>5. QED
      BY <2>4 DEF ToldOnce
  <1>5. ASSUME NEW s \in SessionId, visitSession(s), outbox' # outbox
        PROVE  ToldOnce'
    <2> DEFINE m == [type |-> "broadcast", number |-> broadcastNumber]
    <2>1. /\ s \in DOMAIN sessions /\ broadcastNumber \in 1 .. MaxBroadcasts
          /\ outbox' = Sent(s, m) /\ connectionToSession' = connectionToSession
          /\ connecting' = connecting
      BY <1>1, <1>5, ServerAssumption DEF TypeOK, BroadcastsCounted, visitSession, sessionVars
    <2>2. m \in ServerMessage /\ m.type = "broadcast"
      BY <2>1 DEF ServerMessage
    <2> HIDE DEF m
    <2>3. ASSUME NEW c \in ConnectionId
          PROVE  \A i \in 1 .. Len(outbox'[c]) : outbox'[c][i].type = "session" =>
                     i \in 1 .. Len(outbox[c]) /\ outbox'[c][i] = outbox[c][i]
      <3>1. CASE outbox'[c] = outbox[c]
        BY <3>1
      <3>2. CASE /\ Len(outbox'[c]) = Len(outbox[c]) + 1
                 /\ \A j \in 1 .. Len(outbox[c]) : outbox'[c][j] = outbox[c][j]
                 /\ outbox'[c][Len(outbox[c]) + 1] = m
        <4>1. Len(outbox[c]) \in Nat
          BY <1>1, LenProperties DEF TypeOK
        <4>2. \A n \in Nat : \A j \in 1 .. n + 1 : j \in 1 .. n \/ j = n + 1
          OBVIOUS
        <4>3. QED
          BY <2>2, <3>2, <4>1, <4>2
      <3>3. QED
        BY <1>1, <2>1, <2>2, <3>1, <3>2, SentFacts
    <2>4. QED
      BY <1>1, <2>1, <2>3 DEF ToldOnce
  <1>6. CASE UNCHANGED <<connectionToSession, connecting>> /\ \E s \in SessionId : visitSession(s)
    BY <1>2, <1>5, <1>6
  <1>7. ~ connectAdd /\ ~ connectAssign =>
            UNCHANGED <<connectionToSession, connecting>>
    <2>1. ASSUME connectSeat \/ disconnect
          PROVE  connectionToSession' = connectionToSession
      BY <2>1 DEF connectSeat, disconnect
    <2>2. QED
      BY <2>1, SessionStep, CallStep
  <1>8. QED
    BY <1>2, <1>3, <1>4, <1>6, <1>7, OutboxStep

LEMMA HandlerStep ==
    ASSUME IInv, [Next]_vars
    PROVE  HandlerKnows' /\ CallsInOrder'
  <1>1. /\ TypeOK /\ Phases /\ QueueInOrder /\ Known /\ InverseMaps /\ ActiveWhileOpen
        /\ HandlerKnows /\ CallsInOrder
    BY DEF IInv
  <1>2. ASSUME calls' = calls
        PROVE  CallsInOrder'
    BY <1>1, <1>2 DEF CallsInOrder
  <1>3. CASE UNCHANGED <<sessions, connecting, calls>>
    BY <1>1, <1>2, <1>3 DEF HandlerKnows
  \* A call comes after the first of its session and before the last.
  <1>4. ASSUME NEW k \in HandlerCall, calls' = Append(calls, k),
               k.call = "onClientConnected" =>
                   \A j \in 1 .. Len(calls) : calls[j].session # k.session,
               k.call # "onClientConnected" => k.session \in DOMAIN sessions \ {connecting},
               \A j \in 1 .. Len(calls) :
                   calls[j].session = k.session => calls[j].call # "onClientDisconnected"
        PROVE  CallsInOrder'
    <2> DEFINE n == Len(calls)
    <2>1. /\ n \in Nat
          /\ \A i \in 1 .. n : calls'[i] = calls[i]
          /\ calls'[n + 1] = k
          /\ \A i \in 1 .. Len(calls') : i \in 1 .. n \/ i = n + 1
      BY <1>1, <1>4, CallFacts
    <2>2. \A i \in 1 .. n : \A j \in 1 .. i - 1 : j \in 1 .. n
      BY <2>1
    <2>3. 1 .. (n + 1) - 1 = 1 .. n
      BY <2>1
    <2> HIDE DEF n
    <2>4. ASSUME NEW i \in 1 .. n
          PROVE  /\ calls'[i].call # "onClientConnected" =>
                        \E j \in 1 .. i - 1 : /\ calls'[j].session = calls'[i].session
                                             /\ calls'[j].call = "onClientConnected"
                 /\ \A j \in 1 .. i - 1 : calls'[j].session = calls'[i].session =>
                        /\ calls'[i].call # "onClientConnected"
                        /\ calls'[j].call # "onClientDisconnected"
      <3>1. /\ calls[i].call # "onClientConnected" =>
                   \E j \in 1 .. i - 1 : /\ calls[j].session = calls[i].session
                                        /\ calls[j].call = "onClientConnected"
            /\ \A j \in 1 .. i - 1 : calls[j].session = calls[i].session =>
                   /\ calls[i].call # "onClientConnected"
                   /\ calls[j].call # "onClientDisconnected"
        BY <1>1 DEF CallsInOrder, n
      <3>2. calls'[i] = calls[i] /\ \A j \in 1 .. i - 1 : calls'[j] = calls[j]
        BY <2>1, <2>2
      <3>3. QED
        BY <3>1, <3>2
    <2>5. /\ k.call # "onClientConnected" =>
                 \E j \in 1 .. n : /\ calls'[j].session = k.session
                                   /\ calls'[j].call = "onClientConnected"
          /\ \A j \in 1 .. n : calls'[j].session = k.session =>
                 /\ k.call # "onClientConnected"
                 /\ calls'[j].call # "onClientDisconnected"
      BY <1>1, <1>4, <2>1 DEF HandlerKnows, n
    <2>6. QED
      BY <2>1, <2>3, <2>4, <2>5 DEF CallsInOrder
  <1>5. CASE connectAdd
    <2> DEFINE s == generateSessionId
    <2>1. /\ s \notin DOMAIN sessions /\ connecting = 0 /\ connecting' = s
          /\ DOMAIN sessions' = DOMAIN sessions \cup {s}
          /\ \A t \in DOMAIN sessions : sessions'[t] = sessions[t]
      BY <1>1, <1>5, AddFacts
    <2>2. calls' = calls
      BY <1>5 DEF connectAdd
    <2> HIDE DEF s
    <2>3. 0 \notin DOMAIN sessions
      BY <1>1, ServerAssumption DEF TypeOK, SessionId
    <2>4. QED
      BY <1>1, <1>2, <2>1, <2>2, <2>3 DEF HandlerKnows
  <1>6. CASE connectSeat
    <2>1. /\ DOMAIN sessions' = DOMAIN sessions
          /\ \A t \in DOMAIN sessions : sessions'[t].isActive = sessions[t].isActive
      BY <1>1, <1>6, SeatFacts
    <2>2. calls' = calls /\ connecting' = connecting
      BY <1>6 DEF connectSeat
    <2>3. QED
      BY <1>1, <1>2, <2>1, <2>2 DEF HandlerKnows
  <1>7. CASE connectAssign
    <2> DEFINE k == [call |-> "onClientConnected", session |-> connecting,
                     seat |-> getSeat(connecting)]
    <2>1. /\ connecting \in DOMAIN sessions /\ connecting' = 0
          /\ k \in HandlerCall /\ calls' = Append(calls, k)
          /\ sessions' = sessions
      BY <1>1, <1>7, AssignFacts
    <2>2. k.call = "onClientConnected" /\ k.session = connecting
      OBVIOUS
    <2> HIDE DEF k
    <2>3. CallsInOrder'
      BY <1>1, <1>4, <2>1, <2>2 DEF HandlerKnows
    <2>4. /\ \A i \in 1 .. Len(calls) : calls'[i] = calls[i] /\ i \in 1 .. Len(calls')
          /\ calls'[Len(calls) + 1] = k /\ Len(calls) + 1 \in 1 .. Len(calls')
          /\ \A i \in 1 .. Len(calls') : i \in 1 .. Len(calls) \/ i = Len(calls) + 1
      <3>1. \A n \in Nat : n + 1 \in 1 .. n + 1 /\ \A i \in 1 .. n : i \in 1 .. n + 1
        OBVIOUS
      <3>2. QED
        BY <1>1, <2>1, <3>1, CallFacts
    <2>5. 0 \notin DOMAIN sessions
      BY <1>1, ServerAssumption DEF TypeOK, SessionId
    <2>6. ASSUME NEW i \in 1 .. Len(calls')
          PROVE  /\ calls'[i].session \in DOMAIN sessions' \ {connecting'}
                 /\ calls'[i].call = "onClientDisconnected" => ~ sessions'[calls'[i].session].isActive
      BY <1>1, <2>1, <2>2, <2>4, <2>5 DEF HandlerKnows
    <2>7. ASSUME NEW s \in DOMAIN sessions' \ {connecting'}
          PROVE  \E i \in 1 .. Len(calls') :
                     calls'[i].session = s /\ calls'[i].call = "onClientConnected"
      <3>1. CASE s = connecting
        BY <2>2, <2>4, <3>1
      <3>2. CASE s # connecting
        BY <1>1, <2>1, <2>4, <2>7, <3>2 DEF HandlerKnows
      <3>3. QED
        BY <3>1, <3>2
    <2>8. QED
      BY <2>3, <2>6, <2>7 DEF HandlerKnows
  \* A call of a session that was active keeps what the handler knows.
  <1>8. ASSUME NEW k \in HandlerCall, calls' = Append(calls, k), connecting' = connecting,
               k.session \in DOMAIN sessions \ {connecting},
               k.call = "onClientDisconnected" => ~ sessions'[k.session].isActive,
               DOMAIN sessions' = DOMAIN sessions,
               \A t \in DOMAIN sessions : sessions'[t].isActive => sessions[t].isActive,
               \A t \in DOMAIN sessions : ~ sessions[t].isActive => ~ sessions'[t].isActive
        PROVE  HandlerKnows'
    <2>1. /\ \A i \in 1 .. Len(calls) : calls'[i] = calls[i] /\ i \in 1 .. Len(calls')
          /\ calls'[Len(calls) + 1] = k
          /\ \A i \in 1 .. Len(calls') : i \in 1 .. Len(calls) \/ i = Len(calls) + 1
      <3>1. \A n \in Nat : \A i \in 1 .. n : i \in 1 .. n + 1
        OBVIOUS
      <3>2. QED
        BY <1>1, <1>8, <3>1, CallFacts
    <2>2. ASSUME NEW i \in 1 .. Len(calls')
          PROVE  /\ calls'[i].session \in DOMAIN sessions' \ {connecting'}
                 /\ calls'[i].call = "onClientDisconnected" => ~ sessions'[calls'[i].session].isActive
      BY <1>1, <1>8, <2>1 DEF HandlerKnows
    <2>3. ASSUME NEW s \in DOMAIN sessions' \ {connecting'}
          PROVE  \E i \in 1 .. Len(calls') :
                     calls'[i].session = s /\ calls'[i].call = "onClientConnected"
      BY <1>1, <1>8, <2>1 DEF HandlerKnows
    <2>4. QED
      BY <2>2, <2>3 DEF HandlerKnows
  <1>9. CASE forwardMessage
    <2> DEFINE c == Head(eventQueue).connection
               k == [call |-> "onNetworkEvent", session |-> getSessionId(c),
                     event |-> Head(eventQueue).payload]
    <2>1. /\ Pop("ClientMessage") /\ Head(eventQueue).payload \in ClientEvent
          /\ calls' = Append(calls, k) /\ connecting = 0
          /\ UNCHANGED <<sessions, connecting>>
      BY <1>1, <1>9 DEF forwardMessage, Forwarded, sessionVars, Pop, Phases
    <2>2. /\ getSessionId(c) \in DOMAIN sessions /\ getSessionId(c) \in SessionId
          /\ sessions[getSessionId(c)].isActive
      BY <1>1, <2>1, KnownHead DEF TypeOK
    <2>3. /\ k \in HandlerCall /\ k.call = "onNetworkEvent" /\ k.session = getSessionId(c)
          /\ k.session \in DOMAIN sessions \ {connecting}
      BY <2>1, <2>2, ServerAssumption DEF HandlerCall, SessionId
    <2> HIDE DEF k
    <2>4. CallsInOrder'
      BY <1>1, <1>4, <2>1, <2>2, <2>3 DEF HandlerKnows
    <2>5. QED
      BY <1>8, <2>1, <2>3, <2>4
  <1>10. CASE disconnect
    <2> DEFINE s == connectionToSession[Head(eventQueue).connection]
               k == [call |-> "onClientDisconnected", session |-> s]
    <2>1. /\ s \in DOMAIN sessions /\ s # connecting /\ sessions[s].isActive
          /\ DOMAIN sessions' = DOMAIN sessions
          /\ ~ sessions'[s].isActive
          /\ \A t \in DOMAIN sessions : sessions'[t].isActive => sessions[t].isActive
          /\ calls' = IF isPlayer(getSeat(s)) THEN Append(calls, k) ELSE calls
      BY <1>1, <1>10, DisconnectFacts
    <2>2. connecting' = connecting
      BY <1>10 DEF disconnect
    <2>3. \A t \in DOMAIN sessions : ~ sessions[t].isActive => ~ sessions'[t].isActive
      BY <2>1
    <2>4. /\ k \in HandlerCall /\ k.call = "onClientDisconnected" /\ k.session = s
          /\ s \in SessionId
      BY <1>1, <2>1 DEF HandlerCall, TypeOK
    <2> HIDE DEF k, s
    <2>5. CASE calls' = calls
      BY <1>1, <1>2, <2>1, <2>2, <2>3, <2>5 DEF HandlerKnows
    <2>6. CASE calls' = Append(calls, k)
      <3>1. CallsInOrder'
        BY <1>1, <1>4, <2>1, <2>4, <2>6 DEF HandlerKnows
      <3>2. HandlerKnows'
        BY <1>8, <2>1, <2>2, <2>3, <2>4, <2>6
      <3>3. QED
        BY <3>1, <3>2
    <2>7. QED
      BY <2>1, <2>5, <2>6
  <1>11. QED
    BY <1>3, <1>5, <1>6, <1>7, <1>9, <1>10, SessionStep, CallStep

-----------------------------------------------------------------------------
(* The broadcasts.                                                         *)

\* The broadcasts in a box have consecutive numbers, and the last has number n.
NoGap(box) ==
    \A i, j \in 1 .. Len(box) :
        /\ i < j
        /\ box[i].type = "broadcast" /\ box[j].type = "broadcast"
        /\ \A k \in i + 1 .. j - 1 : box[k].type # "broadcast"
        => box[j].number = box[i].number + 1

LastIs(box, n) ==
    \A i \in 1 .. Len(box) :
        /\ box[i].type = "broadcast"
        /\ \A j \in i + 1 .. Len(box) : box[j].type # "broadcast"
        => box[i].number = n

\* One more message in a box: what is no broadcast, or the next broadcast.
LEMMA AppendToBox ==
    ASSUME NEW box, NEW longer, NEW m, NEW n \in Int, NEW last,
           Len(box) \in Nat, Len(longer) = Len(box) + 1,
           \A i \in 1 .. Len(box) : longer[i] = box[i],
           longer[Len(box) + 1] = m,
           NoGap(box), LastIs(box, n),
           IF m.type = "broadcast" THEN m.number = n + 1 /\ last = n + 1 ELSE last = n
    PROVE  NoGap(longer) /\ LastIs(longer, last)
  <1> DEFINE L == Len(box)
  <1>1. /\ L \in Nat /\ Len(longer) = L + 1 /\ longer[L + 1] = m
        /\ \A i \in 1 .. L : longer[i] = box[i]
    OBVIOUS
  <1> HIDE DEF L
  <1>2. /\ \A i \in 1 .. L + 1 : i \in 1 .. L \/ i = L + 1
        /\ \A i \in 1 .. L : i \in 1 .. L + 1 /\ ~ (L + 1 < i) /\ i < L + 1
        /\ L + 1 \in 1 .. L + 1 /\ ~ (L + 1 < L + 1)
        /\ \A i \in 1 .. L : \A k \in i + 1 .. L : k \in 1 .. L /\ k \in i + 1 .. L + 1
        /\ \A i \in 1 .. L : \A j \in 1 .. L : \A k \in i + 1 .. j - 1 : k \in 1 .. L
        /\ \A i \in 1 .. L : i + 1 .. (L + 1) - 1 = i + 1 .. L
        /\ \A i \in 1 .. L : L + 1 \in i + 1 .. L + 1
    BY <1>1
  <1>3. ASSUME NEW i \in 1 .. L, NEW j \in 1 .. L, i < j,
               longer[i].type = "broadcast", longer[j].type = "broadcast",
               \A k \in i + 1 .. j - 1 : longer[k].type # "broadcast"
        PROVE  longer[j].number = longer[i].number + 1
    <2>1. \A k \in i + 1 .. j - 1 : box[k].type # "broadcast"
      BY <1>1, <1>2, <1>3
    <2>2. box[j].number = box[i].number + 1
      BY <1>1, <1>3, <2>1 DEF NoGap, L
    <2>3. QED
      BY <1>1, <2>2
  <1>4. ASSUME NEW i \in 1 .. L, longer[i].type = "broadcast",
               \A k \in i + 1 .. L : longer[k].type # "broadcast"
        PROVE  longer[i].number = n
    <2>1. \A k \in i + 1 .. L : box[k].type # "broadcast"
      BY <1>1, <1>2, <1>4
    <2>2. box[i].number = n
      BY <1>1, <1>4, <2>1 DEF LastIs, L
    <2>3. QED
      BY <1>1, <2>2
  <1>5. CASE m.type # "broadcast"
    <2>1. NoGap(longer)
      <3>1. SUFFICES ASSUME NEW i \in 1 .. L + 1, NEW j \in 1 .. L + 1, i < j,
                            longer[i].type = "broadcast", longer[j].type = "broadcast",
                            \A k \in i + 1 .. j - 1 : longer[k].type # "broadcast"
                     PROVE  longer[j].number = longer[i].number + 1
        BY <1>1 DEF NoGap
      <3>2. i \in 1 .. L /\ j \in 1 .. L
        BY <1>1, <1>2, <1>5, <3>1
      <3>3. QED
        BY <1>3, <3>1, <3>2
    <2>2. LastIs(longer, last)
      <3>1. SUFFICES ASSUME NEW i \in 1 .. L + 1, longer[i].type = "broadcast",
                            \A k \in i + 1 .. L + 1 : longer[k].type # "broadcast"
                     PROVE  longer[i].number = n
        BY <1>1, <1>5 DEF LastIs
      <3>2. i \in 1 .. L
        BY <1>1, <1>2, <1>5, <3>1
      <3>3. QED
        BY <1>2, <1>4, <3>1, <3>2
    <2>3. QED
      BY <1>5, <2>1, <2>2
  <1>6. CASE m.type = "broadcast"
    <2>1. NoGap(longer)
      <3>1. SUFFICES ASSUME NEW i \in 1 .. L + 1, NEW j \in 1 .. L + 1, i < j,
                            longer[i].type = "broadcast", longer[j].type = "broadcast",
                            \A k \in i + 1 .. j - 1 : longer[k].type # "broadcast"
                     PROVE  longer[j].number = longer[i].number + 1
        BY <1>1 DEF NoGap
      <3>2. i \in 1 .. L
        BY <1>2, <3>1
      <3>3. CASE j \in 1 .. L
        BY <1>3, <3>1, <3>2, <3>3
      <3>4. CASE j = L + 1
        <4>1. \A k \in i + 1 .. L : longer[k].type # "broadcast"
          BY <1>2, <3>1, <3>2, <3>4
        <4>2. longer[i].number = n /\ longer[j].number = n + 1
          BY <1>1, <1>4, <1>6, <3>1, <3>2, <3>4, <4>1
        <4>3. QED
          BY <4>2
      <3>5. QED
        BY <1>2, <3>3, <3>4
    <2>2. LastIs(longer, last)
      <3>1. SUFFICES ASSUME NEW i \in 1 .. L + 1, longer[i].type = "broadcast",
                            \A k \in i + 1 .. L + 1 : longer[k].type # "broadcast"
                     PROVE  longer[i].number = n + 1
        BY <1>1, <1>6 DEF LastIs
      <3>2. i = L + 1
        BY <1>1, <1>2, <1>6, <3>1
      <3>3. QED
        BY <1>1, <1>6, <3>2
    <2>3. QED
      BY <1>6, <2>1, <2>2
  <1>7. QED
    BY <1>5, <1>6

LEMMA AppendOther ==
    ASSUME NEW box, NEW longer, NEW m, NEW n \in Int,
           Len(box) \in Nat, Len(longer) = Len(box) + 1,
           \A i \in 1 .. Len(box) : longer[i] = box[i],
           longer[Len(box) + 1] = m,
           NoGap(box), LastIs(box, n), m.type # "broadcast"
    PROVE  NoGap(longer) /\ LastIs(longer, n)
BY AppendToBox

LEMMA AppendBroadcast ==
    ASSUME NEW box, NEW longer, NEW m, NEW n \in Int,
           Len(box) \in Nat, Len(longer) = Len(box) + 1,
           \A i \in 1 .. Len(box) : longer[i] = box[i],
           longer[Len(box) + 1] = m,
           NoGap(box), LastIs(box, n), m.type = "broadcast", m.number = n + 1
    PROVE  NoGap(longer) /\ LastIs(longer, n + 1)
BY AppendToBox

\* What the boxes hold, in these terms.
LEMMA Boxes ==
    ASSUME TypeOK, BroadcastsCounted, NoneMissing, NEW c \in ConnectionId
    PROVE  /\ NoGap(outbox[c])
           /\ c \in connections => LastIs(outbox[c], IF connectionToSession[c] \in unvisited
                                                     THEN broadcastNumber - 1 ELSE broadcastNumber)
BY DEF NoGap, LastIs, BroadcastsCounted, NoneMissing

\* The steps that move what the broadcasts depend on.
LEMMA BroadcastStep ==
    ASSUME [Next]_vars
    PROVE  \/ UNCHANGED broadcastVars
           \/ broadcast \/ meetNewSession \/ endBroadcast
           \/ \E s \in SessionId : visitSession(s)
  <1> USE DEF vars, ownerVars, networkVars, sessionVars, broadcastVars
  <1>1. CASE start \/ Owner \/ Terminated \/ UNCHANGED vars
    BY <1>1 DEF start, Owner, stop, stopPushesShutdown, stopNetwork, joinThread, Terminated
  <1>2. CASE Network
    BY <1>2 DEF Network, accept, onClientMessage, onClientDisconnected
  <1>3. CASE ServerLoop
    BY <1>3 DEF ServerLoop, enterLoop, connectAdd, connectSeat, connectAssign, forwardMessage,
                dropMessage, disconnect, shutdown, Pop
  <1>4. QED
    BY <1>1, <1>2, <1>3 DEF Next, Broadcast

\* The sessions grow and keep their seats once they have one.
LEMMA SessionsGrow ==
    ASSUME IInv, [Next]_vars
    PROVE  /\ DOMAIN sessions \subseteq DOMAIN sessions'
           /\ \A s \in DOMAIN sessions : sessions[s].seat # "None" => sessions'[s].seat # "None"
           /\ \A c \in DOMAIN connectionToSession :
                  c \in DOMAIN connectionToSession' /\ connectionToSession'[c] = connectionToSession[c]
  <1>1. TypeOK /\ Phases /\ QueueInOrder /\ Known /\ InverseMaps /\ ActiveWhileOpen
    BY DEF IInv
  <1>2. CASE UNCHANGED <<sessions, connectionToSession>>
    BY <1>2
  <1>3. CASE connectAdd
    BY <1>1, <1>3, AddFacts
  <1>4. CASE connectSeat
    <2>1. connectionToSession' = connectionToSession
      BY <1>4 DEF connectSeat
    <2>2. QED
      BY <1>1, <1>4, <2>1, SeatFacts
  <1>5. CASE disconnect
    <2>1. connectionToSession' = connectionToSession
      BY <1>5 DEF disconnect
    <2>2. QED
      BY <1>1, <1>5, <2>1, DisconnectFacts
  <1>6. QED
    BY <1>2, <1>3, <1>4, <1>5, SessionStep

LEMMA NewConnectionIsUnknown ==
    ASSUME IInv, Next, NEW c \in DOMAIN connectionToSession, c \in connections'
    PROVE  c \in connections
  <1>1. TypeOK /\ Known
    BY DEF IInv
  <1>2. nextConnection \in Nat /\ c \in Nat /\ c < nextConnection
    <2>1. c \in ConnectionId
      BY <1>1 DEF TypeOK
    <2>2. nextConnection \in Nat /\ c \in Nat
      BY <1>1, <2>1 DEF TypeOK, ConnectionId
    <2>3. QED
      BY <1>1, <2>1, <2>2 DEF Known
  <1>3. CASE connections' \subseteq connections
    BY <1>3
  <1>4. CASE accept
    BY <1>2, <1>4 DEF accept
  <1>5. ASSUME NEW d \in ConnectionId,
               onClientDisconnected(d) \/ \E payload \in Payload : onClientMessage(d, payload)
        PROVE  connections' \subseteq connections
    BY <1>5 DEF onClientDisconnected, onClientMessage
  <1>6. ASSUME connectAdd
        PROVE  connections' = connections
    BY <1>6 DEF connectAdd, Pop, networkVars
  <1>7. QED
    BY <1>3, <1>4, <1>5, <1>6, QueueStep

LEMMA BroadcastsStep ==
    ASSUME IInv, [Next]_vars
    PROVE  BroadcastsCounted' /\ NoneMissing'
  <1> DEFINE Last(c) == IF connectionToSession[c] \in unvisited
                        THEN broadcastNumber - 1 ELSE broadcastNumber
             Told(c) == \E i \in 1 .. Len(outbox[c]) : outbox[c][i].type = "broadcast"
  <1>1. /\ TypeOK /\ Phases /\ QueueInOrder /\ Known /\ InverseMaps /\ ActiveWhileOpen
        /\ BroadcastsCounted /\ NoneMissing
    BY DEF IInv
  <1>n. broadcastNumber \in Nat
    BY <1>1, ServerAssumption DEF TypeOK
  <1>o. \A c \in ConnectionId : Told(c) =>
            /\ c \in DOMAIN connectionToSession
            /\ connectionToSession[c] \in DOMAIN sessions
            /\ sessions[connectionToSession[c]].seat # "None"
    BY <1>1 DEF BroadcastsCounted, InverseMaps
  <1>2. /\ (unvisited \subseteq DOMAIN sessions)'
        /\ unvisited' # {} => broadcasting'
        /\ broadcasting' => broadcastNumber' > 0
    <2>1. CASE UNCHANGED broadcastVars
      BY <1>1, <2>1, SessionsGrow DEF BroadcastsCounted, broadcastVars
    <2>2. CASE broadcast
      BY <1>1, <1>n, <2>2 DEF BroadcastsCounted, broadcast, sessionVars
    <2>3. CASE meetNewSession
      BY <1>1, <2>3 DEF BroadcastsCounted, meetNewSession, sessionVars, Phases
    <2>4. CASE endBroadcast
      BY <1>1, <2>4 DEF BroadcastsCounted, endBroadcast, sessionVars
    <2>5. ASSUME NEW s \in SessionId, visitSession(s)
          PROVE  /\ (unvisited \subseteq DOMAIN sessions)'
                 /\ unvisited' # {} => broadcasting'
                 /\ broadcasting' => broadcastNumber' > 0
      BY <1>1, <2>5 DEF BroadcastsCounted, visitSession, sessionVars
    <2>6. QED
      BY <2>1, <2>2, <2>3, <2>4, <2>5, BroadcastStep
  \* It is enough to look at each connection.
  <1>3. ASSUME \A c \in ConnectionId :
                   /\ NoGap(outbox'[c])
                   /\ Told(c)' => c \in DOMAIN connectionToSession'
                                  /\ sessions'[connectionToSession'[c]].seat # "None"
                   /\ Told(c)' /\ c \in connections' => LastIs(outbox'[c], Last(c)')
        PROVE  BroadcastsCounted' /\ NoneMissing'
    BY <1>2, <1>3 DEF NoGap, LastIs, BroadcastsCounted, NoneMissing
  \* A box that does not change, with the same last number.
  <1>4. ASSUME NEW c \in ConnectionId, outbox'[c] = outbox[c],
               Told(c) /\ c \in connections' => c \in connections /\ Last(c)' = Last(c)
        PROVE  /\ NoGap(outbox'[c])
               /\ Told(c)' => c \in DOMAIN connectionToSession'
                              /\ sessions'[connectionToSession'[c]].seat # "None"
               /\ Told(c)' /\ c \in connections' => LastIs(outbox'[c], Last(c)')
    <2>1. Told(c)' <=> Told(c)
      BY <1>4
    <2>2. NoGap(outbox'[c])
      BY <1>1, <1>4, Boxes
    <2>3. Told(c) => c \in DOMAIN connectionToSession'
                     /\ sessions'[connectionToSession'[c]].seat # "None"
      BY <1>o, SessionsGrow
    <2>4. Told(c) /\ c \in connections' => LastIs(outbox'[c], Last(c)')
      <3>1. SUFFICES ASSUME Told(c), c \in connections'
                     PROVE  LastIs(outbox'[c], Last(c)')
        OBVIOUS
      <3>2. LastIs(outbox[c], Last(c))
        BY <1>1, <1>4, <3>1, Boxes
      <3>3. QED
        BY <1>4, <3>1, <3>2
    <2>5. QED
      BY <2>1, <2>2, <2>3, <2>4
  <1>5. CASE UNCHANGED vars
    <2>1. UNCHANGED <<outbox, connections, connectionToSession, unvisited, broadcastNumber>>
      BY <1>5 DEF vars, networkVars, sessionVars, broadcastVars
    <2>2. QED
      BY <1>3, <1>4, <2>1
  <1>6. ASSUME Next, NEW c \in ConnectionId, outbox'[c] = outbox[c],
               UNCHANGED <<unvisited, broadcastNumber>>
        PROVE  /\ NoGap(outbox'[c])
               /\ Told(c)' => c \in DOMAIN connectionToSession'
                              /\ sessions'[connectionToSession'[c]].seat # "None"
               /\ Told(c)' /\ c \in connections' => LastIs(outbox'[c], Last(c)')
    <2>1. Told(c) /\ c \in connections' => c \in connections /\ Last(c)' = Last(c)
      BY <1>6, <1>o, SessionsGrow, NewConnectionIsUnknown
    <2>2. QED
      BY <1>4, <1>6, <2>1
  <1>7. CASE Next /\ UNCHANGED <<outbox, unvisited, broadcastNumber>>
    BY <1>3, <1>6, <1>7
  <1>8. CASE Next /\ connectAssign
    <2> DEFINE m == [type |-> "session", session |-> connecting]
    <2>1. /\ connecting \in DOMAIN sessions /\ m \in ServerMessage
          /\ outbox' = Sent(connecting, m)
          /\ UNCHANGED <<sessions, connectionToSession>>
      BY <1>1, <1>8, AssignFacts
    <2>2. m.type = "session" /\ UNCHANGED <<connections, unvisited, broadcastNumber>>
      BY <1>8 DEF connectAssign, networkVars, broadcastVars
    <2> HIDE DEF m
    <2>3. ASSUME NEW c \in ConnectionId
          PROVE  /\ NoGap(outbox'[c])
                 /\ Told(c)' => c \in DOMAIN connectionToSession'
                                /\ sessions'[connectionToSession'[c]].seat # "None"
                 /\ Told(c)' /\ c \in connections' => LastIs(outbox'[c], Last(c)')
      <3>1. CASE outbox'[c] = outbox[c]
        BY <1>6, <1>8, <2>2, <3>1
      <3>2. CASE /\ c \in connections
                 /\ Len(outbox[c]) \in Nat /\ Len(outbox'[c]) = Len(outbox[c]) + 1
                 /\ \A j \in 1 .. Len(outbox[c]) : outbox'[c][j] = outbox[c][j]
                 /\ outbox'[c][Len(outbox[c]) + 1] = m
        <4>1. NoGap(outbox[c]) /\ LastIs(outbox[c], Last(c))
          BY <1>1, <3>2, Boxes
        <4>2. NoGap(outbox'[c]) /\ LastIs(outbox'[c], Last(c))
          <5>1. m.type # "broadcast" /\ Last(c) \in Int
            BY <1>n, <2>2
          <5> HIDE DEF Last
          <5>2. QED
            BY <3>2, <4>1, <5>1, AppendOther
        <4>3. Last(c)' = Last(c)
          BY <2>1, <2>2
        <4>4. Told(c)' => Told(c)
          <5>1. \A n \in Nat : \A i \in 1 .. n + 1 : i \in 1 .. n \/ i = n + 1
            OBVIOUS
          <5>2. \A i \in 1 .. Len(outbox'[c]) : i \in 1 .. Len(outbox[c]) \/ i = Len(outbox[c]) + 1
            BY <3>2, <5>1
          <5>3. QED
            BY <2>2, <3>2, <5>2
        <4>5. QED
          BY <1>o, <2>1, <4>2, <4>3, <4>4
      <3>3. QED
        BY <1>1, <2>1, <3>1, <3>2, SentFacts
    <2>4. QED
      BY <1>3, <2>3
  <1>9. CASE broadcast
    <2>1. /\ unvisited = {} /\ unvisited' = DOMAIN sessions
          /\ broadcastNumber' = broadcastNumber + 1
          /\ UNCHANGED <<outbox, connections, sessions, connectionToSession>>
      BY <1>1, <1>9 DEF broadcast, networkVars, sessionVars, BroadcastsCounted
    <2>2. ASSUME NEW c \in ConnectionId
          PROVE  Told(c) => Last(c)' = Last(c)
      BY <1>n, <1>o, <2>1
    <2>3. QED
      BY <1>3, <1>4, <2>1, <2>2
  <1>10. CASE meetNewSession
    <2>1. /\ connecting \in DOMAIN sessions /\ sessions[connecting].seat = "None"
          /\ unvisited' = unvisited \cup {connecting}
          /\ UNCHANGED <<outbox, connections, sessions, connectionToSession, broadcastNumber>>
      BY <1>1, <1>10 DEF meetNewSession, networkVars, sessionVars, Phases
    <2>2. ASSUME NEW c \in ConnectionId
          PROVE  Told(c) => Last(c)' = Last(c)
      BY <1>o, <2>1
    <2>3. QED
      BY <1>3, <1>4, <2>1, <2>2
  <1>11. CASE endBroadcast
    <2>1. UNCHANGED <<outbox, connections, connectionToSession, unvisited, broadcastNumber>>
      BY <1>11 DEF endBroadcast, networkVars, sessionVars
    <2>2. QED
      BY <1>3, <1>4, <2>1
  <1>12. ASSUME NEW s \in SessionId, visitSession(s)
         PROVE  BroadcastsCounted' /\ NoneMissing'
    <2> DEFINE m == [type |-> "broadcast", number |-> broadcastNumber]
    <2>1. /\ s \in unvisited /\ s \in DOMAIN sessions /\ broadcastNumber \in 1 .. MaxBroadcasts
          /\ unvisited' = unvisited \ {s}
          /\ outbox' = IF sessions[s].isActive /\ sessions[s].seat # "None"
                       THEN Sent(s, m) ELSE outbox
          /\ UNCHANGED <<connections, sessions, connectionToSession, broadcastNumber>>
      BY <1>1, <1>12, ServerAssumption
      DEF TypeOK, BroadcastsCounted, visitSession, networkVars, sessionVars
    <2>2. m \in ServerMessage /\ m.type = "broadcast" /\ m.number = broadcastNumber
      BY <2>1 DEF ServerMessage
    <2>3. /\ sessions[s].connectionId \in DOMAIN connectionToSession
          /\ connectionToSession[sessions[s].connectionId] = s
          /\ \A c \in DOMAIN connectionToSession :
                 connectionToSession[c] = s => c = sessions[s].connectionId
      BY <1>1, <2>1 DEF InverseMaps
    <2>4. sessions[s].connectionId \in connections => sessions[s].isActive
      BY <1>1, <2>1 DEF ActiveWhileOpen
    <2> HIDE DEF m
    <2>5. ASSUME NEW c \in ConnectionId
          PROVE  /\ NoGap(outbox'[c])
                 /\ Told(c)' => c \in DOMAIN connectionToSession'
                                /\ sessions'[connectionToSession'[c]].seat # "None"
                 /\ Told(c)' /\ c \in connections' => LastIs(outbox'[c], Last(c)')
      <3>1. CASE outbox'[c] = outbox[c] /\ ~ (Told(c) /\ c \in connections /\ connectionToSession[c] = s)
        <4>1. Told(c) /\ c \in connections => Last(c)' = Last(c)
          BY <2>1, <3>1
        <4>2. QED
          BY <1>4, <2>1, <3>1, <4>1
      <3>2. CASE outbox'[c] = outbox[c] /\ Told(c) /\ c \in connections /\ connectionToSession[c] = s
        <4>1. c = sessions[s].connectionId /\ sessions[s].seat # "None"
          BY <1>o, <2>3, <3>2
        <4>2. outbox' = Sent(s, m) /\ outbox'[c] # outbox[c]
          BY <1>1, <2>1, <2>2, <2>4, <3>2, <4>1, SentFacts
        <4>3. QED
          BY <3>2, <4>2
      <3>3. CASE /\ c = sessions[s].connectionId /\ c \in connections /\ sessions[s].seat # "None"
                 /\ Len(outbox[c]) \in Nat /\ Len(outbox'[c]) = Len(outbox[c]) + 1
                 /\ \A j \in 1 .. Len(outbox[c]) : outbox'[c][j] = outbox[c][j]
                 /\ outbox'[c][Len(outbox[c]) + 1] = m
        <4>1. Last(c) = broadcastNumber - 1 /\ Last(c)' = broadcastNumber
          BY <2>1, <2>3, <3>3
        <4>2. NoGap(outbox[c]) /\ LastIs(outbox[c], broadcastNumber - 1)
          BY <1>1, <3>3, <4>1, Boxes
        <4>3. NoGap(outbox'[c]) /\ LastIs(outbox'[c], broadcastNumber)
          <5> DEFINE last == broadcastNumber - 1
          <5>a. m.type = "broadcast" /\ m.number = last + 1 /\ last \in Int
            BY <1>n, <2>2
          <5>1. NoGap(outbox[c]) /\ LastIs(outbox[c], last)
            BY <4>2
          <5>b. /\ Len(outbox[c]) \in Nat /\ Len(outbox'[c]) = Len(outbox[c]) + 1
                /\ \A j \in 1 .. Len(outbox[c]) : outbox'[c][j] = outbox[c][j]
                /\ outbox'[c][Len(outbox[c]) + 1] = m
            BY <3>3
          <5> HIDE DEF last
          <5>2. NoGap(outbox'[c]) /\ LastIs(outbox'[c], last + 1)
            BY <5>a, <5>b, <5>1, AppendBroadcast
          <5>3. QED
            BY <2>2, <5>a, <5>2
        <4>4. QED
          BY <2>1, <2>3, <3>3, <4>1, <4>3
      <3>4. outbox'[c] = outbox[c] \/ <3>3!1
        BY <1>1, <2>1, <2>2, SentFacts
      <3>5. QED
        BY <3>1, <3>2, <3>3, <3>4
    <2>6. QED
      BY <1>3, <2>5
  <1>13. ASSUME connectAssign
         PROVE  UNCHANGED broadcastVars
    BY <1>13 DEF connectAssign
  <1>14. QED
    BY <1>5, <1>7, <1>8, <1>9, <1>10, <1>11, <1>12, OutboxStep, BroadcastStep DEF broadcastVars

-----------------------------------------------------------------------------
(* What the connections sent.                                              *)

\* The queue keeps the messages of c where they are, or moves them up by one.
LEMMA WaitsSame ==
    ASSUME NEW c, NEW n, Waits(c, n), received'[c] = received[c],
           Waiting(c)' = Waiting(c),
           \A i \in Waiting(c) : eventQueue'[i] = eventQueue[i]
    PROVE  Waits(c, n)'
  <1>1. PICK place \in [Waiting(c) -> n + 1 .. Len(received[c])] :
            /\ \A i \in Waiting(c) : eventQueue[i].payload = received[c][place[i]]
            /\ \A i, j \in Waiting(c) : i < j => place[i] < place[j]
            /\ \A k \in n + 1 .. Len(received[c]) : \E i \in Waiting(c) : place[i] = k
    BY DEF Waits
  <1>2. /\ place \in [Waiting(c)' -> n + 1 .. Len(received'[c])]
        /\ \A i \in Waiting(c)' : eventQueue'[i].payload = received'[c][place[i]]
        /\ \A i, j \in Waiting(c)' : i < j => place[i] < place[j]
        /\ \A k \in n + 1 .. Len(received'[c]) : \E i \in Waiting(c)' : place[i] = k
    BY <1>1
  <1>3. QED
    BY <1>2 DEF Waits

LEMMA WaitsPush ==
    ASSUME TypeOK, NEW c \in ConnectionId, NEW n, Waits(c, n), received'[c] = received[c],
           NEW e \in QueueEvent, eventQueue' = Append(eventQueue, e),
           ~ (e.type = "ClientMessage" /\ e.connection = c)
    PROVE  Waits(c, n)'
  <1>1. /\ \A i \in 1 .. Len(eventQueue) : eventQueue'[i] = eventQueue[i] /\ i \in 1 .. Len(eventQueue')
        /\ eventQueue'[Len(eventQueue) + 1] = e
        /\ \A i \in 1 .. Len(eventQueue') : i \in 1 .. Len(eventQueue) \/ i = Len(eventQueue) + 1
    <2>1. \A m \in Nat : \A i \in 1 .. m : i \in 1 .. m + 1
      OBVIOUS
    <2>2. QED
      BY <2>1, PushFacts, QueueTypes
  <1>2. Waiting(c)' = Waiting(c) /\ \A i \in Waiting(c) : eventQueue'[i] = eventQueue[i]
    BY <1>1 DEF Waiting
  <1>3. QED
    BY <1>2, WaitsSame

LEMMA WaitsPushMessage ==
    ASSUME TypeOK, NEW c \in ConnectionId, NEW n \in 0 .. Len(received[c]), Waits(c, n),
           NEW p \in Payload, received'[c] = Append(received[c], p),
           eventQueue' = Append(eventQueue,
               [type |-> "ClientMessage", connection |-> c, payload |-> p])
    PROVE  Waits(c, n)'
  <1> DEFINE e == [type |-> "ClientMessage", connection |-> c, payload |-> p]
             Q == Len(eventQueue)
             R == Len(received[c])
  <1>1. e \in QueueEvent /\ e.type = "ClientMessage" /\ e.connection = c /\ e.payload = p
        /\ eventQueue' = Append(eventQueue, e)
    BY DEF QueueEvent
  <1>2. received[c] \in Seq(Payload) /\ R \in Nat /\ n \in Nat /\ n <= R
    BY LenProperties DEF TypeOK
  <1>3. /\ Len(received'[c]) = R + 1 /\ received'[c][R + 1] = p
        /\ \A i \in 1 .. R : received'[c][i] = received[c][i]
    BY <1>2, AppendProperties
  <1>4. /\ Q \in Nat
        /\ \A i \in 1 .. Q : eventQueue'[i] = eventQueue[i]
        /\ eventQueue'[Q + 1] = e
        /\ Len(eventQueue') = Q + 1
    <2> HIDE DEF e
    <2>1. QED
      BY <1>1, PushFacts, QueueTypes
  <1> HIDE DEF e, Q, R
  <1>5. /\ \A i \in 1 .. Q : i \in 1 .. Q + 1 /\ i < Q + 1 /\ ~ (Q + 1 < i)
        /\ \A i \in 1 .. Q + 1 : i \in 1 .. Q \/ i = Q + 1
        /\ Q + 1 \in 1 .. Q + 1 /\ ~ (Q + 1 < Q + 1)
        /\ \A k \in n + 1 .. R : k \in n + 1 .. R + 1 /\ k \in 1 .. R /\ k < R + 1
        /\ R + 1 \in n + 1 .. R + 1
        /\ \A k \in n + 1 .. R + 1 : k \in n + 1 .. R \/ k = R + 1
    BY <1>2, <1>4
  <1>6. Waiting(c)' = Waiting(c) \cup {Q + 1} /\ Waiting(c) \subseteq 1 .. Q
    BY <1>1, <1>4, <1>5 DEF Waiting, Q
  <1>7. PICK place \in [Waiting(c) -> n + 1 .. R] :
            /\ \A i \in Waiting(c) : eventQueue[i].payload = received[c][place[i]]
            /\ \A i, j \in Waiting(c) : i < j => place[i] < place[j]
            /\ \A k \in n + 1 .. R : \E i \in Waiting(c) : place[i] = k
    BY DEF Waits, R
  <1> DEFINE place2 == [i \in Waiting(c)' |-> IF i = Q + 1 THEN R + 1 ELSE place[i]]
  <1>8. /\ \A i \in Waiting(c) : place2[i] = place[i] /\ place[i] \in n + 1 .. R /\ i # Q + 1
        /\ place2[Q + 1] = R + 1
    BY <1>5, <1>6, <1>7
  <1>9. place2 \in [Waiting(c)' -> n + 1 .. Len(received'[c])]
    BY <1>3, <1>5, <1>6, <1>7
  <1> HIDE DEF place2
  <1>10. \A i \in Waiting(c)' : eventQueue'[i].payload = received'[c][place2[i]]
    BY <1>1, <1>3, <1>4, <1>5, <1>6, <1>7, <1>8
  <1>11. ASSUME NEW i \in Waiting(c)', NEW j \in Waiting(c)', i < j
         PROVE  place2[i] < place2[j]
    <2>1. i \in Waiting(c)
      BY <1>5, <1>6, <1>11
    <2>2. CASE j \in Waiting(c)
      BY <1>7, <1>8, <1>11, <2>1, <2>2
    <2>3. CASE j = Q + 1
      BY <1>5, <1>8, <2>1, <2>3
    <2>4. QED
      BY <1>6, <2>2, <2>3
  <1>12. ASSUME NEW k \in n + 1 .. Len(received'[c])
         PROVE  \E i \in Waiting(c)' : place2[i] = k
    <2>1. CASE k \in n + 1 .. R
      BY <1>6, <1>7, <1>8, <2>1
    <2>2. CASE k = R + 1
      BY <1>6, <1>8, <2>2
    <2>3. QED
      BY <1>3, <1>5, <2>1, <2>2
  <1>13. QED
    BY <1>9, <1>10, <1>11, <1>12 DEF Waits

LEMMA WaitsTail ==
    ASSUME TypeOK, NEW c \in ConnectionId, NEW n, Waits(c, n), received'[c] = received[c],
           eventQueue # <<>>, eventQueue' = Tail(eventQueue),
           ~ (eventQueue[1].type = "ClientMessage" /\ eventQueue[1].connection = c)
    PROVE  Waits(c, n)'
  <1>1. PICK place \in [Waiting(c) -> n + 1 .. Len(received[c])] :
            /\ \A i \in Waiting(c) : eventQueue[i].payload = received[c][place[i]]
            /\ \A i, j \in Waiting(c) : i < j => place[i] < place[j]
            /\ \A k \in n + 1 .. Len(received[c]) : \E i \in Waiting(c) : place[i] = k
    BY DEF Waits
  <1>2. \A i \in Waiting(c)' : i + 1 \in Waiting(c) /\ eventQueue'[i] = eventQueue[i + 1]
    BY TailFacts DEF Waiting
  <1>3. \A i, j \in Waiting(c)' : i < j => i + 1 < j + 1
    BY TailFacts DEF Waiting
  <1>4. \A i \in Waiting(c) : i - 1 \in Waiting(c)' /\ (i - 1) + 1 = i
    BY TailFacts DEF Waiting
  <1> DEFINE place2 == [i \in Waiting(c)' |-> place[i + 1]]
  <1>5. /\ place2 \in [Waiting(c)' -> n + 1 .. Len(received'[c])]
        /\ \A i \in Waiting(c)' : place2[i] = place[i + 1]
    BY <1>1, <1>2
  <1> HIDE DEF place2
  <1>6. \A i \in Waiting(c)' : eventQueue'[i].payload = received'[c][place2[i]]
    BY <1>1, <1>2, <1>5
  <1>7. \A i, j \in Waiting(c)' : i < j => place2[i] < place2[j]
    BY <1>1, <1>2, <1>3, <1>5
  <1>8. ASSUME NEW k \in n + 1 .. Len(received'[c])
        PROVE  \E i \in Waiting(c)' : place2[i] = k
    <2>1. PICK i \in Waiting(c) : place[i] = k
      BY <1>1
    <2>2. i - 1 \in Waiting(c)' /\ place2[i - 1] = k
      BY <1>4, <1>5, <2>1
    <2>3. QED
      BY <2>2
  <1>9. QED
    BY <1>5, <1>6, <1>7, <1>8 DEF Waits

\* The message at the front is the first that waits.
LEMMA WaitsTailMessage ==
    ASSUME TypeOK, NEW c \in ConnectionId, NEW n \in 0 .. Len(received[c]), Waits(c, n),
           received'[c] = received[c],
           eventQueue # <<>>, eventQueue' = Tail(eventQueue),
           eventQueue[1].type = "ClientMessage", eventQueue[1].connection = c
    PROVE  /\ n + 1 \in 1 .. Len(received[c])
           /\ eventQueue[1].payload = received[c][n + 1]
           /\ Waits(c, n + 1)'
  <1>0. Len(received[c]) \in Nat /\ n \in Nat
    BY LenProperties DEF TypeOK
  <1>1. PICK place \in [Waiting(c) -> n + 1 .. Len(received[c])] :
            /\ \A i \in Waiting(c) : eventQueue[i].payload = received[c][place[i]]
            /\ \A i, j \in Waiting(c) : i < j => place[i] < place[j]
            /\ \A k \in n + 1 .. Len(received[c]) : \E i \in Waiting(c) : place[i] = k
    BY DEF Waits
  <1>2. \A i \in Waiting(c)' : /\ i + 1 \in Waiting(c) /\ eventQueue'[i] = eventQueue[i + 1]
                               /\ 1 < i + 1
    BY TailFacts DEF Waiting
  <1>3. \A i, j \in Waiting(c)' : i < j => i + 1 < j + 1
    BY TailFacts DEF Waiting
  <1>4. \A i \in Waiting(c) : i # 1 => i - 1 \in Waiting(c)' /\ (i - 1) + 1 = i /\ 1 < i
    <2>1. \A i \in 1 .. Len(eventQueue) : i # 1 => 1 < i
      BY QueueTypes
    <2>2. QED
      BY <2>1, TailFacts DEF Waiting
  <1>5. 1 \in Waiting(c)
    BY TailFacts DEF Waiting
  <1>6. place[1] = n + 1 /\ n + 1 \in n + 1 .. Len(received[c])
    <2>1. place[1] \in n + 1 .. Len(received[c])
      BY <1>1, <1>5
    <2>2. n + 1 \in n + 1 .. Len(received[c]) /\ ~ (place[1] < n + 1)
      BY <1>0, <2>1
    <2>3. PICK i \in Waiting(c) : place[i] = n + 1
      BY <1>1, <2>2
    <2>4. i = 1
      BY <1>1, <1>4, <1>5, <2>2, <2>3
    <2>5. QED
      BY <2>2, <2>3, <2>4
  <1>7. /\ \A k \in n + 1 .. Len(received[c]) : n + 1 < k => k \in (n + 1) + 1 .. Len(received[c])
        /\ \A k \in (n + 1) + 1 .. Len(received[c]) : k \in n + 1 .. Len(received[c]) /\ k # n + 1
        /\ n + 1 \in 1 .. Len(received[c])
    BY <1>0, <1>6
  <1> DEFINE place2 == [i \in Waiting(c)' |-> place[i + 1]]
  <1>8. /\ place2 \in [Waiting(c)' -> (n + 1) + 1 .. Len(received'[c])]
        /\ \A i \in Waiting(c)' : place2[i] = place[i + 1]
    <2>1. \A i \in Waiting(c)' : place[i + 1] \in (n + 1) + 1 .. Len(received'[c])
      BY <1>1, <1>2, <1>5, <1>6, <1>7
    <2>2. QED
      BY <2>1
  <1> HIDE DEF place2
  <1>9. ASSUME NEW i \in Waiting(c)'
        PROVE  eventQueue'[i].payload = received'[c][place2[i]]
    <2>1. i + 1 \in Waiting(c) /\ eventQueue'[i] = eventQueue[i + 1] /\ place2[i] = place[i + 1]
      BY <1>2, <1>8
    <2>2. eventQueue[i + 1].payload = received[c][place[i + 1]]
      BY <1>1, <2>1
    <2>3. QED
      BY <2>1, <2>2
  <1>10. \A i, j \in Waiting(c)' : i < j => place2[i] < place2[j]
    BY <1>1, <1>2, <1>3, <1>8
  <1>11. ASSUME NEW k \in (n + 1) + 1 .. Len(received'[c])
         PROVE  \E i \in Waiting(c)' : place2[i] = k
    <2>1. PICK i \in Waiting(c) : place[i] = k
      BY <1>1, <1>7
    <2>2. i # 1
      BY <1>6, <1>7, <2>1
    <2>3. i - 1 \in Waiting(c)' /\ place2[i - 1] = k
      BY <1>4, <1>8, <2>1, <2>2
    <2>4. QED
      BY <2>3
  <1>12. Waits(c, n + 1)'
    BY <1>8, <1>9, <1>10, <1>11 DEF Waits
  <1>13. eventQueue[1].payload = received[c][n + 1]
    BY <1>1, <1>5, <1>6
  <1>14. QED
    BY <1>7, <1>12, <1>13

\* A session without events has done nothing.
LEMMA DoneNothing ==
    ASSUME NEW c, NEW s, s = connectionToSession[c], Len(received[c]) \in Nat, Done(c, 0)
    PROVE  Handled(s) = {}
  <1>1. \A i \in Came(c) : i \in Nat /\ ~ (i <= 0)
    BY DEF Came
  <1>2. PICK cause \in [Handled(s) -> Came(c)] : \A j \in Handled(s) : cause[j] <= 0
    BY DEF Done
  <1>3. QED
    BY <1>1, <1>2

LEMMA DoneNothingYet ==
    ASSUME NEW c, NEW s, s = connectionToSession'[c], Len(received'[c]) \in Nat, Handled(s)' = {}
    PROVE  Done(c, 0)'
  <1>1. \A i \in Came(c)' : i \in Nat /\ ~ (i <= 0)
    BY DEF Came
  <1> DEFINE cause == [j \in Handled(s)' |-> 0]
  <1>2. cause \in [Handled(s)' -> Came(c)']
    OBVIOUS
  <1> HIDE DEF cause
  <1>3. QED
    BY <1>1, <1>2 DEF Done

\* What was done stays done, whatever the client sends.
LEMMA DoneSame ==
    ASSUME NEW c, NEW s, NEW n \in Nat, n <= Len(received[c]), Len(received[c]) \in Nat, Done(c, n),
           s = connectionToSession[c], connectionToSession'[c] = s,
           sessions'[s].seat = sessions[s].seat,
           Handled(s)' = Handled(s), \A j \in Handled(s) : calls'[j] = calls[j],
           Len(received'[c]) \in Nat, Len(received'[c]) >= Len(received[c]),
           \A i \in 1 .. Len(received[c]) : received'[c][i] = received[c][i]
    PROVE  Done(c, n)'
  <1>1. PICK cause \in [Handled(s) -> Came(c)] :
            /\ \A j \in Handled(s) : calls[j].event = received[c][cause[j]] /\ cause[j] <= n
            /\ \A j, k \in Handled(s) : j < k => cause[j] < cause[k]
            /\ Handled(s) # {} => isPlayer(sessions[s].seat)
            /\ isPlayer(sessions[s].seat) =>
                   \A i \in Came(c) : i <= n => \E j \in Handled(s) : cause[j] = i
    BY DEF Done
  <1>2. /\ Came(c) \subseteq Came(c)' /\ Came(c) \subseteq 1 .. Len(received[c])
        /\ \A i \in Came(c)' : i <= n => i \in Came(c)
    <2>1. \A i \in 1 .. Len(received[c]) : i \in 1 .. Len(received'[c])
      OBVIOUS
    <2>2. \A i \in 1 .. Len(received'[c]) : i <= n => i \in 1 .. Len(received[c])
      OBVIOUS
    <2>3. QED
      BY <2>1, <2>2 DEF Came
  <1>3. cause \in [Handled(s)' -> Came(c)']
    BY <1>1, <1>2
  <1>4. \A j \in Handled(s)' : calls'[j].event = received'[c][cause[j]] /\ cause[j] <= n
    BY <1>1, <1>2
  <1>5. /\ \A j, k \in Handled(s)' : j < k => cause[j] < cause[k]
        /\ Handled(s)' # {} => isPlayer(sessions'[s].seat)
        /\ isPlayer(sessions'[s].seat) =>
               \A i \in Came(c)' : i <= n => \E j \in Handled(s)' : cause[j] = i
    BY <1>1, <1>2
  <1>6. QED
    BY <1>3, <1>4, <1>5 DEF Done, isPlayer

\* A message that is no event of a player changes nothing.
LEMMA DoneDrop ==
    ASSUME NEW c, NEW s, NEW n \in Nat, n + 1 \in 1 .. Len(received[c]), Len(received[c]) \in Nat,
           Done(c, n), s = connectionToSession[c],
           ~ (isPlayer(sessions[s].seat) /\ received[c][n + 1] \in ClientEvent)
    PROVE  Done(c, n + 1)
  <1>1. PICK cause \in [Handled(s) -> Came(c)] :
            /\ \A j \in Handled(s) : calls[j].event = received[c][cause[j]] /\ cause[j] <= n
            /\ \A j, k \in Handled(s) : j < k => cause[j] < cause[k]
            /\ Handled(s) # {} => isPlayer(sessions[s].seat)
            /\ isPlayer(sessions[s].seat) =>
                   \A i \in Came(c) : i <= n => \E j \in Handled(s) : cause[j] = i
    BY DEF Done
  <1>2. \A i \in Came(c) : i \in Nat /\ (i <= n => i <= n + 1) /\ (i <= n + 1 => i <= n \/ i = n + 1)
    BY DEF Came
  <1>3. \A j \in Handled(s) : calls[j].event = received[c][cause[j]] /\ cause[j] <= n + 1
    BY <1>1, <1>2
  <1>4. ASSUME isPlayer(sessions[s].seat), NEW i \in Came(c), i <= n + 1
        PROVE  \E j \in Handled(s) : cause[j] = i
    <2>1. i # n + 1
      BY <1>4 DEF Came
    <2>2. QED
      BY <1>1, <1>2, <1>4, <2>1
  <1>5. QED
    BY <1>1, <1>3, <1>4 DEF Done

\* An event that is handled is the next of its session.
LEMMA DoneForward ==
    ASSUME TypeOK, NEW c \in ConnectionId, NEW s, NEW n \in Nat, n + 1 \in 1 .. Len(received[c]),
           Done(c, n), s = connectionToSession[c], s \in SessionId,
           isPlayer(sessions[s].seat), received[c][n + 1] \in ClientEvent,
           calls' = Append(calls, [call |-> "onNetworkEvent", session |-> s,
                                   event |-> received[c][n + 1]]),
           UNCHANGED <<sessions, connectionToSession, received>>
    PROVE  Done(c, n + 1)'
  <1> DEFINE call == [call |-> "onNetworkEvent", session |-> s, event |-> received[c][n + 1]]
             L == Len(calls)
  <1>1. /\ call \in HandlerCall /\ call.session = s /\ call.call = "onNetworkEvent"
        /\ call.event = received[c][n + 1] /\ calls' = Append(calls, call)
    BY DEF HandlerCall
  <1>2. /\ L \in Nat /\ Len(calls') = L + 1 /\ calls'[L + 1] = call
        /\ \A i \in 1 .. L : calls'[i] = calls[i]
    <2> HIDE DEF call
    <2>1. QED
      BY <1>1, CallFacts
  <1>3. Len(received[c]) \in Nat
    BY LenProperties DEF TypeOK
  <1>4. PICK cause \in [Handled(s) -> Came(c)] :
            /\ \A j \in Handled(s) : calls[j].event = received[c][cause[j]] /\ cause[j] <= n
            /\ \A j, k \in Handled(s) : j < k => cause[j] < cause[k]
            /\ \A i \in Came(c) : i <= n => \E j \in Handled(s) : cause[j] = i
    BY DEF Done
  <1> HIDE DEF call, L
  <1>5. /\ \A i \in 1 .. L : i \in 1 .. L + 1 /\ i < L + 1 /\ ~ (L + 1 < i) /\ i # L + 1
        /\ \A i \in 1 .. L + 1 : i \in 1 .. L \/ i = L + 1
        /\ L + 1 \in 1 .. L + 1 /\ ~ (L + 1 < L + 1)
    BY <1>2
  <1>6. Handled(s)' = Handled(s) \cup {L + 1} /\ Handled(s) \subseteq 1 .. L
    BY <1>1, <1>2, <1>5 DEF Handled, L
  <1>7. /\ Came(c)' = Came(c) /\ n + 1 \in Came(c) /\ Came(c) \subseteq Nat
        /\ n + 1 <= n + 1
        /\ \A i \in Came(c) : (i <= n => i <= n + 1 /\ i < n + 1) /\ (i <= n + 1 => i <= n \/ i = n + 1)
    BY <1>3 DEF Came
  <1> DEFINE cause2 == [j \in Handled(s)' |-> IF j = L + 1 THEN n + 1 ELSE cause[j]]
  <1>8. /\ \A j \in Handled(s) : cause2[j] = cause[j] /\ cause[j] \in Came(c)
        /\ cause2[L + 1] = n + 1
    BY <1>4, <1>5, <1>6
  <1>9. cause2 \in [Handled(s)' -> Came(c)']
    BY <1>4, <1>6, <1>7
  <1> HIDE DEF cause2
  <1>10. ASSUME NEW j \in Handled(s)'
         PROVE  calls'[j].event = received'[c][cause2[j]] /\ cause2[j] <= n + 1
    <2>1. CASE j \in Handled(s)
      BY <1>2, <1>4, <1>6, <1>7, <1>8, <2>1
    <2>2. CASE j = L + 1
      BY <1>1, <1>2, <1>7, <1>8, <2>2
    <2>3. QED
      BY <1>6, <2>1, <2>2
  <1>11. ASSUME NEW j \in Handled(s)', NEW k \in Handled(s)', j < k
         PROVE  cause2[j] < cause2[k]
    <2>1. j \in Handled(s)
      BY <1>5, <1>6, <1>11
    <2>2. CASE k \in Handled(s)
      BY <1>4, <1>8, <1>11, <2>1, <2>2
    <2>3. CASE k = L + 1
      BY <1>4, <1>7, <1>8, <2>1, <2>3
    <2>4. QED
      BY <1>6, <2>2, <2>3
  <1>12. ASSUME NEW i \in Came(c)', i <= n + 1
         PROVE  \E j \in Handled(s)' : cause2[j] = i
    <2>1. CASE i <= n
      BY <1>4, <1>6, <1>7, <1>8, <2>1
    <2>2. CASE i = n + 1
      BY <1>6, <1>8, <2>2
    <2>3. QED
      BY <1>7, <1>12, <2>1, <2>2
  <1>13. QED
    BY <1>9, <1>10, <1>11, <1>12 DEF Done, isPlayer

\* A call that is no event of the session s is not among its events.
LEMMA HandledSame ==
    ASSUME TypeOK, NEW s, NEW k \in HandlerCall, calls' = Append(calls, k),
           ~ (k.session = s /\ k.call = "onNetworkEvent")
    PROVE  Handled(s)' = Handled(s) /\ \A j \in Handled(s) : calls'[j] = calls[j]
  <1>1. /\ \A i \in 1 .. Len(calls) : calls'[i] = calls[i] /\ i \in 1 .. Len(calls')
        /\ calls'[Len(calls) + 1] = k
        /\ \A i \in 1 .. Len(calls') : i \in 1 .. Len(calls) \/ i = Len(calls) + 1
    <2>1. \A n \in Nat : \A i \in 1 .. n : i \in 1 .. n + 1
      OBVIOUS
    <2>2. QED
      BY <2>1, CallFacts
  <1>2. QED
    BY <1>1 DEF Handled

\* A step that takes no message of c from the queue and handles no event of it.
LEMMA ProgressSame ==
    ASSUME TypeOK, TypeOK', InverseMaps, NEW c \in ConnectionId,
           NEW n \in 0 .. Len(received[c]), Progress(c, n), Waits(c, n)',
           received'[c] = received[c] \/ \E p \in Payload : received'[c] = Append(received[c], p),
           NEW s, c \in DOMAIN connectionToSession => s = connectionToSession[c],
           c \in DOMAIN connectionToSession' <=> c \in DOMAIN connectionToSession,
           c \in DOMAIN connectionToSession =>
               /\ connectionToSession'[c] = s
               /\ connecting' = s => connecting = s
               /\ sessions'[s].seat = sessions[s].seat
               /\ Handled(s)' = Handled(s)
               /\ \A j \in Handled(s) : calls'[j] = calls[j]
    PROVE  n \in 0 .. Len(received'[c]) /\ Progress(c, n)'
  <1>1. /\ Len(received[c]) \in Nat /\ Len(received'[c]) \in Nat /\ n \in Nat /\ n <= Len(received[c])
        /\ received[c] \in Seq(Payload)
    BY LenProperties DEF TypeOK
  <1>2. /\ Len(received'[c]) >= Len(received[c])
        /\ \A i \in 1 .. Len(received[c]) : received'[c][i] = received[c][i]
    <2>1. CASE received'[c] = received[c]
      BY <1>1, <2>1
    <2>2. CASE \E p \in Payload : received'[c] = Append(received[c], p)
      BY <1>1, <2>2, AppendProperties
    <2>3. QED
      BY <2>1, <2>2
  <1>3. n \in 0 .. Len(received'[c])
    BY <1>1, <1>2
  <1>4. CASE c \notin DOMAIN connectionToSession
    BY <1>3, <1>4 DEF Progress
  <1>5. CASE c \in DOMAIN connectionToSession
    <2>1. Done(c, n)'
      BY <1>1, <1>2, <1>5, DoneSame DEF Progress
    <2>2. QED
      BY <1>3, <1>5, <2>1 DEF Progress
  <1>6. QED
    BY <1>4, <1>5

\* The message at the front of the queue is taken and dropped.
LEMMA ProgressDrop ==
    ASSUME TypeOK, InverseMaps, NEW c \in ConnectionId, c \in DOMAIN connectionToSession,
           NEW n \in 0 .. Len(received[c]), Progress(c, n), connecting = 0,
           Pop("ClientMessage"), c = Head(eventQueue).connection,
           ~ Forwarded(Head(eventQueue)), UNCHANGED <<sessionVars, calls>>
    PROVE  \E m \in 0 .. Len(received'[c]) : Progress(c, m)'
  <1>0. PICK s : s = connectionToSession[c]
    OBVIOUS
  <1>1. /\ Len(received[c]) \in Nat /\ n \in Nat
        /\ s \in DOMAIN sessions /\ s # 0 /\ getSessionId(c) = s
    BY <1>0, LenProperties, ServerAssumption DEF TypeOK, InverseMaps, SessionId, getSessionId
  <1>2. /\ eventQueue # <<>> /\ eventQueue' = Tail(eventQueue)
        /\ eventQueue[1] = Head(eventQueue) /\ Head(eventQueue).type = "ClientMessage"
        /\ UNCHANGED <<received, sessions, connectionToSession, calls, connecting>>
    BY PopFacts DEF Pop, networkVars, sessionVars
  <1>3. /\ n + 1 \in 1 .. Len(received[c])
        /\ Head(eventQueue).payload = received[c][n + 1]
        /\ Waits(c, n + 1)'
    BY <1>2, WaitsTailMessage DEF Progress
  <1>4. ~ (isPlayer(sessions[s].seat) /\ received[c][n + 1] \in ClientEvent)
    BY <1>0, <1>1, <1>3 DEF Forwarded, getSeat
  <1>5. Done(c, n + 1)
    BY <1>0, <1>1, <1>3, <1>4, DoneDrop DEF Progress
  <1>6. Done(c, n + 1)'
    <2>1. Handled(s)' = Handled(s) /\ \A j \in Handled(s) : calls'[j] = calls[j]
      BY <1>2 DEF Handled
    <2>2. n + 1 \in Nat /\ n + 1 <= Len(received[c])
      BY <1>1, <1>3
    <2>3. QED
      BY <1>0, <1>1, <1>2, <1>5, <2>1, <2>2, DoneSame
  <1>7. n + 1 \in 0 .. Len(received'[c])
    BY <1>1, <1>2, <1>3
  <1>8. Progress(c, n + 1)'
    BY <1>0, <1>1, <1>2, <1>3, <1>6 DEF Progress
  <1>9. QED
    BY <1>7, <1>8

\* It is taken and handled.
LEMMA ProgressForward ==
    ASSUME TypeOK, Phases, InverseMaps, NEW c \in ConnectionId, c \in DOMAIN connectionToSession,
           NEW n \in 0 .. Len(received[c]), Progress(c, n),
           forwardMessage, c = Head(eventQueue).connection
    PROVE  \E m \in 0 .. Len(received'[c]) : Progress(c, m)'
  <1>1. PICK s : s = connectionToSession[c]
    OBVIOUS
  <1>a. Len(received[c]) \in Nat /\ n \in Nat /\ s \in SessionId
    BY <1>1, LenProperties DEF TypeOK
  <1>b. s \in DOMAIN sessions /\ s # 0 /\ getSessionId(c) = s
    BY <1>1, <1>a, ServerAssumption DEF InverseMaps, SessionId, getSessionId
  <1>2. /\ Len(received[c]) \in Nat /\ n \in Nat
        /\ s \in DOMAIN sessions /\ s \in SessionId /\ s # 0 /\ getSessionId(c) = s
    BY <1>a, <1>b
  <1>3. /\ Pop("ClientMessage") /\ Forwarded(Head(eventQueue))
        /\ calls' = Append(calls, [call |-> "onNetworkEvent", session |-> s,
                                   event |-> Head(eventQueue).payload])
        /\ UNCHANGED <<sessions, connectionToSession, received, connecting>> /\ connecting = 0
    BY <1>2 DEF forwardMessage, Pop, networkVars, sessionVars, Phases
  <1>4. /\ eventQueue # <<>> /\ eventQueue' = Tail(eventQueue)
        /\ eventQueue[1] = Head(eventQueue) /\ Head(eventQueue).type = "ClientMessage"
    BY <1>3, PopFacts
  <1>5. /\ n + 1 \in 1 .. Len(received[c])
        /\ Head(eventQueue).payload = received[c][n + 1]
        /\ Waits(c, n + 1)'
    BY <1>3, <1>4, WaitsTailMessage DEF Progress
  <1>6. isPlayer(sessions[s].seat) /\ received[c][n + 1] \in ClientEvent
    BY <1>2, <1>3, <1>5 DEF Forwarded, getSeat
  <1>7. Done(c, n + 1)'
    BY <1>1, <1>2, <1>3, <1>5, <1>6, DoneForward DEF Progress
  <1>8. n + 1 \in 0 .. Len(received'[c])
    BY <1>2, <1>3, <1>5
  <1>9. Progress(c, n + 1)'
    BY <1>1, <1>2, <1>3, <1>5, <1>7 DEF Progress
  <1>10. QED
    BY <1>8, <1>9

LEMMA DeliveredStep ==
    ASSUME IInv, [Next]_vars
    PROVE  Delivered'
  <1> USE DEF vars, ownerVars, networkVars, sessionVars, broadcastVars
  <1>1. /\ TypeOK /\ Phases /\ QueueInOrder /\ Known /\ InverseMaps /\ ActiveWhileOpen
        /\ HandlerKnows /\ Delivered
    BY DEF IInv
  <1>2. TypeOK'
    BY TypeStep
  <1>3. SUFFICES ASSUME NEW c \in ConnectionId, NEW n \in 0 .. Len(received[c]), Progress(c, n)
                 PROVE  \E m \in 0 .. Len(received'[c]) : Progress(c, m)'
    BY <1>1 DEF Delivered
  <1>4. PICK s : s = connectionToSession[c]
    OBVIOUS
  <1>5. Waits(c, n) /\ (c \in DOMAIN connectionToSession => s \in DOMAIN sessions /\ s # 0)
    BY <1>1, <1>3, <1>4, ServerAssumption DEF Progress, InverseMaps, TypeOK, SessionId
  \* Steps of other threads, and of the server thread between two events.
  <1>6. ASSUME Waits(c, n)', UNCHANGED <<sessionVars, calls>>,
               received'[c] = received[c] \/ \E p \in Payload : received'[c] = Append(received[c], p)
        PROVE  \E m \in 0 .. Len(received'[c]) : Progress(c, m)'
    <2>1. Handled(s)' = Handled(s) /\ \A j \in Handled(s) : calls'[j] = calls[j]
      BY <1>6 DEF Handled
    <2>2. UNCHANGED <<sessions, connectionToSession, connecting>>
      BY <1>6
    <2>3. QED
      BY <1>1, <1>2, <1>3, <1>4, <1>6, <2>1, <2>2, ProgressSame
  <1>7. CASE UNCHANGED <<eventQueue, received, sessionVars, calls>>
    <2>1. Waiting(c)' = Waiting(c) /\ received'[c] = received[c]
          /\ \A i \in Waiting(c) : eventQueue'[i] = eventQueue[i]
      BY <1>7 DEF Waiting
    <2>2. QED
      BY <1>5, <1>6, <1>7, <2>1, WaitsSame
  <1>8. ASSUME NEW e \in QueueEvent, eventQueue' = Append(eventQueue, e),
               ~ (e.type = "ClientMessage" /\ e.connection = c),
               received'[c] = received[c], UNCHANGED <<sessionVars, calls>>
        PROVE  \E m \in 0 .. Len(received'[c]) : Progress(c, m)'
    BY <1>1, <1>5, <1>6, <1>8, WaitsPush
  <1>9. CASE start \/ stop \/ stopNetwork \/ joinThread \/ Terminated \/ enterLoop \/ Broadcast
             \/ UNCHANGED vars
    BY <1>7, <1>9 DEF start, stop, stopNetwork, joinThread, Terminated, enterLoop, Broadcast,
                      broadcast, meetNewSession, endBroadcast, visitSession
  <1>10. CASE stopPushesShutdown
    <2>1. [type |-> "Shutdown"] \in QueueEvent
      BY DEF QueueEvent
    <2>2. QED
      BY <1>8, <1>10, <2>1 DEF stopPushesShutdown
  <1>11. CASE accept
    <2> DEFINE e == [type |-> "ClientConnected", connection |-> nextConnection]
    <2>1. nextConnection \in ConnectionId
      BY <1>1, <1>11, ServerAssumption DEF TypeOK, ConnectionId, accept
    <2>2. e \in QueueEvent /\ e.type = "ClientConnected"
      BY <2>1 DEF QueueEvent
    <2>3. eventQueue' = Append(eventQueue, e) /\ UNCHANGED <<received, sessionVars, calls>>
      BY <1>11 DEF accept
    <2> HIDE DEF e
    <2>4. QED
      BY <1>8, <2>2, <2>3
  <1>12. ASSUME NEW d \in ConnectionId, NEW p \in Payload, onClientMessage(d, p)
         PROVE  \E m \in 0 .. Len(received'[c]) : Progress(c, m)'
    <2> DEFINE e == [type |-> "ClientMessage", connection |-> d, payload |-> p]
    <2>1. /\ eventQueue' = Append(eventQueue, e) /\ UNCHANGED <<sessionVars, calls>>
          /\ received' = [received EXCEPT ![d] = Append(@, p)]
      BY <1>12 DEF onClientMessage
    <2>2. CASE d = c
      <3>1. received'[c] = Append(received[c], p)
        BY <1>1, <2>1, <2>2 DEF TypeOK
      <3>2. Waits(c, n)'
        BY <1>1, <1>3, <1>5, <2>1, <2>2, <3>1, WaitsPushMessage
      <3>3. QED
        BY <1>6, <2>1, <3>1, <3>2
    <2>3. CASE d # c
      <3>1. received'[c] = received[c]
        BY <1>1, <2>1, <2>3 DEF TypeOK
      <3>2. e \in QueueEvent /\ e.connection = d
        BY DEF QueueEvent
      <3> HIDE DEF e
      <3>3. QED
        BY <1>8, <2>1, <2>3, <3>1, <3>2
    <2>4. QED
      BY <2>2, <2>3
  <1>13. ASSUME NEW d \in ConnectionId, onClientDisconnected(d)
         PROVE  \E m \in 0 .. Len(received'[c]) : Progress(c, m)'
    <2> DEFINE e == [type |-> "ClientDisconnected", connection |-> d]
    <2>1. e \in QueueEvent /\ e.type = "ClientDisconnected"
      BY DEF QueueEvent
    <2>2. eventQueue' = Append(eventQueue, e) /\ UNCHANGED <<received, sessionVars, calls>>
      BY <1>13 DEF onClientDisconnected
    <2> HIDE DEF e
    <2>3. QED
      BY <1>8, <2>1, <2>2
  \* The server thread takes an event that is no message of c.
  <1>14. ASSUME eventQueue # <<>>, eventQueue' = Tail(eventQueue), received' = received,
                ~ (eventQueue[1].type = "ClientMessage" /\ eventQueue[1].connection = c)
         PROVE  Waits(c, n)' /\ received'[c] = received[c]
    BY <1>1, <1>5, <1>14, WaitsTail
  <1>15. CASE shutdown
    <2>1. /\ eventQueue # <<>> /\ eventQueue' = Tail(eventQueue)
          /\ Head(eventQueue).type = "Shutdown" /\ UNCHANGED <<received, sessionVars, calls>>
      BY <1>15 DEF shutdown
    <2>2. eventQueue[1].type = "Shutdown"
      BY <1>1, <2>1, TailFacts
    <2>3. QED
      BY <1>6, <1>14, <2>1, <2>2
  <1>16. CASE dropMessage
    <2>1. /\ Pop("ClientMessage") /\ ~ Forwarded(Head(eventQueue)) /\ received' = received
          /\ UNCHANGED <<sessionVars, calls>> /\ connecting = 0
      BY <1>1, <1>16 DEF dropMessage, Pop, Phases
    <2>2. /\ eventQueue # <<>> /\ eventQueue' = Tail(eventQueue)
          /\ eventQueue[1] = Head(eventQueue)
      BY <1>1, <2>1, PopFacts
    <2>3. CASE Head(eventQueue).connection = c
      <3>1. c \in DOMAIN connectionToSession
        BY <1>1, <2>1, <2>3, KnownHead
      <3>2. QED
        BY <1>1, <1>3, <2>1, <2>3, <3>1, ProgressDrop
    <2>4. CASE Head(eventQueue).connection # c
      BY <1>6, <1>14, <2>1, <2>2, <2>4
    <2>5. QED
      BY <2>3, <2>4
  <1>17. CASE forwardMessage
    <2>1. /\ Pop("ClientMessage") /\ Head(eventQueue).payload \in ClientEvent /\ received' = received
          /\ calls' = Append(calls, [call |-> "onNetworkEvent",
                                     session |-> getSessionId(Head(eventQueue).connection),
                                     event |-> Head(eventQueue).payload])
          /\ UNCHANGED <<sessions, connectionToSession, connecting>>
      BY <1>17 DEF forwardMessage, Pop, Forwarded
    <2>2. /\ eventQueue # <<>> /\ eventQueue' = Tail(eventQueue)
          /\ eventQueue[1] = Head(eventQueue)
      BY <1>1, <2>1, PopFacts
    <2>3. PICK d : d = Head(eventQueue).connection
      OBVIOUS
    <2>4. /\ d \in DOMAIN connectionToSession /\ getSessionId(d) = connectionToSession[d]
          /\ connectionToSession[d] \in SessionId /\ d \in ConnectionId
      BY <1>1, <2>1, <2>3, KnownHead DEF TypeOK
    <2>5. CASE d = c
      BY <1>1, <1>3, <1>17, <2>3, <2>4, <2>5, ProgressForward
    <2>6. CASE d # c
      <3>1. Waits(c, n)' /\ received'[c] = received[c]
        BY <1>14, <2>1, <2>2, <2>3, <2>6
      <3>2. ASSUME c \in DOMAIN connectionToSession
            PROVE  Handled(s)' = Handled(s) /\ \A j \in Handled(s) : calls'[j] = calls[j]
        <4> DEFINE k == [call |-> "onNetworkEvent", session |-> connectionToSession[d],
                         event |-> Head(eventQueue).payload]
        <4>1. k \in HandlerCall /\ calls' = Append(calls, k) /\ k.session = connectionToSession[d]
          BY <2>1, <2>3, <2>4 DEF HandlerCall
        <4>2. k.session # s
          BY <1>1, <1>4, <2>4, <2>6, <3>2, <4>1 DEF InverseMaps
        <4> HIDE DEF k
        <4>3. QED
          BY <1>1, <4>1, <4>2, HandledSame
      <3>3. QED
        BY <1>1, <1>2, <1>3, <1>4, <2>1, <3>1, <3>2, ProgressSame
    <2>7. QED
      BY <2>5, <2>6
  <1>18. CASE disconnect
    <2>1. Pop("ClientDisconnected") /\ received' = received
          /\ UNCHANGED <<connectionToSession, connecting>>
      BY <1>18 DEF disconnect, Pop
    <2>2. /\ eventQueue # <<>> /\ eventQueue' = Tail(eventQueue)
          /\ eventQueue[1].type = "ClientDisconnected"
      BY <1>1, <2>1, PopFacts
    <2>3. Waits(c, n)' /\ received'[c] = received[c]
      BY <1>14, <2>1, <2>2
    <2>4. PICK t : t = connectionToSession[Head(eventQueue).connection]
      OBVIOUS
    <2>5. /\ t \in DOMAIN sessions
          /\ \A u \in DOMAIN sessions : sessions'[u].seat = sessions[u].seat
          /\ calls' = IF isPlayer(getSeat(t))
                      THEN Append(calls, [call |-> "onClientDisconnected", session |-> t])
                      ELSE calls
      BY <1>1, <1>18, <2>4, DisconnectFacts
    <2>6. Handled(s)' = Handled(s) /\ \A j \in Handled(s) : calls'[j] = calls[j]
      <3> DEFINE k == [call |-> "onClientDisconnected", session |-> t]
      <3>1. k \in HandlerCall /\ k.call = "onClientDisconnected"
        BY <1>1, <2>5 DEF HandlerCall, TypeOK
      <3>2. calls' = Append(calls, k) \/ calls' = calls
        BY <2>5
      <3> HIDE DEF k
      <3>3. CASE calls' = calls
        BY <3>3 DEF Handled
      <3>4. CASE calls' = Append(calls, k)
        BY <1>1, <3>1, <3>4, HandledSame
      <3>5. QED
        BY <3>2, <3>3, <3>4
    <2>7. QED
      BY <1>1, <1>2, <1>3, <1>4, <1>5, <2>1, <2>3, <2>5, <2>6, ProgressSame
  <1>19. CASE connectAdd
    <2>1. Pop("ClientConnected") /\ UNCHANGED <<received, calls>>
      BY <1>19 DEF connectAdd, Pop
    <2>2. /\ eventQueue # <<>> /\ eventQueue' = Tail(eventQueue)
          /\ eventQueue[1].type = "ClientConnected"
      BY <1>1, <2>1, PopFacts
    <2>3. Waits(c, n)' /\ received'[c] = received[c]
      BY <1>14, <2>1, <2>2
    <2>4. PICK d, t : d = Head(eventQueue).connection /\ t = generateSessionId
      OBVIOUS
    <2>5. /\ d \notin DOMAIN connectionToSession /\ t \notin DOMAIN sessions
          /\ connecting' = t
          /\ \A u \in DOMAIN sessions : sessions'[u] = sessions[u]
          /\ DOMAIN connectionToSession' = DOMAIN connectionToSession \cup {d}
          /\ connectionToSession'[d] = t
          /\ \A u \in DOMAIN connectionToSession : connectionToSession'[u] = connectionToSession[u]
      BY <1>1, <1>19, <2>4, AddFacts
    <2>6. CASE c = d
      <3>1. n = 0
        BY <1>3, <2>5, <2>6 DEF Progress
      <3>2. Handled(t)' = {}
        BY <1>1, <2>1, <2>5 DEF Handled, HandlerKnows
      <3>3. Len(received'[c]) \in Nat
        BY <1>2, LenProperties DEF TypeOK
      <3>4. Done(c, 0)'
        BY <2>5, <2>6, <3>2, <3>3, DoneNothingYet
      <3>5. Progress(c, 0)' /\ 0 \in 0 .. Len(received'[c])
        BY <2>3, <2>5, <2>6, <3>1, <3>3, <3>4 DEF Progress
      <3>6. QED
        BY <3>5
    <2>7. CASE c # d
      <3>1. Handled(s)' = Handled(s) /\ \A j \in Handled(s) : calls'[j] = calls[j]
        BY <2>1 DEF Handled
      <3>2. c \in DOMAIN connectionToSession =>
                connectionToSession'[c] = s /\ sessions'[s].seat = sessions[s].seat
                /\ connecting' # s
        BY <1>4, <1>5, <2>5
      <3>3. QED
        BY <1>1, <1>2, <1>3, <1>4, <2>3, <2>5, <2>7, <3>1, <3>2, ProgressSame
    <2>8. QED
      BY <2>6, <2>7
  <1>20. CASE connectSeat
    <2>1. UNCHANGED <<received, eventQueue, calls, connectionToSession, connecting>>
      BY <1>20 DEF connectSeat
    <2>2. \A t \in DOMAIN sessions : t # connecting => sessions'[t] = sessions[t]
      BY <1>1, <1>20, SeatFacts
    <2>3. Waits(c, n)' /\ received'[c] = received[c]
      <3>1. Waiting(c)' = Waiting(c) /\ received'[c] = received[c]
            /\ \A i \in Waiting(c) : eventQueue'[i] = eventQueue[i]
        BY <2>1 DEF Waiting
      <3>2. QED
        BY <1>5, <3>1, WaitsSame
    <2>4. Handled(s)' = Handled(s) /\ \A j \in Handled(s) : calls'[j] = calls[j]
      BY <2>1 DEF Handled
    <2>5. CASE c \in DOMAIN connectionToSession /\ s = connecting
      <3>1. n = 0 /\ Done(c, 0)
        BY <1>3, <1>4, <2>5 DEF Progress
      <3>2. Len(received[c]) \in Nat /\ Len(received'[c]) \in Nat
        BY <1>1, <1>2, LenProperties DEF TypeOK
      <3>3. Handled(s) = {}
        BY <1>4, <3>1, <3>2, DoneNothing
      <3>4. Done(c, 0)'
        BY <1>4, <2>1, <2>4, <3>2, <3>3, DoneNothingYet
      <3>5. Progress(c, 0)' /\ 0 \in 0 .. Len(received'[c])
        BY <2>1, <2>3, <2>5, <3>1, <3>2, <3>4 DEF Progress
      <3>6. QED
        BY <3>5
    <2>6. CASE ~ (c \in DOMAIN connectionToSession /\ s = connecting)
      <3>1. c \in DOMAIN connectionToSession => sessions'[s].seat = sessions[s].seat
        BY <1>5, <2>2, <2>6
      <3>2. QED
        BY <1>1, <1>2, <1>3, <1>4, <2>1, <2>3, <2>4, <3>1, ProgressSame
    <2>7. QED
      BY <2>5, <2>6
  <1>21. CASE connectAssign
    <2>1. UNCHANGED <<received, eventQueue, sessions, connectionToSession>>
      BY <1>21 DEF connectAssign
    <2>2. /\ connecting' = 0
          /\ [call |-> "onClientConnected", session |-> connecting,
              seat |-> getSeat(connecting)] \in HandlerCall
          /\ calls' = Append(calls, [call |-> "onClientConnected", session |-> connecting,
                                     seat |-> getSeat(connecting)])
      BY <1>1, <1>21, AssignFacts
    <2>3. Waits(c, n)' /\ received'[c] = received[c]
      <3>1. Waiting(c)' = Waiting(c) /\ received'[c] = received[c]
            /\ \A i \in Waiting(c) : eventQueue'[i] = eventQueue[i]
        BY <2>1 DEF Waiting
      <3>2. QED
        BY <1>5, <3>1, WaitsSame
    <2>4. Handled(s)' = Handled(s) /\ \A j \in Handled(s) : calls'[j] = calls[j]
      BY <1>1, <2>2, HandledSame
    <2>5. QED
      BY <1>1, <1>2, <1>3, <1>4, <1>5, <2>1, <2>2, <2>3, <2>4, ProgressSame
  <1>22. QED
    BY <1>9, <1>10, <1>11, <1>12, <1>13, <1>15, <1>16, <1>17, <1>18, <1>19, <1>20, <1>21
    DEF Next, Owner, Network, ServerLoop

-----------------------------------------------------------------------------
(* The invariant and what follows from it.                                 *)

LEMMA InitEstablishesIInv ==
    ASSUME Init
    PROVE  IInv
  <1> USE ServerAssumption DEF Init
  <1>1. TypeOK
    <2>1. DOMAIN sessions = {} /\ DOMAIN connectionToSession = {}
      OBVIOUS
    <2>2. nextConnection \in 1 .. MaxConnections + 1 /\ broadcastNumber \in 0 .. MaxBroadcasts
      OBVIOUS
    <2>3. /\ eventQueue \in Seq(QueueEvent) /\ calls \in Seq(HandlerCall)
          /\ received \in [ConnectionId -> Seq(Payload)]
          /\ outbox \in [ConnectionId -> Seq(ServerMessage)]
      BY EmptySeq
    <2>4. QED
      BY <2>1, <2>2, <2>3 DEF TypeOK, SessionId
  <1>2. Phases /\ QueueInOrder /\ HandlerKnows /\ CallsInOrder
    BY DEF Phases, QueueInOrder, HandlerKnows, CallsInOrder
  <1>3. Known /\ InverseMaps /\ ActiveWhileOpen /\ SeatHasOneActive
    BY DEF Known, InverseMaps, ActiveWhileOpen, SeatHasOneActive, ConnectionId
  <1>4. \A c \in ConnectionId : Len(outbox[c]) = 0 /\ Len(received[c]) = 0
    OBVIOUS
  <1>5. ToldOnce /\ BroadcastsCounted /\ NoneMissing
    BY <1>4 DEF ToldOnce, BroadcastsCounted, NoneMissing
  <1>6. Delivered
    <2>1. SUFFICES ASSUME NEW c \in ConnectionId
                   PROVE  Progress(c, 0) /\ 0 \in 0 .. Len(received[c])
      BY DEF Delivered
    <2>2. Waiting(c) = {}
      BY DEF Waiting
    <2>3. Waits(c, 0)
      <3> DEFINE place == [i \in Waiting(c) |-> 0]
      <3>1. place \in [Waiting(c) -> 0 + 1 .. Len(received[c])]
        BY <2>2
      <3>2. 0 + 1 .. Len(received[c]) = {}
        BY <1>4, <2>1
      <3> HIDE DEF place
      <3>3. QED
        BY <2>2, <3>1, <3>2 DEF Waits
    <2>4. QED
      BY <1>4, <2>1, <2>3 DEF Progress
  <1>7. QED
    BY <1>1, <1>2, <1>3, <1>5, <1>6 DEF IInv

THEOREM Invariance == Spec => []IInv
  <1>1. Init => IInv
    BY InitEstablishesIInv
  <1>2. IInv /\ [Next]_vars => IInv'
    BY TypeStep, PhasesStep, QueueOrderStep, KnownStep, InverseStep, ActiveWhileOpenStep,
       SeatHasOneActiveStep, ToldOnceStep, HandlerStep, BroadcastsStep, DeliveredStep
    DEF IInv
  <1>3. QED
    BY <1>1, <1>2, PTL DEF Spec

\* Every variable keeps its type; the sessions, the numbers on the wire and the
\* arguments of the handler's calls are in range.
THEOREM TypeCorrect == Spec => []TypeOK
  <1>1. IInv => TypeOK
    BY DEF IInv
  <1>2. QED
    BY <1>1, Invariance, PTL

\* Two open connections never play the same colour: the seat of a session is
\* given away only when its connection is closed (freeSeat counts the active
\* sessions, and a session stays active while its connection is open).
THEOREM SeatIsSafe == Spec => []SeatHasOneOpenConnection
  <1>1. IInv => SeatHasOneOpenConnection
    <2>1. SUFFICES ASSUME IInv, NEW s \in DOMAIN sessions, NEW t \in DOMAIN sessions,
                          Reachable(s), Reachable(t), isPlayer(sessions[s].seat),
                          sessions[s].seat = sessions[t].seat
                   PROVE  s = t
      BY DEF SeatHasOneOpenConnection
    <2>2. sessions[s].isActive /\ sessions[t].isActive
      BY <2>1 DEF IInv, ActiveWhileOpen, Reachable
    <2>3. QED
      BY <2>1, <2>2 DEF IInv, SeatHasOneActive
  <1>2. QED
    BY <1>1, Invariance, PTL

\* The maps of the session manager are inverse to each other, and a client is
\* told the number of its own session, once.
THEOREM MapsAreInverse == Spec => []SessionsMatchConnections
  <1>1. IInv => SessionsMatchConnections
    <2>1. SUFFICES ASSUME IInv
                   PROVE  SessionsMatchConnections
      OBVIOUS
    <2>2. InverseMaps /\ ToldOnce
      BY <2>1 DEF IInv
    <2>3. QED
      BY <2>2 DEF SessionsMatchConnections, InverseMaps, ToldOnce
  <1>2. QED
    BY <1>1, Invariance, PTL

\* The handler hears of a session first that it connected, once, and of its end
\* last, once.
THEOREM HandlerIsCalledInOrder == Spec => []CallsInOrder
  <1>1. IInv => CallsInOrder
    BY DEF IInv
  <1>2. QED
    BY <1>1, Invariance, PTL

\* The events of a player reach the handler in the order they came, none lost
\* before the last and none twice; those of an observer never do.
THEOREM EventsAreHandledInOrder == Spec => []EventsInOrder
  <1>1. IInv => EventsInOrder
    <2>1. SUFFICES ASSUME IInv, NEW c \in DOMAIN connectionToSession,
                          NEW s, s = connectionToSession[c]
                   PROVE  \E cause \in [Handled(s) -> Came(c)] :
                              /\ \A j \in Handled(s) : calls[j].event = received[c][cause[j]]
                              /\ \A j, k \in Handled(s) : j < k => cause[j] < cause[k]
                              /\ Handled(s) # {} => isPlayer(sessions[s].seat)
                              /\ \A j \in Handled(s), i \in Came(c) :
                                     i < cause[j] => \E k \in Handled(s) : cause[k] = i
      BY DEF EventsInOrder
    <2>2. c \in ConnectionId /\ Len(received[c]) \in Nat
      BY <2>1, LenProperties DEF IInv, TypeOK
    <2>3. PICK n \in 0 .. Len(received[c]) : Done(c, n)
      BY <2>1, <2>2 DEF IInv, Delivered, Progress
    <2>4. PICK cause \in [Handled(s) -> Came(c)] :
              /\ \A j \in Handled(s) : calls[j].event = received[c][cause[j]] /\ cause[j] <= n
              /\ \A j, k \in Handled(s) : j < k => cause[j] < cause[k]
              /\ Handled(s) # {} => isPlayer(sessions[s].seat)
              /\ isPlayer(sessions[s].seat) =>
                     \A i \in Came(c) : i <= n => \E j \in Handled(s) : cause[j] = i
      BY <2>1, <2>3 DEF Done
    <2>5. ASSUME NEW j \in Handled(s), NEW i \in Came(c), i < cause[j]
          PROVE  \E k \in Handled(s) : cause[k] = i
      <3>1. i \in Nat /\ cause[j] \in Nat /\ cause[j] <= n
        BY <2>2, <2>4, <2>5 DEF Came
      <3>2. i <= n
        BY <2>2, <2>3, <2>5, <3>1
      <3>3. QED
        BY <2>4, <2>5, <3>2
    <2>6. QED
      BY <2>4, <2>5
  <1>2. QED
    BY <1>1, Invariance, PTL

\* From the first broadcast a client is sent on it is sent every one, in order,
\* until its connection closes, while sessions are added, seated and closed by
\* the server thread.
THEOREM BroadcastsHaveNoGap == Spec => []BroadcastsWithoutGap
  <1>1. ASSUME IInv PROVE BroadcastsWithoutGap
    <2>1. TypeOK /\ NoneMissing /\ BroadcastsCounted
      BY <1>1 DEF IInv
    <2>2. SUFFICES ASSUME NEW c \in ConnectionId, NEW i \in Heard(c)
                   PROVE  /\ \A j \in Heard(c) : i < j /\ Heard(c) \cap (i + 1 .. j - 1) = {}
                                 => outbox[c][j].number = outbox[c][i].number + 1
                          /\ c \in connections /\ ~ broadcasting /\ (\A j \in Heard(c) : j <= i)
                                 => outbox[c][i].number = broadcastNumber
      BY DEF BroadcastsWithoutGap
    <2>3. Len(outbox[c]) \in Nat /\ i \in 1 .. Len(outbox[c]) /\ outbox[c][i].type = "broadcast"
      BY <2>1, <2>2, LenProperties DEF TypeOK, Heard
    <2>4. ASSUME NEW j \in Heard(c), i < j, Heard(c) \cap (i + 1 .. j - 1) = {}
          PROVE  outbox[c][j].number = outbox[c][i].number + 1
      <3>1. j \in 1 .. Len(outbox[c]) /\ outbox[c][j].type = "broadcast"
        BY <2>4 DEF Heard
      <3>2. \A k \in i + 1 .. j - 1 : outbox[c][k].type # "broadcast"
        BY <2>3, <2>4, <3>1 DEF Heard
      <3>3. QED
        BY <2>1, <2>3, <2>4, <3>1, <3>2 DEF NoneMissing
    <2>5. ASSUME c \in connections, ~ broadcasting, \A j \in Heard(c) : j <= i
          PROVE  outbox[c][i].number = broadcastNumber
      <3>1. \A j \in i + 1 .. Len(outbox[c]) : outbox[c][j].type # "broadcast"
        BY <2>3, <2>5 DEF Heard
      <3>2. unvisited = {}
        BY <2>1, <2>5 DEF BroadcastsCounted
      <3>3. QED
        BY <2>1, <2>3, <2>5, <3>1, <3>2 DEF BroadcastsCounted
    <2>6. QED
      BY <2>4, <2>5
  <1>2. QED
    BY <1>1, Invariance, PTL

\* When stop has returned, the handler is not called any more and no session
\* changes: stop has joined the server thread.  Nothing is sent either: stop has
\* closed the connections and the network accepts no other one.
THEOREM StoppedIsQuiet == Spec => QuietAfterStop
  <1>1. ASSUME IInv, [Next]_vars, ownerPc = "done"
        PROVE  UNCHANGED <<calls, sessions, outbox>>
    <2>1. serverPc \in {"none", "ended"} /\ connections = {}
      BY <1>1 DEF IInv, Phases
    <2>2. sessions' = sessions
      BY <1>1, <2>1, SessionStep DEF connectAdd, connectSeat, disconnect, Pop
    <2>3. calls' = calls
      BY <1>1, <2>1, CallStep DEF connectAssign, forwardMessage, disconnect, Pop
    <2>4. outbox' = outbox
      BY <1>1, <2>1, OutboxStep DEF connectAssign, visitSession, Sent, Reachable
    <2>5. QED
      BY <2>2, <2>3, <2>4
  <1>2. IInv /\ [Next]_vars
            => [ownerPc = "done" => UNCHANGED <<calls, sessions, outbox>>]_vars
    BY <1>1
  <1>3. QED
    BY <1>2, Invariance, PTL DEF Spec, QuietAfterStop
=============================================================================
