------------------------------ MODULE TcpServer ------------------------------
(***************************************************************************)
(* core::TcpServer and its Connections: one io thread runs the handlers of *)
(* asio, any thread sends, and the owner stops the server.                 *)
(*                                                                         *)
(* A handler is one step, cut where it waits for m_connectionsMutex or     *)
(* calls back.  Bytes are the two parts of a frame, its header and its     *)
(* payload: an operation in flight can end with an error before each.      *)
(* send holds the mutex for a step, only the accept handler holds it for   *)
(* longer.                                                                 *)
(*                                                                         *)
(* Connection::stop closes a socket that the io thread may be using; asio  *)
(* promises nothing for that, and it is modelled as a read that fails.     *)
(* Left out: reject and a second start, which nothing calls, and an accept *)
(* that fails, which only accepts again.                                   *)
(***************************************************************************)
EXTENDS Naturals, Sequences, FiniteSets

CONSTANTS
    MaxConnections, \* Bound: connections accepted.
    MaxTraffic      \* Bound: frames from all clients and messages to them, together.

ASSUME TcpServerAssumption ==
    MaxConnections \in Nat /\ MaxTraffic \in Nat

VARIABLES
    ownerPc,            \* The owner: before start, before stop, in stop.
    running,            \* m_running of the server.
    contextStopped,     \* m_ioContext was stopped.
    accepting,          \* An accept is pending.
    connections,        \* m_connections
    closing,            \* The connections that stop took out of the map.
    connectionsMutex,   \* The thread that holds m_connectionsMutex for more than a step.
    nextConnection,     \* CONN_ID
    ioPc,               \* The io thread: between handlers or in one.
    ioConnection,       \* The connection of the handler it is in.
    isRunning,          \* m_running of each connection.
    stream,             \* The frames each client has sent.
    gone,               \* The clients that left, or cannot be reached.
    framesRead,         \* The headers read on each connection.
    reading,            \* The read in flight on each connection.
    posted,             \* The messages whose handler waits on the strand.
    writeQueue,         \* m_writeQueue
    writeInProgress,    \* m_writeInProgress
    writing,            \* The writes in flight: the parts each still has to write.
    wire,               \* The parts written on each connection.
    sent,               \* The messages handed to each connection.
    heard               \* The callbacks.

serverVars == <<running, contextStopped, connections, closing, connectionsMutex>>
acceptVars == <<accepting, nextConnection>>
ioVars     == <<ioPc, ioConnection>>
clientVars == <<stream, gone>>
readVars   == <<framesRead, reading>>
writeVars  == <<writeQueue, writeInProgress, writing, wire>>
sendVars   == <<posted, sent>>

vars == <<ownerPc, serverVars, acceptVars, ioVars, isRunning, clientVars, readVars,
          writeVars, sendVars, heard>>

-----------------------------------------------------------------------------
ConnectionId == 1 .. MaxConnections

\* A frame by its payload_size: between 1 and MAX_PAYLOAD_BYTES, zero, above.
Frame == {"text", "empty", "oversize"}

\* The messages sent, by their number.
Message == 1 .. MaxTraffic

Part == {"header", "payload"} \X Message

TypeOK ==
    /\ ownerPc \in {"start", "running", "context", "swap", "close", "join", "done"}
    /\ running \in BOOLEAN
    /\ contextStopped \in BOOLEAN
    /\ accepting \in BOOLEAN
    /\ connections \in SUBSET ConnectionId
    /\ closing \in SUBSET ConnectionId
    /\ connectionsMutex \in {"free", "io"}
    /\ nextConnection \in 1 .. MaxConnections + 1
    /\ ioPc \in {"none", "handlers", "accept", "connect", "erase", "callback", "ended"}
    /\ ioConnection \in 0 .. MaxConnections
    /\ isRunning \in [ConnectionId -> BOOLEAN]
    /\ stream \in [ConnectionId -> Seq(Frame)]
    /\ gone \in SUBSET ConnectionId
    /\ framesRead \in [ConnectionId -> Nat]
    /\ reading \in [ConnectionId -> {"none", "header", "payload"}]
    /\ posted \in [ConnectionId -> Seq(Message)]
    /\ writeQueue \in [ConnectionId -> Seq(Message)]
    /\ writeInProgress \in [ConnectionId -> BOOLEAN]
    /\ writing \in [ConnectionId -> Seq(Seq(Part))]
    /\ wire \in [ConnectionId -> Seq(Part)]
    /\ sent \in [ConnectionId -> Seq(Message)]
    /\ heard \in [ConnectionId -> Seq(Frame \cup {"onConnect", "onDisconnect"})]

Init ==
    /\ ownerPc = "start"
    /\ running = FALSE
    /\ contextStopped = FALSE
    /\ accepting = FALSE
    /\ connections = {}
    /\ closing = {}
    /\ connectionsMutex = "free"
    /\ nextConnection = 1
    /\ ioPc = "none"
    /\ ioConnection = 0
    /\ isRunning = [c \in ConnectionId |-> FALSE]
    /\ stream = [c \in ConnectionId |-> <<>>]
    /\ gone = {}
    /\ framesRead = [c \in ConnectionId |-> 0]
    /\ reading = [c \in ConnectionId |-> "none"]
    /\ posted = [c \in ConnectionId |-> <<>>]
    /\ writeQueue = [c \in ConnectionId |-> <<>>]
    /\ writeInProgress = [c \in ConnectionId |-> FALSE]
    /\ writing = [c \in ConnectionId |-> <<>>]
    /\ wire = [c \in ConnectionId |-> <<>>]
    /\ sent = [c \in ConnectionId |-> <<>>]
    /\ heard = [c \in ConnectionId |-> <<>>]

-----------------------------------------------------------------------------
(* The owner.                                                              *)

\* Nothing runs when the port could not be bound.
start ==
    /\ ownerPc = "start"
    /\ ownerPc' = "running"
    /\ running' \in BOOLEAN
    /\ accepting' = running'
    /\ ioPc' = IF running' THEN "handlers" ELSE "none"
    /\ UNCHANGED <<contextStopped, connections, closing, connectionsMutex, nextConnection,
                   ioConnection, isRunning, clientVars, readVars, writeVars, sendVars, heard>>

\* The exchange of stop, and the close of the acceptor.
stop ==
    /\ ownerPc = "running"
    /\ ownerPc' = IF running THEN "context" ELSE "done"
    /\ running' = FALSE
    /\ UNCHANGED <<contextStopped, connections, closing, connectionsMutex, acceptVars, ioVars,
                   isRunning, clientVars, readVars, writeVars, sendVars, heard>>

stopContext ==
    /\ ownerPc = "context"
    /\ ownerPc' = "swap"
    /\ contextStopped' = TRUE
    /\ UNCHANGED <<running, connections, closing, connectionsMutex, acceptVars, ioVars,
                   isRunning, clientVars, readVars, writeVars, sendVars, heard>>

swapConnections ==
    /\ ownerPc = "swap"
    /\ connectionsMutex = "free"
    /\ ownerPc' = "close"
    /\ closing' = connections
    /\ connections' = {}
    /\ UNCHANGED <<running, contextStopped, connectionsMutex, acceptVars, ioVars,
                   isRunning, clientVars, readVars, writeVars, sendVars, heard>>

\* Connection::stop of each, without a callback.
closeConnections ==
    /\ ownerPc = "close"
    /\ ownerPc' = "join"
    /\ isRunning' = [c \in ConnectionId |-> isRunning[c] /\ c \notin closing]
    /\ closing' = {}
    /\ UNCHANGED <<running, contextStopped, connections, connectionsMutex, acceptVars, ioVars,
                   clientVars, readVars, writeVars, sendVars, heard>>

joinThread ==
    /\ ownerPc = "join"
    /\ ioPc = "ended"
    /\ ownerPc' = "done"
    /\ UNCHANGED <<serverVars, acceptVars, ioVars, isRunning, clientVars, readVars,
                   writeVars, sendVars, heard>>

Stopping == stopContext \/ swapConnections \/ closeConnections \/ joinThread

-----------------------------------------------------------------------------
(* The clients, and the threads that send.                                 *)

\* How many items the sequences have together.
Total(sequences) == Cardinality(UNION {{c} \X DOMAIN sequences[c] : c \in ConnectionId})

Quiet == Total(stream) + Total(sent) < MaxTraffic

clientSends(c, frame) ==
    /\ isRunning[c]
    /\ c \notin gone
    /\ Quiet
    /\ stream' = [stream EXCEPT ![c] = Append(@, frame)]
    /\ UNCHANGED <<ownerPc, serverVars, acceptVars, ioVars, isRunning, gone, readVars,
                   writeVars, sendVars, heard>>

clientLeaves(c) ==
    /\ isRunning[c]
    /\ gone' = gone \cup {c}
    /\ UNCHANGED <<ownerPc, serverVars, acceptVars, ioVars, isRunning, stream, readVars,
                   writeVars, sendVars, heard>>

\* send and Connection::send.  It changes nothing when the connection is not
\* in the map, has stopped, or the message is above MAX_PAYLOAD_BYTES; in the
\* last two cases it still returns true.  The messages are numbered.
send(c) ==
    /\ connectionsMutex = "free"
    /\ c \in connections
    /\ isRunning[c]
    /\ Quiet
    /\ posted' = [posted EXCEPT ![c] = Append(@, Total(sent) + 1)]
    /\ sent' = [sent EXCEPT ![c] = Append(@, Total(sent) + 1)]
    /\ UNCHANGED <<ownerPc, serverVars, acceptVars, ioVars, isRunning, clientVars, readVars,
                   writeVars, heard>>

-----------------------------------------------------------------------------
(* The io thread: the accept.                                              *)

\* The io thread takes the next handler that is ready.
Handler == ioPc = "handlers" /\ ~contextStopped

\* The handler returns when the server was stopped.
accept ==
    /\ Handler
    /\ accepting
    /\ nextConnection <= MaxConnections
    /\ accepting' = FALSE
    /\ ioPc' = IF running THEN "accept" ELSE "handlers"
    /\ UNCHANGED <<ownerPc, serverVars, nextConnection, ioConnection, isRunning, clientVars,
                   readVars, writeVars, sendVars, heard>>

\* It has the mutex from here, and start sets m_running of the connection.
createConnection ==
    /\ ioPc = "accept"
    /\ connectionsMutex = "free"
    /\ ioPc' = "connect"
    /\ ioConnection' = nextConnection
    /\ nextConnection' = nextConnection + 1
    /\ connections' = connections \cup {nextConnection}
    /\ isRunning' = [isRunning EXCEPT ![nextConnection] = TRUE]
    /\ connectionsMutex' = "io"
    /\ UNCHANGED <<ownerPc, running, contextStopped, closing, accepting, clientVars, readVars,
                   writeVars, sendVars, heard>>

CallBack(c, callback) == heard' = [heard EXCEPT ![c] = Append(@, callback)]

\* A mutation of connect: the callback sends on the server.
ConnectSends ==
    /\ ioPc = "connect"
    /\ connectionsMutex = "free"
    /\ ioPc' = "handlers"
    /\ CallBack(ioConnection, "onConnect")
    /\ reading' = [reading EXCEPT ![ioConnection] = "header"]
    /\ connectionsMutex' = "free"
    /\ accepting' = running
    /\ UNCHANGED <<ownerPc, running, contextStopped, connections, closing, nextConnection,
                   ioConnection, isRunning, clientVars, framesRead, writeVars, sendVars>>

\* The rest of start and of the handler: the callback, the first read, and the
\* next accept.
connect ==
    /\ ioPc = "connect"
    /\ ioPc' = "handlers"
    /\ CallBack(ioConnection, "onConnect")
    /\ reading' = [reading EXCEPT ![ioConnection] = "header"]
    /\ connectionsMutex' = "free"
    /\ accepting' = running
    /\ UNCHANGED <<ownerPc, running, contextStopped, connections, closing, nextConnection,
                   ioConnection, isRunning, clientVars, framesRead, writeVars, sendVars>>

-----------------------------------------------------------------------------
(* The io thread: the end of a connection.                                 *)

\* A mutation of doDisconnect: every operation that fails reports the end.
DisconnectAlways(c) ==
    /\ isRunning' = [isRunning EXCEPT ![c] = FALSE]
    /\ ioPc' = "erase"
    /\ ioConnection' = c

\* The first that finds the connection running closes and reports it.
doDisconnect(c) ==
    IF isRunning[c]
    THEN /\ isRunning' = [isRunning EXCEPT ![c] = FALSE]
         /\ ioPc' = "erase"
         /\ ioConnection' = c
    ELSE UNCHANGED <<isRunning, ioVars>>

\* The callback of createConnection takes the connection out of the map ...
eraseConnection ==
    /\ ioPc = "erase"
    /\ connectionsMutex = "free"
    /\ ioPc' = "callback"
    /\ connections' = connections \ {ioConnection}
    /\ UNCHANGED <<ownerPc, running, contextStopped, closing, connectionsMutex, acceptVars,
                   ioConnection, isRunning, clientVars, readVars, writeVars, sendVars, heard>>

\* ... and reports it without the mutex.
onDisconnect ==
    /\ ioPc = "callback"
    /\ ioPc' = "handlers"
    /\ CallBack(ioConnection, "onDisconnect")
    /\ UNCHANGED <<ownerPc, serverVars, acceptVars, ioConnection, isRunning, clientVars,
                   readVars, writeVars, sendVars>>

\* run returns when the context was stopped.
endThread ==
    /\ ioPc = "handlers"
    /\ contextStopped
    /\ ioPc' = "ended"
    /\ UNCHANGED <<ownerPc, serverVars, acceptVars, ioConnection, isRunning, clientVars,
                   readVars, writeVars, sendVars, heard>>

-----------------------------------------------------------------------------
(* The io thread: reads and writes.                                        *)

\* The header of the next frame, and with an empty frame its callback.
readHeader(c) ==
    /\ Handler
    /\ reading[c] = "header"
    /\ isRunning[c]
    /\ framesRead[c] < Len(stream[c])
    /\ framesRead' = [framesRead EXCEPT ![c] = @ + 1]
    /\ LET frame == stream[c][framesRead[c] + 1] IN
       \/ /\ frame = "oversize"
          /\ reading' = [reading EXCEPT ![c] = "none"]
          /\ doDisconnect(c)
          /\ UNCHANGED heard
       \/ /\ frame = "empty"
          /\ CallBack(c, frame)
          /\ UNCHANGED <<reading, isRunning, ioVars>>
       \/ /\ frame = "text"
          /\ reading' = [reading EXCEPT ![c] = "payload"]
          /\ UNCHANGED <<isRunning, ioVars, heard>>
    /\ UNCHANGED <<ownerPc, serverVars, acceptVars, clientVars, writeVars, sendVars>>

readPayload(c) ==
    /\ Handler
    /\ reading[c] = "payload"
    /\ isRunning[c]
    /\ CallBack(c, stream[c][framesRead[c]])
    /\ reading' = [reading EXCEPT ![c] = "header"]
    /\ UNCHANGED <<ownerPc, serverVars, acceptVars, ioVars, isRunning, clientVars, framesRead,
                   writeVars, sendVars>>

\* An operation fails when the client is gone, and when the socket was closed.
MayFail(c) == Handler /\ (c \in gone \/ ~isRunning[c])

readFails(c) ==
    /\ MayFail(c)
    /\ reading[c] # "none"
    /\ reading' = [reading EXCEPT ![c] = "none"]
    /\ doDisconnect(c)
    /\ UNCHANGED <<ownerPc, serverVars, acceptVars, clientVars, framesRead, writeVars,
                   sendVars, heard>>

\* Both parts of the first message of the queue go to one async_write.
startWrite(c, queue, inFlight) ==
    IF isRunning[c] /\ queue # <<>>
    THEN /\ writeInProgress' = [writeInProgress EXCEPT ![c] = TRUE]
         /\ writing' = [writing EXCEPT ![c] =
                Append(inFlight, <<<<"header", Head(queue)>>, <<"payload", Head(queue)>>>>)]
    ELSE /\ writeInProgress' = [writeInProgress EXCEPT ![c] = FALSE]
         /\ writing' = [writing EXCEPT ![c] = inFlight]

\* A mutation of enqueue: a message is written at once.
EnqueueStartsWrite(c) ==
    LET queue == Append(writeQueue[c], Head(posted[c])) IN
    /\ Handler
    /\ posted[c] # <<>>
    /\ posted' = [posted EXCEPT ![c] = Tail(@)]
    /\ writeQueue' = [writeQueue EXCEPT ![c] = queue]
    /\ startWrite(c, queue, writing[c])
    /\ UNCHANGED <<ownerPc, serverVars, acceptVars, ioVars, isRunning, clientVars, readVars,
                   wire, sent, heard>>

\* The handler that send posts to the strand.
enqueue(c) ==
    LET queue == Append(writeQueue[c], Head(posted[c])) IN
    /\ Handler
    /\ posted[c] # <<>>
    /\ posted' = [posted EXCEPT ![c] = Tail(@)]
    /\ writeQueue' = [writeQueue EXCEPT ![c] = queue]
    /\ IF writeQueue[c] = <<>> /\ ~writeInProgress[c]
       THEN startWrite(c, queue, writing[c])
       ELSE UNCHANGED <<writeInProgress, writing>>
    /\ UNCHANGED <<ownerPc, serverVars, acceptVars, ioVars, isRunning, clientVars, readVars,
                   wire, sent, heard>>

\* A part of a write in flight goes out; async_write is done after the last.
writePart(c, i) ==
    /\ Handler
    /\ isRunning[c]
    /\ writing[c][i] # <<>>
    /\ wire' = [wire EXCEPT ![c] = Append(@, Head(writing[c][i]))]
    /\ writing' = [writing EXCEPT ![c][i] = Tail(@)]
    /\ UNCHANGED <<ownerPc, serverVars, acceptVars, ioVars, isRunning, clientVars, readVars,
                   writeQueue, writeInProgress, sendVars, heard>>

\* The other writes in flight.
Without(s, i) == [j \in 1 .. Len(s) - 1 |-> IF j < i THEN s[j] ELSE s[j + 1]]

written(c, i) ==
    /\ Handler
    /\ isRunning[c]
    /\ writing[c][i] = <<>>
    /\ writeQueue' = [writeQueue EXCEPT ![c] = Tail(@)]
    /\ startWrite(c, Tail(writeQueue[c]), Without(writing[c], i))
    /\ UNCHANGED <<ownerPc, serverVars, acceptVars, ioVars, isRunning, clientVars, readVars,
                   wire, sendVars, heard>>

\* The queue stays as it is.
writeFails(c, i) ==
    /\ MayFail(c)
    /\ writing' = [writing EXCEPT ![c] = Without(@, i)]
    /\ doDisconnect(c)
    /\ UNCHANGED <<ownerPc, serverVars, acceptVars, clientVars, readVars, writeQueue,
                   writeInProgress, wire, sendVars, heard>>

-----------------------------------------------------------------------------
Clients ==
    \E c \in ConnectionId : clientLeaves(c) \/ \E frame \in Frame : clientSends(c, frame)

Reads == \E c \in ConnectionId : readHeader(c) \/ readPayload(c) \/ readFails(c)

Writes ==
    \E c \in ConnectionId :
        \/ enqueue(c)
        \/ \E i \in DOMAIN writing[c] : writePart(c, i) \/ written(c, i) \/ writeFails(c, i)

\* What the io thread does in a handler, and its end.
FinishHandler ==
    createConnection \/ connect \/ eraseConnection \/ onDisconnect \/ endThread

\* The owner is back from stop and the io thread, if it ran, is gone.
Terminated ==
    /\ ownerPc = "done"
    /\ UNCHANGED vars

Next ==
    \/ start \/ stop \/ Stopping
    \/ Clients
    \/ \E c \in ConnectionId : send(c)
    \/ accept \/ Reads \/ Writes \/ FinishHandler
    \/ Terminated

\* The owner goes on once it has called stop, and the io thread finishes a
\* handler it is in.  Whether a client ever does anything is not assumed.
Spec ==
    /\ Init
    /\ [][Next]_vars
    /\ WF_<<ownerPc, contextStopped>>(Stopping)
    /\ WF_<<ioPc, ioConnection>>(FinishHandler)

-----------------------------------------------------------------------------
(* Properties.                                                             *)

Above == INSTANCE Callbacks WITH
    OversizeFrame <- {"oversize"}, stopped <- ownerPc = "done"

\* The session server gets what Callbacks promises: its connections in order,
\* each message of a client once and in order, one end and nothing after it,
\* although the read, the write and stop can each find a connection dead, in
\* any order, and nothing once stop has returned.
ImplementsCallbacks == Above!Spec

\* Threads that send to a connection do not mix their messages: what is on the
\* wire are whole frames, header before payload, in the order in which the
\* messages were handed to the connection, whatever waits in the write queue.
FramesInOrder ==
    \A c \in ConnectionId : \A i \in DOMAIN wire[c] :
        LET n == (i + 1) \div 2
        IN  /\ n <= Len(sent[c])
            /\ wire[c][i] = <<IF i % 2 = 1 THEN "header" ELSE "payload", sent[c][n]>>

\* A call of stop returns: the mutex it needs to take the connections is given
\* back, whatever the accept handler and the callbacks under it are doing.
StopReturns == []<>(ownerPc \in {"start", "running", "done"})
=============================================================================
