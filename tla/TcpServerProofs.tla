--------------------------- MODULE TcpServerProofs ---------------------------
(***************************************************************************)
(* For every number of connections, frames and messages: the transport     *)
(* keeps the contract of its callbacks, and frames leave whole and in      *)
(* order.                                                                  *)
(*                                                                         *)
(* Neither is inductive.  That an end is reported once rests on the flag   *)
(* of the connection: whoever clears it reports, and while it is set the   *)
(* end was not heard.  The order of the frames rests on the write queue:   *)
(* what was sent to a running connection is what is on the wire, the queue *)
(* and what still waits on the strand, in this order, and at most one      *)
(* write is in flight, that of the first message of the queue.             *)
(***************************************************************************)
EXTENDS TcpServer, FiniteSetTheorems, SequenceTheorems, TLAPS

\* When the io thread is there.
Phases ==
    /\ ownerPc = "start" => ioPc = "none"
    /\ ownerPc = "running" /\ ~running => ioPc = "none"
    /\ ownerPc = "done" => ioPc \in {"none", "ended"}
    /\ ioPc = "accept" => nextConnection <= MaxConnections

\* A connection is announced when it is made, before anything is read from it.
Announced ==
    /\ ioPc = "connect" => /\ ioConnection \in ConnectionId
                           /\ ioConnection = nextConnection - 1
                           /\ heard[ioConnection] = <<>>
    /\ \A c \in ConnectionId :
           /\ c >= nextConnection => heard[c] = <<>> /\ ~isRunning[c]
           /\ heard[c] = <<>> =>
                  /\ c >= nextConnection \/ (ioPc = "connect" /\ c = ioConnection)
                  /\ reading[c] = "none"
                  /\ framesRead[c] = 0

\* A connection that runs, or whose end is about to be reported, has not ended.
Ends ==
    /\ ioPc \in {"erase", "callback"} => /\ ioConnection \in ConnectionId
                                         /\ Above!IsOpen(ioConnection)
                                         /\ ~isRunning[ioConnection]
    /\ \A c \in ConnectionId : isRunning[c] => heard[c] = <<>> \/ Above!IsOpen(c)

\* What was heard of a connection that runs is what was read from it.
ReadsMatch ==
    \A c \in ConnectionId : isRunning[c] =>
        /\ reading[c] = "header" => Len(heard[c]) = framesRead[c] + 1
        /\ reading[c] = "payload" => /\ Len(heard[c]) = framesRead[c]
                                     /\ framesRead[c] \in 1 .. Len(stream[c])
                                     /\ stream[c][framesRead[c]] = "text"

\* The two parts of a message.
PartsOf(m) == <<<<"header", m>>, <<"payload", m>>>>

\* How many messages have left the queue of a connection.
Left(c) == Len(sent[c]) - Len(writeQueue[c]) - Len(posted[c])

\* One write is in flight at most, that of the first message in the queue.
OneWrite(c) ==
    /\ Len(writing[c]) <= 1
    /\ writing[c] # <<>> => writeQueue[c] # <<>>

\* What was sent is the wire, the queue and the strand.
QueueMatches(c) ==
    /\ Left(c) >= 0
    /\ \A i \in 1 .. Len(writeQueue[c]) : writeQueue[c][i] = sent[c][Left(c) + i]
    /\ \A i \in 1 .. Len(posted[c]) :
           posted[c][i] = sent[c][Left(c) + Len(writeQueue[c]) + i]

\* How much of the first message is on the wire.
WireMatches(c) ==
    LET m == Head(writeQueue[c])
    IN  \/ writing[c] = <<>> /\ Len(wire[c]) = 2 * Left(c)
        \/ writing[c] = <<PartsOf(m)>> /\ Len(wire[c]) = 2 * Left(c)
        \/ writing[c] = <<<<<<"payload", m>>>>>> /\ Len(wire[c]) = 2 * Left(c) + 1
        \/ writing[c] = <<<<>>>> /\ Len(wire[c]) = 2 * Left(c) + 2

\* The wire of one connection, as FramesInOrder has it.
FramesOf(c) ==
    \A i \in 1 .. Len(wire[c]) :
        LET n == (i + 1) \div 2
        IN  /\ n <= Len(sent[c])
            /\ wire[c][i] = <<IF i % 2 = 1 THEN "header" ELSE "payload", sent[c][n]>>

\* Nothing was sent to a connection that was not made.
WriteInv(c) ==
    /\ c >= nextConnection => /\ sent[c] = <<>> /\ posted[c] = <<>> /\ writeQueue[c] = <<>>
                              /\ writing[c] = <<>> /\ wire[c] = <<>>
    /\ OneWrite(c)
    /\ FramesOf(c)
    /\ isRunning[c] => QueueMatches(c) /\ WireMatches(c)

WritesMatch == \A c \in ConnectionId : WriteInv(c)

IInv == TypeOK /\ Phases /\ Announced /\ Ends /\ ReadsMatch /\ WritesMatch

-----------------------------------------------------------------------------
(* Types.                                                                  *)

\* The number of items in sequences is a number.
LEMMA TotalType ==
    ASSUME NEW S, NEW sequences \in [ConnectionId -> Seq(S)]
    PROVE  Total(sequences) \in Nat
  <1> DEFINE items == [c \in ConnectionId |-> {c} \X DOMAIN sequences[c]]
             sets == {{c} \X DOMAIN sequences[c] : c \in ConnectionId}
  <1>1. IsFiniteSet(ConnectionId)
    BY FS_Interval, TcpServerAssumption DEF ConnectionId
  <1>2. items \in Surjection(ConnectionId, sets)
    BY DEF Surjection
  <1>3. IsFiniteSet(sets)
    BY <1>1, <1>2, FS_Surjection
  <1>4. \A c \in ConnectionId : IsFiniteSet({c} \X DOMAIN sequences[c])
    <2> TAKE c \in ConnectionId
    <2>1. DOMAIN sequences[c] = 1 .. Len(sequences[c]) /\ Len(sequences[c]) \in Nat
      BY LenProperties
    <2>2. IsFiniteSet(DOMAIN sequences[c])
      BY <2>1, FS_Interval
    <2>3. QED
      BY <2>2, FS_Product, FS_Singleton
  <1>5. IsFiniteSet(UNION sets)
    BY <1>3, <1>4, FS_UNION
  <1>6. QED
    BY <1>5, FS_CardinalityType DEF Total

\* The number of the next message is one of those the bound allows.
LEMMA NextMessage ==
    ASSUME TypeOK, Quiet
    PROVE  Total(sent) + 1 \in Message
  <1>1. Total(stream) \in Nat /\ Total(sent) \in Nat
    BY TotalType DEF TypeOK
  <1>2. QED
    BY <1>1, TcpServerAssumption DEF Quiet, Message

LEMMA PartsType ==
    ASSUME NEW m \in Message
    PROVE  PartsOf(m) \in Seq(Part) /\ PartsOf(m) # <<>>
BY DEF PartsOf, Part

\* With one write in flight, there is no other one.
LEMMA NoOther ==
    ASSUME TypeOK, WritesMatch, NEW c \in ConnectionId, NEW i \in DOMAIN writing[c]
    PROVE  i = 1 /\ Len(writing[c]) = 1 /\ Without(writing[c], i) = <<>>
  <1>1. Len(writing[c]) \in Nat /\ i \in 1 .. Len(writing[c])
    <2>1. writing[c] \in Seq(Seq(Part))
      BY DEF TypeOK
    <2>2. QED
      BY <2>1, LenProperties
  <1>2. i = 1 /\ Len(writing[c]) = 1
    <2>1. Len(writing[c]) <= 1
      BY DEF WritesMatch, WriteInv, OneWrite
    <2>2. \A n \in Nat : n <= 1 => \A k \in 1 .. n : k = 1 /\ n = 1
      OBVIOUS
    <2>3. QED
      BY <1>1, <2>1, <2>2
  <1>3. Without(writing[c], i) = <<>>
    BY <1>2 DEF Without
  <1>4. QED
    BY <1>2, <1>3

LEMMA StartWriteType ==
    ASSUME TypeOK, NEW c \in ConnectionId, NEW queue \in Seq(Message),
           NEW inFlight \in Seq(Seq(Part)), startWrite(c, queue, inFlight)
    PROVE  /\ writeInProgress' \in [ConnectionId -> BOOLEAN]
           /\ writing' \in [ConnectionId -> Seq(Seq(Part))]
  <1>1. CASE isRunning[c] /\ queue # <<>>
    <2>1. PartsOf(Head(queue)) \in Seq(Part)
      BY <1>1, HeadTailProperties, PartsType
    <2>2. Append(inFlight, PartsOf(Head(queue))) \in Seq(Seq(Part))
      BY <2>1, AppendProperties
    <2>3. QED
      BY <1>1, <2>2 DEF startWrite, TypeOK, PartsOf
  <1>2. CASE ~ (isRunning[c] /\ queue # <<>>)
    BY <1>2 DEF startWrite, TypeOK
  <1>3. QED
    BY <1>1, <1>2

LEMMA TypeStep ==
    ASSUME IInv, [Next]_vars
    PROVE  TypeOK'
  <1> USE DEF vars, serverVars, acceptVars, ioVars, clientVars, readVars, writeVars, sendVars
  <1>1. TypeOK /\ Announced /\ Ends /\ WritesMatch
    BY DEF IInv
  <1>2. CASE UNCHANGED vars
    BY <1>1, <1>2 DEF TypeOK
  <1>3. CASE start
    BY <1>1, <1>3 DEF TypeOK, start
  <1>4. CASE stop
    BY <1>1, <1>4 DEF TypeOK, stop
  <1>5. CASE Stopping
    BY <1>1, <1>5 DEF TypeOK, Stopping, stopContext, swapConnections, closeConnections, joinThread
  <1>6. ASSUME NEW c \in ConnectionId, NEW frame \in Frame, clientSends(c, frame)
        PROVE  TypeOK'
    <2>1. Append(stream[c], frame) \in Seq(Frame)
      BY <1>1, AppendProperties DEF TypeOK
    <2>2. QED
      BY <1>1, <1>6, <2>1 DEF TypeOK, clientSends
  <1>7. ASSUME NEW c \in ConnectionId, clientLeaves(c)
        PROVE  TypeOK'
    BY <1>1, <1>7 DEF TypeOK, clientLeaves
  <1>8. ASSUME NEW c \in ConnectionId, send(c)
        PROVE  TypeOK'
    <2>1. Total(sent) + 1 \in Message
      BY <1>1, <1>8, NextMessage DEF send
    <2>2. /\ Append(posted[c], Total(sent) + 1) \in Seq(Message)
          /\ Append(sent[c], Total(sent) + 1) \in Seq(Message)
      BY <1>1, <2>1, AppendProperties DEF TypeOK
    <2>3. QED
      BY <1>1, <1>8, <2>2 DEF TypeOK, send
  <1>9. CASE accept
    BY <1>1, <1>9 DEF TypeOK, accept
  <1>10. CASE createConnection
    <2>1. nextConnection \in ConnectionId
      <3>1. Phases
        BY DEF IInv
      <3>2. QED
        BY <1>1, <1>10, <3>1, TcpServerAssumption
        DEF TypeOK, Phases, ConnectionId, createConnection
    <2>2. nextConnection' \in 1 .. MaxConnections + 1 /\ ioConnection' \in 0 .. MaxConnections
      BY <1>10, <2>1, TcpServerAssumption DEF createConnection, ConnectionId
    <2>3. QED
      BY <1>1, <1>10, <2>1, <2>2 DEF TypeOK, createConnection
  <1>11. CASE connect
    <2>1. ioConnection \in ConnectionId
      BY <1>1, <1>11 DEF Announced, connect
    <2>2. Append(heard[ioConnection], "onConnect") \in Seq(Frame \cup {"onConnect", "onDisconnect"})
      BY <1>1, <2>1, AppendProperties DEF TypeOK
    <2>3. QED
      BY <1>1, <1>11, <2>1, <2>2 DEF TypeOK, connect, CallBack
  <1>12. CASE eraseConnection
    BY <1>1, <1>12 DEF TypeOK, eraseConnection
  <1>13. CASE onDisconnect
    <2>1. ioConnection \in ConnectionId
      BY <1>1, <1>13 DEF Ends, onDisconnect
    <2>2. Append(heard[ioConnection], "onDisconnect") \in Seq(Frame \cup {"onConnect", "onDisconnect"})
      BY <1>1, <2>1, AppendProperties DEF TypeOK
    <2>3. QED
      BY <1>1, <1>13, <2>1, <2>2 DEF TypeOK, onDisconnect, CallBack
  <1>14. CASE endThread
    BY <1>1, <1>14 DEF TypeOK, endThread
  <1>15. ASSUME NEW c \in ConnectionId, readHeader(c)
         PROVE  TypeOK'
    <2>1. c \in 0 .. MaxConnections
      BY DEF ConnectionId
    <2>2. Append(heard[c], "empty") \in Seq(Frame \cup {"onConnect", "onDisconnect"})
      BY <1>1, AppendProperties DEF TypeOK, Frame
    <2>3. isRunning' \in [ConnectionId -> BOOLEAN] /\ ioPc' \in {"handlers", "erase"}
          /\ ioConnection' \in 0 .. MaxConnections
      BY <1>1, <1>15, <2>1 DEF TypeOK, readHeader, doDisconnect, Handler
    <2>4. /\ framesRead' \in [ConnectionId -> Nat]
          /\ reading' \in [ConnectionId -> {"none", "header", "payload"}]
      <3>1. framesRead[c] + 1 \in Nat
        BY <1>1 DEF TypeOK
      <3>2. QED
        BY <1>1, <1>15, <3>1 DEF TypeOK, readHeader
    <2>5. heard' \in [ConnectionId -> Seq(Frame \cup {"onConnect", "onDisconnect"})]
      BY <1>1, <1>15, <2>2 DEF TypeOK, readHeader, CallBack
    <2>6. QED
      BY <1>1, <1>15, <2>3, <2>4, <2>5 DEF TypeOK, readHeader
  <1>16. ASSUME NEW c \in ConnectionId, readPayload(c)
         PROVE  TypeOK'
    <2>1. stream[c][framesRead[c]] \in Frame
      <3>1. ReadsMatch
        BY DEF IInv
      <3>2. framesRead[c] \in 1 .. Len(stream[c])
        BY <1>16, <3>1 DEF ReadsMatch, readPayload
      <3>3. QED
        BY <1>1, <3>2, ElementOfSeq DEF TypeOK
    <2>2. Append(heard[c], stream[c][framesRead[c]]) \in Seq(Frame \cup {"onConnect", "onDisconnect"})
      BY <1>1, <2>1, AppendProperties DEF TypeOK
    <2>3. QED
      BY <1>1, <1>16, <2>2 DEF TypeOK, readPayload, CallBack
  <1>17. ASSUME NEW c \in ConnectionId, readFails(c)
         PROVE  TypeOK'
    <2>1. c \in 0 .. MaxConnections
      BY DEF ConnectionId
    <2>2. QED
      BY <1>1, <1>17, <2>1 DEF TypeOK, readFails, doDisconnect
  <1>18. ASSUME NEW c \in ConnectionId, enqueue(c)
         PROVE  TypeOK'
    <2> DEFINE queue == Append(writeQueue[c], Head(posted[c]))
    <2>1. /\ Tail(posted[c]) \in Seq(Message)
          /\ queue \in Seq(Message)
      BY <1>1, <1>18, HeadTailProperties, AppendProperties DEF TypeOK, enqueue
    <2>2. /\ writeInProgress' \in [ConnectionId -> BOOLEAN]
          /\ writing' \in [ConnectionId -> Seq(Seq(Part))]
      <3>1. CASE startWrite(c, queue, writing[c])
        BY <1>1, <2>1, <3>1, StartWriteType DEF TypeOK
      <3>2. CASE UNCHANGED <<writeInProgress, writing>>
        BY <1>1, <3>2 DEF TypeOK
      <3>3. QED
        BY <1>18, <3>1, <3>2 DEF enqueue
    <2>3. QED
      BY <1>1, <1>18, <2>1, <2>2 DEF TypeOK, enqueue
  <1>19. ASSUME NEW c \in ConnectionId, NEW i \in DOMAIN writing[c], writePart(c, i)
         PROVE  TypeOK'
    <2>1. i = 1 /\ Len(writing[c]) = 1 /\ writing[c] \in Seq(Seq(Part))
      BY <1>1, NoOther DEF TypeOK
    <2>2. writing[c][i] \in Seq(Part)
      BY <2>1, ElementOfSeq
    <2>3. Head(writing[c][i]) \in Part /\ Tail(writing[c][i]) \in Seq(Part)
      BY <1>19, <2>2, HeadTailProperties DEF writePart
    <2>4. [writing[c] EXCEPT ![i] = Tail(writing[c][i])] \in Seq(Seq(Part))
      BY <2>1, <2>3, ExceptSeq
    <2>5. Append(wire[c], Head(writing[c][i])) \in Seq(Part)
      BY <1>1, <2>3, AppendProperties DEF TypeOK
    <2>6. QED
      BY <1>1, <1>19, <2>4, <2>5 DEF TypeOK, writePart
  <1>20. ASSUME NEW c \in ConnectionId, NEW i \in DOMAIN writing[c], written(c, i)
         PROVE  TypeOK'
    <2>1. Without(writing[c], i) \in Seq(Seq(Part)) /\ writing[c] # <<>>
      <3>1. Without(writing[c], i) = <<>> /\ Len(writing[c]) = 1
        BY <1>1, NoOther
      <3>2. QED
        BY <3>1, EmptySeq
    <2>2. Tail(writeQueue[c]) \in Seq(Message)
      <3>1. OneWrite(c)
        BY <1>1 DEF WritesMatch, WriteInv
      <3>2. writeQueue[c] # <<>>
        BY <2>1, <3>1 DEF OneWrite
      <3>3. QED
        BY <1>1, <3>2, HeadTailProperties DEF TypeOK
    <2>3. /\ writeInProgress' \in [ConnectionId -> BOOLEAN]
          /\ writing' \in [ConnectionId -> Seq(Seq(Part))]
      BY <1>1, <1>20, <2>1, <2>2, StartWriteType DEF written
    <2>4. QED
      BY <1>1, <1>20, <2>2, <2>3 DEF TypeOK, written
  <1>21. ASSUME NEW c \in ConnectionId, NEW i \in DOMAIN writing[c], writeFails(c, i)
         PROVE  TypeOK'
    <2>1. c \in 0 .. MaxConnections
      BY DEF ConnectionId
    <2>2. Without(writing[c], i) \in Seq(Seq(Part))
      BY <1>1, NoOther, EmptySeq
    <2>3. QED
      BY <1>1, <1>21, <2>1, <2>2 DEF TypeOK, writeFails, doDisconnect
  <1>22. QED
    BY <1>2, <1>3, <1>4, <1>5, <1>6, <1>7, <1>8, <1>9, <1>10, <1>11, <1>12, <1>13, <1>14,
       <1>15, <1>16, <1>17, <1>18, <1>19, <1>20, <1>21
    DEF Next, Clients, Reads, Writes, FinishHandler, Terminated

-----------------------------------------------------------------------------
(* Callbacks.                                                              *)

LEMMA PhasesStep ==
    ASSUME IInv, [Next]_vars
    PROVE  Phases'
  <1> USE DEF vars, serverVars, acceptVars, ioVars, clientVars, readVars, writeVars, sendVars
  <1>1. Phases
    BY DEF IInv
  <1>2. CASE UNCHANGED vars
    BY <1>1, <1>2 DEF Phases
  <1>3. CASE start \/ stop \/ Stopping
    BY <1>1, <1>3
    DEF Phases, start, stop, Stopping, stopContext, swapConnections, closeConnections, joinThread
  <1>4. CASE Clients \/ \E c \in ConnectionId : send(c)
    BY <1>1, <1>4 DEF Phases, Clients, clientSends, clientLeaves, send
  <1>5. CASE accept \/ FinishHandler
    BY <1>1, <1>5
    DEF Phases, accept, FinishHandler, createConnection, connect, eraseConnection, onDisconnect,
        endThread, Handler
  <1>6. CASE Reads
    BY <1>1, <1>6
    DEF Phases, Reads, readHeader, readPayload, readFails, doDisconnect, MayFail, Handler
  <1>7. CASE Writes
    BY <1>1, <1>7
    DEF Phases, Writes, enqueue, writePart, written, writeFails, doDisconnect, MayFail, Handler
  <1>8. QED
    BY <1>2, <1>3, <1>4, <1>5, <1>6, <1>7 DEF Next, Terminated

CallbackInv == Announced /\ Ends /\ ReadsMatch

\* A connection that runs was announced and is open, but while it is made.
LEMMA RunningIsOpen ==
    ASSUME IInv, ioPc # "connect", NEW c \in ConnectionId, isRunning[c]
    PROVE  Above!IsOpen(c)
  <1>1. nextConnection \in Nat /\ c \in Nat
    BY DEF IInv, TypeOK, ConnectionId
  <1>2. ~ (c >= nextConnection)
    BY DEF IInv, Announced
  <1>3. heard[c] # <<>>
    BY <1>2 DEF IInv, Announced
  <1>4. QED
    BY <1>3 DEF IInv, Ends

\* Steps that neither call back nor read: no connection starts, and a client
\* may have sent more.
LEMMA QuietStep ==
    ASSUME IInv, UNCHANGED <<heard, readVars, nextConnection, ioConnection>>,
           \A c \in ConnectionId : isRunning'[c] => isRunning[c],
           ioPc' = "connect" <=> ioPc = "connect",
           ioPc' \in {"erase", "callback"} => ioPc \in {"erase", "callback"},
           \A c \in ConnectionId : \A i \in 1 .. Len(stream[c]) :
               i \in 1 .. Len(stream'[c]) /\ stream'[c][i] = stream[c][i]
    PROVE  CallbackInv'
  <1> USE DEF readVars
  <1>1. Announced'
    BY DEF IInv, Announced
  <1>2. \A c \in ConnectionId : Above!IsOpen(c)' <=> Above!IsOpen(c)
    BY DEF Above!IsOpen
  <1>3. Ends'
    <2>1. ASSUME ioPc' \in {"erase", "callback"}
          PROVE  ioConnection' \in ConnectionId /\ Above!IsOpen(ioConnection)' /\ ~isRunning'[ioConnection']
      BY <1>2, <2>1 DEF IInv, Ends
    <2>2. QED
      BY <1>2, <2>1 DEF IInv, Ends
  <1>4. ReadsMatch'
    BY DEF IInv, ReadsMatch
  <1>5. QED
    BY <1>1, <1>3, <1>4 DEF CallbackInv

\* An operation of a connection failed, and the handler may have to report it.
LEMMA DisconnectStep ==
    ASSUME IInv, NEW c \in ConnectionId, Handler, doDisconnect(c),
           UNCHANGED <<heard, stream, nextConnection>>,
           \A d \in ConnectionId \ {c} : reading'[d] = reading[d] /\ framesRead'[d] = framesRead[d],
           reading'[c] \in {"none", reading[c]},
           reading[c] = "none" => framesRead'[c] = framesRead[c]
    PROVE  CallbackInv'
  <1>1. ioPc = "handlers" /\ ioPc' # "connect"
    BY DEF Handler, doDisconnect, ioVars
  <1>2. /\ isRunning \in [ConnectionId -> BOOLEAN]
        /\ ~isRunning'[c]
        /\ \A d \in ConnectionId : isRunning'[d] => isRunning[d]
    BY DEF IInv, TypeOK, doDisconnect
  <1>3. Announced'
    <2>1. \A d \in ConnectionId : heard[d] = <<>> =>
              d >= nextConnection /\ reading'[d] = "none" /\ framesRead'[d] = 0
      BY <1>1 DEF IInv, Announced
    <2>2. QED
      BY <1>1, <1>2, <2>1 DEF IInv, Announced
  <1>4. \A d \in ConnectionId : Above!IsOpen(d)' <=> Above!IsOpen(d)
    BY DEF Above!IsOpen
  <1>5. Ends'
    <2>1. ASSUME ioPc' \in {"erase", "callback"}
          PROVE  ioConnection' = c /\ isRunning[c]
      BY <1>1, <2>1 DEF doDisconnect, ioVars
    <2>2. ASSUME ioPc' \in {"erase", "callback"}
          PROVE  ioConnection' = c /\ Above!IsOpen(c)
      BY <1>1, <2>1, <2>2, RunningIsOpen
    <2>3. ASSUME ioPc' \in {"erase", "callback"}
          PROVE  ioConnection' \in ConnectionId /\ Above!IsOpen(ioConnection)' /\ ~isRunning'[ioConnection']
      BY <1>2, <1>4, <2>2, <2>3
    <2>4. QED
      BY <1>2, <1>4, <2>3 DEF IInv, Ends
  <1>6. ReadsMatch'
    BY <1>2 DEF IInv, ReadsMatch
  <1>7. QED
    BY <1>3, <1>5, <1>6 DEF CallbackInv

LEMMA CallBackStep ==
    ASSUME TypeOK, NEW c \in ConnectionId, NEW callback \in Frame \cup {"onConnect", "onDisconnect"},
           CallBack(c, callback)
    PROVE  /\ heard'[c] # <<>>
           /\ Len(heard'[c]) = Len(heard[c]) + 1
           /\ callback # "onDisconnect" => Above!IsOpen(c)'
           /\ \A d \in ConnectionId \ {c} : heard'[d] = heard[d] /\ (Above!IsOpen(d)' <=> Above!IsOpen(d))
  <1> DEFINE S == Frame \cup {"onConnect", "onDisconnect"}
  <1>1. heard \in [ConnectionId -> Seq(S)]
    BY DEF TypeOK
  <1>2. heard' = [heard EXCEPT ![c] = Append(heard[c], callback)]
    BY DEF CallBack
  <1>3. heard'[c] = Append(heard[c], callback) /\ \A d \in ConnectionId \ {c} : heard'[d] = heard[d]
    BY <1>1, <1>2
  <1>4. /\ heard'[c] # <<>>
        /\ Len(heard'[c]) = Len(heard[c]) + 1
        /\ heard'[c][Len(heard[c]) + 1] = callback
    <2> HIDE DEF S
    <2>1. heard[c] \in Seq(S) /\ callback \in S
      BY <1>1 DEF S
    <2>2. QED
      BY <1>3, <2>1, AppendProperties
  <1>5. QED
    BY <1>3, <1>4 DEF Above!IsOpen

\* What follows a callback for a connection that runs.
LEMMA CallbackInvStep ==
    ASSUME IInv, [Next]_vars
    PROVE  CallbackInv'
  <1> USE DEF vars, serverVars, acceptVars, ioVars, clientVars, readVars, writeVars, sendVars
  <1>1. TypeOK /\ Phases /\ Announced /\ Ends /\ ReadsMatch
    BY DEF IInv
  <1>2. \A c \in ConnectionId : Len(heard[c]) \in Nat /\ Len(stream[c]) \in Nat
    BY <1>1, LenProperties DEF TypeOK
  <1>3. CASE UNCHANGED vars
    BY <1>2, <1>3, QuietStep
  <1>4. CASE start \/ stop \/ Stopping
    <2>1. UNCHANGED <<heard, readVars, nextConnection, ioConnection, stream>>
      BY <1>4 DEF start, stop, Stopping, stopContext, swapConnections, closeConnections, joinThread
    <2>2. \A c \in ConnectionId : isRunning'[c] => isRunning[c]
      BY <1>1, <1>4 DEF TypeOK, start, stop, Stopping, stopContext, swapConnections,
                        closeConnections, joinThread
    <2>3. ioPc' = ioPc \/ (ioPc = "none" /\ ioPc' = "handlers") \/ (ioPc = "none" /\ ioPc' = "none")
      BY <1>1, <1>4 DEF Phases, start, stop, Stopping, stopContext, swapConnections,
                        closeConnections, joinThread
    <2>4. QED
      BY <1>2, <2>1, <2>2, <2>3, QuietStep
  <1>5. ASSUME NEW c \in ConnectionId, NEW frame \in Frame, clientSends(c, frame)
        PROVE  CallbackInv'
    <2>1. \A d \in ConnectionId : \A i \in 1 .. Len(stream[d]) :
              i \in 1 .. Len(stream'[d]) /\ stream'[d][i] = stream[d][i]
      <3>1. stream' = [stream EXCEPT ![c] = Append(stream[c], frame)] /\ stream[c] \in Seq(Frame)
            /\ stream \in [ConnectionId -> Seq(Frame)]
        BY <1>1, <1>5 DEF TypeOK, clientSends
      <3>2. /\ Len(Append(stream[c], frame)) = Len(stream[c]) + 1
            /\ \A i \in 1 .. Len(stream[c]) : Append(stream[c], frame)[i] = stream[c][i]
        BY <3>1, AppendProperties
      <3>3. QED
        BY <1>2, <3>1, <3>2
    <2>2. QED
      BY <1>5, <2>1, QuietStep DEF clientSends
  <1>6. ASSUME NEW c \in ConnectionId, clientLeaves(c) \/ send(c)
        PROVE  CallbackInv'
    BY <1>2, <1>6, QuietStep DEF clientLeaves, send
  <1>7. CASE accept \/ eraseConnection \/ endThread
    BY <1>2, <1>7, QuietStep DEF accept, eraseConnection, endThread, Handler
  <1>8. CASE createConnection
    <2>1. nextConnection \in ConnectionId /\ nextConnection \in Nat /\ ConnectionId \subseteq Nat
      BY <1>1, <1>8, TcpServerAssumption DEF TypeOK, Phases, ConnectionId, createConnection
    <2>2. \A c \in ConnectionId : isRunning'[c] => isRunning[c] \/ c = nextConnection
      BY <1>1, <1>8 DEF TypeOK, createConnection
    <2>3. heard[nextConnection] = <<>> /\ UNCHANGED <<heard, readVars, stream>>
      BY <1>1, <1>8, <2>1 DEF Announced, createConnection
    <2>4. Announced'
      <3>1. ASSUME NEW c \in ConnectionId, c >= nextConnection'
            PROVE  heard'[c] = <<>> /\ ~isRunning'[c]
        <4>1. c >= nextConnection /\ c # nextConnection
          BY <1>8, <2>1, <3>1 DEF createConnection
        <4>2. QED
          BY <1>1, <2>2, <2>3, <4>1 DEF Announced
      <3>2. ASSUME NEW c \in ConnectionId, heard'[c] = <<>>
            PROVE  /\ c >= nextConnection' \/ (ioPc' = "connect" /\ c = ioConnection')
                   /\ reading'[c] = "none"
                   /\ framesRead'[c] = 0
        <4>1. c >= nextConnection /\ reading[c] = "none" /\ framesRead[c] = 0
          BY <1>1, <1>8, <2>3, <3>2 DEF Announced, createConnection
        <4>2. QED
          BY <1>8, <2>1, <4>1 DEF createConnection
      <3>3. QED
        BY <1>8, <2>1, <2>3, <3>1, <3>2 DEF Announced, createConnection
    <2>5. \A c \in ConnectionId : Above!IsOpen(c)' <=> Above!IsOpen(c)
      BY <2>3 DEF Above!IsOpen
    <2>6. Ends'
      BY <1>1, <1>8, <2>2, <2>3, <2>5 DEF Ends, createConnection
    <2>7. ReadsMatch'
      <3>1. reading[nextConnection] = "none"
        BY <1>1, <2>1, <2>3 DEF Announced
      <3>2. QED
        BY <1>1, <2>2, <2>3, <3>1 DEF ReadsMatch
    <2>8. QED
      BY <2>4, <2>6, <2>7 DEF CallbackInv
  <1>9. CASE connect
    <2> PICK c \in ConnectionId : c = ioConnection
      BY <1>1, <1>9 DEF Announced, connect
    <2>1. heard[c] = <<>> /\ c = nextConnection - 1
          /\ nextConnection \in Nat /\ ConnectionId \subseteq Nat
      BY <1>1, <1>9 DEF TypeOK, Announced, connect, ConnectionId
    <2>2. /\ heard'[c] # <<>> /\ Len(heard'[c]) = Len(heard[c]) + 1 /\ Above!IsOpen(c)'
          /\ \A d \in ConnectionId \ {c} :
                 heard'[d] = heard[d] /\ (Above!IsOpen(d)' <=> Above!IsOpen(d))
      <3>1. CallBack(c, "onConnect")
        BY <1>9 DEF connect, CallBack
      <3>2. QED
        BY <1>1, <3>1, CallBackStep
    <2>3. framesRead[c] = 0 /\ Len(heard[c]) = 0
      BY <1>1, <2>1 DEF Announced
    <2>4. /\ reading' = [reading EXCEPT ![c] = "header"]
          /\ reading \in [ConnectionId -> {"none", "header", "payload"}]
          /\ UNCHANGED <<isRunning, framesRead, nextConnection, stream, ioConnection>>
          /\ ioPc' = "handlers" /\ ioPc = "connect"
      BY <1>1, <1>9 DEF TypeOK, connect
    <2>5. Announced'
      <3>1. \A d \in ConnectionId : d >= nextConnection => d # c
        BY <2>1
      <3>2. QED
        BY <1>1, <2>1, <2>2, <2>4, <3>1 DEF Announced
    <2>6. Ends'
      BY <1>1, <2>2, <2>4 DEF Ends
    <2>7. ReadsMatch'
      <3>1. reading'[c] = "header" /\ Len(heard'[c]) = framesRead'[c] + 1
        BY <2>2, <2>3, <2>4
      <3>2. \A d \in ConnectionId \ {c} : reading'[d] = reading[d] /\ heard'[d] = heard[d]
        BY <2>2, <2>4
      <3>3. QED
        BY <1>1, <2>4, <3>1, <3>2 DEF ReadsMatch
    <2>8. QED
      BY <2>5, <2>6, <2>7 DEF CallbackInv
  <1>10. CASE onDisconnect
    <2> DEFINE c == ioConnection
    <2>1. c \in ConnectionId /\ ~isRunning[c] /\ heard[c] # <<>>
      BY <1>1, <1>10 DEF Ends, onDisconnect, Above!IsOpen
    <2>2. /\ heard'[c] # <<>>
          /\ \A d \in ConnectionId \ {c} :
                 heard'[d] = heard[d] /\ (Above!IsOpen(d)' <=> Above!IsOpen(d))
      BY <1>1, <1>10, <2>1, CallBackStep DEF onDisconnect
    <2>3. /\ UNCHANGED <<isRunning, framesRead, reading, nextConnection, stream, ioConnection>>
          /\ ioPc' = "handlers" /\ ioPc = "callback"
      BY <1>10 DEF onDisconnect
    <2> HIDE DEF c
    <2>4. Announced'
      BY <1>1, <2>1, <2>2, <2>3 DEF Announced
    <2>5. Ends'
      BY <1>1, <2>1, <2>2, <2>3 DEF Ends
    <2>6. ReadsMatch'
      BY <1>1, <2>1, <2>2, <2>3 DEF ReadsMatch
    <2>7. QED
      BY <2>4, <2>5, <2>6 DEF CallbackInv
  <1>11. ASSUME NEW c \in ConnectionId, readHeader(c)
         PROVE  CallbackInv'
    <2> DEFINE frame == stream[c][framesRead[c] + 1]
    <2>1. /\ Handler /\ ioPc = "handlers" /\ isRunning[c] /\ reading[c] = "header"
          /\ Len(heard[c]) = framesRead[c] + 1
          /\ framesRead[c] \in Nat /\ framesRead[c] < Len(stream[c])
          /\ UNCHANGED <<stream, nextConnection>>
          /\ framesRead' = [framesRead EXCEPT ![c] = @ + 1]
      BY <1>1, <1>11 DEF TypeOK, ReadsMatch, readHeader, Handler
    <2>2. heard[c] # <<>> /\ Above!IsOpen(c)
      BY <1>1, <2>1, RunningIsOpen DEF Announced
    <2>3. /\ framesRead \in [ConnectionId -> Nat]
          /\ reading \in [ConnectionId -> {"none", "header", "payload"}]
      BY <1>1 DEF TypeOK
    <2>4. CASE frame = "oversize" /\ reading' = [reading EXCEPT ![c] = "none"]
               /\ doDisconnect(c) /\ UNCHANGED heard
      BY <2>1, <2>3, <2>4, DisconnectStep
    <2>5. CASE frame = "empty" /\ CallBack(c, frame) /\ UNCHANGED <<reading, isRunning, ioVars>>
      <3>1. /\ heard'[c] # <<>> /\ Len(heard'[c]) = Len(heard[c]) + 1 /\ Above!IsOpen(c)'
            /\ \A d \in ConnectionId \ {c} :
                   heard'[d] = heard[d] /\ (Above!IsOpen(d)' <=> Above!IsOpen(d))
        BY <1>1, <2>5, CallBackStep DEF Frame
      <3>2. Announced'
        BY <1>1, <2>1, <2>2, <2>3, <2>5, <3>1 DEF Announced
      <3>3. Ends'
        BY <1>1, <2>1, <2>5, <3>1 DEF Ends
      <3>4. ReadsMatch'
        BY <1>1, <2>1, <2>3, <2>5, <3>1 DEF ReadsMatch
      <3>5. QED
        BY <3>2, <3>3, <3>4 DEF CallbackInv
    <2>6. CASE frame = "text" /\ reading' = [reading EXCEPT ![c] = "payload"]
               /\ UNCHANGED <<isRunning, ioVars, heard>>
      <3>1. \A d \in ConnectionId : Above!IsOpen(d)' <=> Above!IsOpen(d)
        BY <2>6 DEF Above!IsOpen
      <3>2. Announced'
        BY <1>1, <2>1, <2>2, <2>3, <2>6 DEF Announced
      <3>3. Ends'
        BY <1>1, <2>1, <2>6, <3>1 DEF Ends
      <3>4. framesRead'[c] = framesRead[c] + 1 /\ framesRead'[c] \in 1 .. Len(stream[c])
        BY <1>2, <2>1, <2>3
      <3>5. ReadsMatch'
        BY <1>1, <2>1, <2>3, <2>6, <3>4 DEF ReadsMatch
      <3>6. QED
        BY <3>2, <3>3, <3>5 DEF CallbackInv
    <2>7. QED
      BY <1>11, <2>4, <2>5, <2>6 DEF readHeader
  <1>12. ASSUME NEW c \in ConnectionId, readPayload(c)
         PROVE  CallbackInv'
    <2>1. /\ Handler /\ ioPc = "handlers" /\ isRunning[c] /\ reading[c] = "payload"
          /\ Len(heard[c]) = framesRead[c] /\ stream[c][framesRead[c]] = "text"
          /\ UNCHANGED <<stream, nextConnection, framesRead, ioVars, isRunning>>
          /\ CallBack(c, "text")
      BY <1>1, <1>12 DEF ReadsMatch, readPayload, Handler
    <2>2. heard[c] # <<>>
      BY <1>1, <2>1, RunningIsOpen DEF Announced
    <2>3. /\ reading' = [reading EXCEPT ![c] = "header"]
          /\ reading \in [ConnectionId -> {"none", "header", "payload"}]
      BY <1>1, <1>12 DEF TypeOK, readPayload
    <2>4. /\ heard'[c] # <<>> /\ Len(heard'[c]) = Len(heard[c]) + 1 /\ Above!IsOpen(c)'
          /\ \A d \in ConnectionId \ {c} :
                 heard'[d] = heard[d] /\ (Above!IsOpen(d)' <=> Above!IsOpen(d))
      BY <1>1, <2>1, CallBackStep DEF Frame
    <2>5. Announced'
      BY <1>1, <2>1, <2>2, <2>3, <2>4 DEF Announced
    <2>6. Ends'
      BY <1>1, <2>1, <2>4 DEF Ends
    <2>7. ReadsMatch'
      BY <1>1, <2>1, <2>3, <2>4 DEF ReadsMatch
    <2>8. QED
      BY <2>5, <2>6, <2>7 DEF CallbackInv
  <1>13. ASSUME NEW c \in ConnectionId, readFails(c)
         PROVE  CallbackInv'
    <2>1. reading \in [ConnectionId -> {"none", "header", "payload"}]
      BY <1>1 DEF TypeOK
    <2>2. QED
      BY <1>13, <2>1, DisconnectStep DEF readFails, MayFail
  <1>14. ASSUME NEW c \in ConnectionId, enqueue(c)
         PROVE  CallbackInv'
    BY <1>2, <1>14, QuietStep DEF enqueue
  <1>15. ASSUME NEW c \in ConnectionId, NEW i \in DOMAIN writing[c], writePart(c, i) \/ written(c, i)
         PROVE  CallbackInv'
    BY <1>2, <1>15, QuietStep DEF writePart, written
  <1>16. ASSUME NEW c \in ConnectionId, NEW i \in DOMAIN writing[c], writeFails(c, i)
         PROVE  CallbackInv'
    BY <1>16, DisconnectStep DEF writeFails, MayFail
  <1>17. QED
    BY <1>3, <1>4, <1>5, <1>6, <1>7, <1>8, <1>9, <1>10, <1>11, <1>12, <1>13, <1>14, <1>15, <1>16
    DEF Next, Clients, Reads, Writes, FinishHandler, Terminated

-----------------------------------------------------------------------------
(* Frames.                                                                 *)

\* What is kept for a connection are sequences.
LEMMA WriteTypes ==
    ASSUME TypeOK, NEW c \in ConnectionId
    PROVE  /\ sent[c] \in Seq(Message) /\ posted[c] \in Seq(Message)
           /\ writeQueue[c] \in Seq(Message)
           /\ writing[c] \in Seq(Seq(Part)) /\ wire[c] \in Seq(Part)
           /\ Len(sent[c]) \in Nat /\ Len(posted[c]) \in Nat /\ Len(writeQueue[c]) \in Nat
           /\ Len(writing[c]) \in Nat /\ Len(wire[c]) \in Nat
  <1>1. /\ sent[c] \in Seq(Message) /\ posted[c] \in Seq(Message)
        /\ writeQueue[c] \in Seq(Message)
        /\ writing[c] \in Seq(Seq(Part)) /\ wire[c] \in Seq(Part)
    BY DEF TypeOK
  <1>2. QED
    BY <1>1, LenProperties

\* Where the items of the queue and of the strand are in what was sent.
LEMMA Places ==
    \A total, queue, wait \in Nat, left \in Int :
        left = total - queue - wait /\ left >= 0 =>
            /\ \A i \in 1 .. queue : left + i \in 1 .. total
            /\ \A i \in 1 .. wait : left + queue + i \in 1 .. total
            /\ left + queue + (wait + 1) = total + 1
OBVIOUS

\* Neither a message that is sent nor one that is queued leaves the queue.
LEMMA SameLeft ==
    ASSUME NEW total \in Nat, NEW queue \in Nat, NEW wait \in Nat
    PROVE  /\ (total + 1) - queue - (wait + 1) = total - queue - wait
           /\ total - (queue + 1) - (wait - 1) = total - queue - wait
           /\ total - queue - wait \in Int
OBVIOUS

LEMMA SameWrites ==
    ASSUME NEW c \in ConnectionId, WriteInv(c), isRunning'[c] => isRunning[c],
           c >= nextConnection' => c >= nextConnection,
           sent'[c] = sent[c], posted'[c] = posted[c], writeQueue'[c] = writeQueue[c],
           writing'[c] = writing[c], wire'[c] = wire[c]
    PROVE  WriteInv(c)'
  <1>1. Left(c)' = Left(c)
    BY DEF Left
  <1>2. OneWrite(c)' /\ FramesOf(c)'
    BY DEF WriteInv, OneWrite, FramesOf
  <1>3. ASSUME isRunning'[c]
        PROVE  QueueMatches(c)' /\ WireMatches(c)'
    <2>1. QueueMatches(c) /\ WireMatches(c)
      BY <1>3 DEF WriteInv
    <2>2. QED
      BY <1>1, <2>1 DEF QueueMatches, WireMatches
  <1>4. QED
    BY <1>2, <1>3 DEF WriteInv

LEMMA SendStep ==
    ASSUME IInv, NEW c \in ConnectionId, send(c)
    PROVE  WriteInv(c)'
  <1> DEFINE m == Total(sent) + 1
  <1>1. TypeOK /\ WriteInv(c) /\ Announced
    BY DEF IInv, WritesMatch
  <1>n. /\ Len(sent[c]) \in Nat /\ Len(posted[c]) \in Nat /\ Len(writeQueue[c]) \in Nat
        /\ Len(writing[c]) \in Nat /\ Len(wire[c]) \in Nat
    BY <1>1, WriteTypes
  <1>2. m \in Message
    BY <1>1, NextMessage DEF send
  <1>3. /\ isRunning[c] /\ ~ (c >= nextConnection)
        /\ sent'[c] = Append(sent[c], m) /\ posted'[c] = Append(posted[c], m)
        /\ UNCHANGED <<writeVars, nextConnection, isRunning>>
    BY <1>1 DEF Announced, TypeOK, send, acceptVars
  <1> HIDE DEF m
  <1>4. /\ Len(sent'[c]) = Len(sent[c]) + 1
        /\ \A i \in 1 .. Len(sent[c]) : sent'[c][i] = sent[c][i]
        /\ sent'[c][Len(sent[c]) + 1] = m
    BY <1>1, <1>2, <1>3, WriteTypes, AppendProperties
  <1>5. /\ Len(posted'[c]) = Len(posted[c]) + 1
        /\ \A i \in 1 .. Len(posted[c]) : posted'[c][i] = posted[c][i]
        /\ posted'[c][Len(posted[c]) + 1] = m
    BY <1>1, <1>2, <1>3, WriteTypes, AppendProperties
  <1>6. Left(c)' = Left(c) /\ Left(c) \in Int
    BY <1>n, <1>3, <1>4, <1>5, SameLeft DEF Left, writeVars
  <1>7. FramesOf(c)'
    <2>1. \A i \in 1 .. Len(wire[c]) : (i + 1) \div 2 \in 1 .. Len(sent[c])
      BY <1>1, WriteTypes DEF WriteInv, FramesOf
    <2>2. QED
      BY <1>1, <1>3, <1>4, <2>1, WriteTypes DEF WriteInv, FramesOf, writeVars
  <1>8. QueueMatches(c)'
    <2>1. QueueMatches(c) /\ Left(c) = Len(sent[c]) - Len(writeQueue[c]) - Len(posted[c])
      BY <1>1, <1>3 DEF WriteInv, Left
    <2>2. /\ \A i \in 1 .. Len(writeQueue[c]) : Left(c) + i \in 1 .. Len(sent[c])
          /\ \A i \in 1 .. Len(posted[c]) : Left(c) + Len(writeQueue[c]) + i \in 1 .. Len(sent[c])
          /\ Left(c) + Len(writeQueue[c]) + (Len(posted[c]) + 1) = Len(sent[c]) + 1
      <3>1. Left(c) >= 0
        BY <2>1 DEF QueueMatches
      <3>2. QED
        BY <1>n, <1>6, <2>1, <3>1, Places, Zenon
    <2>4. ASSUME NEW i \in 1 .. Len(posted'[c])
          PROVE  posted'[c][i] = sent'[c][Left(c) + Len(writeQueue[c]) + i]
      <3>1. CASE i \in 1 .. Len(posted[c])
        BY <1>4, <1>5, <2>1, <2>2, <3>1 DEF QueueMatches
      <3>2. CASE i = Len(posted[c]) + 1
        <4>1. Left(c) + Len(writeQueue[c]) + i = Len(sent[c]) + 1
          BY <2>2, <3>2
        <4>2. QED
          BY <1>4, <1>5, <3>2, <4>1
      <3>3. QED
        BY <1>1, <1>5, <3>1, <3>2, WriteTypes
    <2>5. ASSUME NEW i \in 1 .. Len(writeQueue[c])
          PROVE  writeQueue[c][i] = sent'[c][Left(c) + i]
      BY <1>4, <2>1, <2>2 DEF QueueMatches
    <2>6. writeQueue' = writeQueue /\ Left(c)' >= 0
      BY <1>3, <1>6, <2>1 DEF QueueMatches, writeVars
    <2>7. QED
      BY <1>6, <2>4, <2>5, <2>6 DEF QueueMatches
  <1>9. WireMatches(c)'
    BY <1>1, <1>3, <1>6 DEF WriteInv, WireMatches, writeVars
  <1>10. QED
    BY <1>1, <1>3, <1>7, <1>8, <1>9 DEF WriteInv, OneWrite, writeVars

LEMMA EnqueueStep ==
    ASSUME IInv, NEW c \in ConnectionId, enqueue(c)
    PROVE  WriteInv(c)'
  <1> DEFINE m == Head(posted[c])
             queue == Append(writeQueue[c], m)
  <1>1. TypeOK /\ WriteInv(c)
    BY DEF IInv, WritesMatch
  <1>n. /\ Len(sent[c]) \in Nat /\ Len(posted[c]) \in Nat /\ Len(writeQueue[c]) \in Nat
        /\ Len(writing[c]) \in Nat /\ Len(wire[c]) \in Nat
    BY <1>1, WriteTypes
  <1>2. /\ posted[c] # <<>> /\ ~ (c >= nextConnection)
        /\ posted'[c] = Tail(posted[c]) /\ writeQueue'[c] = queue
        /\ UNCHANGED <<wire, sent, nextConnection, isRunning>>
    BY <1>1 DEF TypeOK, WriteInv, enqueue, acceptVars
  <1>3. /\ m = posted[c][1] /\ m \in Message
        /\ Len(posted'[c]) = Len(posted[c]) - 1 /\ Len(posted[c]) >= 1
        /\ \A i \in 1 .. Len(posted[c]) - 1 : posted'[c][i] = posted[c][i + 1]
    BY <1>1, <1>2, WriteTypes, HeadTailProperties
  <1> HIDE DEF m
  <1>4. /\ queue # <<>> /\ Len(queue) = Len(writeQueue[c]) + 1
        /\ \A i \in 1 .. Len(writeQueue[c]) : queue[i] = writeQueue[c][i]
        /\ queue[Len(writeQueue[c]) + 1] = m
    BY <1>1, <1>3, WriteTypes, AppendProperties
  <1> HIDE DEF queue
  <1>5. Left(c)' = Left(c) /\ Left(c) \in Int
    <2>1. /\ Left(c)' = Len(sent[c]) - (Len(writeQueue[c]) + 1) - (Len(posted[c]) - 1)
          /\ Left(c) = Len(sent[c]) - Len(writeQueue[c]) - Len(posted[c])
      BY <1>2, <1>3, <1>4 DEF Left
    <2>2. QED
      BY <1>n, <2>1, SameLeft
  <1>6. FramesOf(c)'
    BY <1>1, <1>2 DEF WriteInv, FramesOf
  <1>7. ASSUME isRunning[c]
        PROVE  QueueMatches(c)'
    <2>1. QueueMatches(c)
      BY <1>1, <1>7 DEF WriteInv
    <2>2. ASSUME NEW i \in 1 .. Len(queue)
          PROVE  queue[i] = sent[c][Left(c) + i]
      <3>1. CASE i \in 1 .. Len(writeQueue[c])
        BY <1>4, <2>1, <3>1 DEF QueueMatches
      <3>2. CASE i = Len(writeQueue[c]) + 1
        <4>1. posted[c][1] = sent[c][Left(c) + Len(writeQueue[c]) + 1]
          BY <1>1, <1>3, <2>1, WriteTypes DEF QueueMatches
        <4>2. Left(c) + i = Left(c) + Len(writeQueue[c]) + 1
          BY <1>n, <1>5, <3>2
        <4>3. QED
          BY <1>3, <1>4, <3>2, <4>1, <4>2
      <3>3. QED
        BY <1>1, <1>4, <3>1, <3>2, WriteTypes
    <2>3. ASSUME NEW i \in 1 .. Len(posted'[c])
          PROVE  posted'[c][i] = sent[c][Left(c) + Len(queue) + i]
      <3>1. i \in 1 .. Len(posted[c]) - 1 /\ i + 1 \in 1 .. Len(posted[c])
        BY <1>n, <1>3, <2>3
      <3>2. posted[c][i + 1] = sent[c][Left(c) + Len(writeQueue[c]) + (i + 1)]
        BY <2>1, <3>1 DEF QueueMatches
      <3>3. Left(c) + Len(writeQueue[c]) + (i + 1) = Left(c) + Len(queue) + i
        <4>1. \A left \in Int, queued \in Nat, k \in Nat :
                  left + queued + (k + 1) = left + (queued + 1) + k
          OBVIOUS
        <4>2. i \in Nat
          BY <3>1
        <4>3. Left(c) + Len(writeQueue[c]) + (i + 1) = Left(c) + (Len(writeQueue[c]) + 1) + i
          BY <1>n, <1>5, <4>1, <4>2, Zenon
        <4>4. QED
          BY <1>4, <4>3, Zenon
      <3>4. QED
        BY <1>3, <3>1, <3>2, <3>3
    <2>4. QED
      BY <1>2, <1>5, <2>1, <2>2, <2>3 DEF QueueMatches
  <1>8. CASE writeQueue[c] = <<>> /\ ~writeInProgress[c]
    <2>1. startWrite(c, queue, writing[c])
      BY <1>8 DEF enqueue, queue, m
    <2>2. writing[c] = <<>>
      BY <1>1, <1>8 DEF WriteInv, OneWrite
    <2>3. writing \in [ConnectionId -> Seq(Seq(Part))]
      BY <1>1 DEF TypeOK
    <2>4. CASE isRunning[c]
      <3>1. writing'[c] = <<PartsOf(Head(queue))>>
        BY <1>4, <2>1, <2>2, <2>3, <2>4 DEF startWrite, PartsOf
      <3>2. Len(wire[c]) = 2 * Left(c)
        BY <1>1, <2>2, <2>4 DEF WriteInv, WireMatches
      <3>3. OneWrite(c)' /\ WireMatches(c)'
        BY <1>2, <1>4, <1>5, <3>1, <3>2 DEF OneWrite, WireMatches
      <3>4. QED
        BY <1>2, <1>6, <1>7, <2>4, <3>3 DEF WriteInv
    <2>5. CASE ~isRunning[c]
      <3>1. writing'[c] = <<>>
        BY <2>1, <2>2, <2>3, <2>5 DEF startWrite
      <3>2. QED
        BY <1>2, <1>6, <2>5, <3>1 DEF WriteInv, OneWrite
    <2>6. QED
      BY <2>4, <2>5
  <1>9. CASE ~ (writeQueue[c] = <<>> /\ ~writeInProgress[c])
    <2>1. writing' = writing
      BY <1>9 DEF enqueue
    <2>2. OneWrite(c)'
      BY <1>1, <1>2, <1>4, <2>1 DEF WriteInv, OneWrite
    <2>3. ASSUME isRunning[c]
          PROVE  WireMatches(c)'
      <3>1. CASE writing[c] = <<>>
        BY <1>1, <1>2, <1>5, <2>1, <2>3, <3>1 DEF WriteInv, WireMatches
      <3>2. CASE writing[c] # <<>>
        <4>1. Head(queue) = Head(writeQueue[c])
          <5>1. writeQueue[c] # <<>>
            BY <1>1, <3>2 DEF WriteInv, OneWrite
          <5>2. QED
            BY <1>1, <1>3, <5>1, WriteTypes, HeadTailAppend DEF queue
        <4>2. QED
          BY <1>1, <1>2, <1>5, <2>1, <2>3, <4>1 DEF WriteInv, WireMatches
      <3>3. QED
        BY <3>1, <3>2
    <2>4. QED
      BY <1>2, <1>6, <1>7, <2>2, <2>3 DEF WriteInv
  <1>10. QED
    BY <1>8, <1>9

\* A part of the first message goes out: the header, then the payload.
LEMMA WritePartStep ==
    ASSUME IInv, NEW c \in ConnectionId, NEW i \in DOMAIN writing[c], writePart(c, i)
    PROVE  WriteInv(c)'
  <1> DEFINE m == Head(writeQueue[c])
             part == Head(writing[c][1])
  <1>1. TypeOK /\ WriteInv(c) /\ i = 1
    BY NoOther DEF IInv, WritesMatch
  <1>n. /\ Len(sent[c]) \in Nat /\ Len(posted[c]) \in Nat /\ Len(writeQueue[c]) \in Nat
        /\ Len(wire[c]) \in Nat
    BY <1>1, WriteTypes
  <1>2. /\ isRunning[c] /\ writing[c][1] # <<>>
        /\ wire'[c] = Append(wire[c], part)
        /\ writing'[c] = [writing[c] EXCEPT ![1] = Tail(writing[c][1])]
        /\ UNCHANGED <<isRunning, writeQueue, posted, sent, nextConnection>>
    BY <1>1 DEF TypeOK, writePart, acceptVars, sendVars
  <1>3. QueueMatches(c) /\ WireMatches(c) /\ OneWrite(c) /\ FramesOf(c)
    BY <1>1, <1>2 DEF WriteInv
  <1>4. Left(c)' = Left(c) /\ Left(c) \in Nat
    <2>1. Left(c)' = Left(c)
      BY <1>2 DEF Left
    <2>2. Left(c) \in Int
      BY <1>n DEF Left
    <2>3. Left(c) >= 0
      BY <1>3 DEF QueueMatches
    <2>4. \A k \in Int : k >= 0 => k \in Nat
      OBVIOUS
    <2>5. QED
      BY <2>1, <2>2, <2>3, <2>4, Zenon
  <1>5. \/ writing[c] = <<PartsOf(m)>> /\ Len(wire[c]) = 2 * Left(c)
        \/ writing[c] = <<<<<<"payload", m>>>>>> /\ Len(wire[c]) = 2 * Left(c) + 1
    <2>1. writing[c] # <<>>
      BY <1>1
    <2>2. writing[c] # <<<<>>>>
      BY <1>2
    <2>3. QED
      BY <1>3, <2>1, <2>2 DEF WireMatches
  <1>6. writeQueue[c] # <<>> /\ m = sent[c][Left(c) + 1] /\ Left(c) + 1 \in 1 .. Len(sent[c])
    <2>1. writeQueue[c] # <<>>
      BY <1>3, <1>5 DEF OneWrite
    <2>2. m = writeQueue[c][1] /\ Len(writeQueue[c]) >= 1
      BY <1>1, <2>1, WriteTypes, HeadTailProperties
    <2>3. 1 \in 1 .. Len(writeQueue[c])
      BY <1>n, <2>2
    <2>4. writeQueue[c][1] = sent[c][Left(c) + 1]
      BY <1>3, <2>3 DEF QueueMatches
    <2>5. \A total, queue, wait, left \in Nat :
              left = total - queue - wait /\ 1 \in 1 .. queue => left + 1 \in 1 .. total
      OBVIOUS
    <2>6. Left(c) + 1 \in 1 .. Len(sent[c])
      BY <1>n, <1>4, <2>3, <2>5 DEF Left
    <2>7. QED
      BY <2>1, <2>2, <2>4, <2>6
  <1> HIDE DEF m
  <1>7. \/ /\ writing'[c] = <<<<<<"payload", m>>>>>> /\ part = <<"header", m>>
           /\ Len(wire[c]) = 2 * Left(c)
        \/ /\ writing'[c] = <<<<>>>> /\ part = <<"payload", m>>
           /\ Len(wire[c]) = 2 * Left(c) + 1
    <2>1. CASE writing[c] = <<PartsOf(m)>> /\ Len(wire[c]) = 2 * Left(c)
      BY <1>2, <2>1 DEF PartsOf
    <2>2. CASE writing[c] = <<<<<<"payload", m>>>>>> /\ Len(wire[c]) = 2 * Left(c) + 1
      BY <1>2, <2>2
    <2>3. QED
      BY <1>5, <2>1, <2>2 DEF m
  <1>8. /\ Len(wire'[c]) = Len(wire[c]) + 1
        /\ \A j \in 1 .. Len(wire[c]) : wire'[c][j] = wire[c][j]
        /\ wire'[c][Len(wire[c]) + 1] = part
    <2>1. part \in Part
      BY <1>1, <1>2, WriteTypes, NoOther, ElementOfSeq, HeadTailProperties
    <2>2. QED
      BY <1>1, <1>2, <2>1, WriteTypes, AppendProperties
  <1> HIDE DEF part
  <1>9. FramesOf(c)'
    <2>1. ASSUME NEW j \in 1 .. Len(wire'[c])
          PROVE  /\ (j + 1) \div 2 <= Len(sent[c])
                 /\ wire'[c][j] = <<IF j % 2 = 1 THEN "header" ELSE "payload", sent[c][(j + 1) \div 2]>>
      <3>1. CASE j \in 1 .. Len(wire[c])
        BY <1>3, <1>8, <3>1 DEF FramesOf
      <3>2. CASE j = Len(wire[c]) + 1 /\ part = <<"header", m>> /\ Len(wire[c]) = 2 * Left(c)
        <4>1. (j + 1) \div 2 = Left(c) + 1 /\ j % 2 = 1
          BY <1>4, <3>2
        <4>2. QED
          BY <1>6, <1>8, <3>2, <4>1
      <3>3. CASE j = Len(wire[c]) + 1 /\ part = <<"payload", m>> /\ Len(wire[c]) = 2 * Left(c) + 1
        <4>1. (j + 1) \div 2 = Left(c) + 1 /\ j % 2 = 0
          BY <1>4, <3>3
        <4>2. QED
          BY <1>6, <1>8, <3>3, <4>1
      <3>4. j \in 1 .. Len(wire[c]) \/ j = Len(wire[c]) + 1
        BY <1>n, <1>8
      <3>5. QED
        BY <1>7, <3>1, <3>2, <3>3, <3>4
    <2>2. QED
      BY <1>2, <2>1 DEF FramesOf
  <1>10. QueueMatches(c)'
    BY <1>2, <1>3, <1>4 DEF QueueMatches
  <1>11. OneWrite(c)' /\ WireMatches(c)'
    <2>1. Len(writing'[c]) = 1
      <3>1. Len(<<<<<<"payload", m>>>>>>) = 1 /\ Len(<<<<>>>>) = 1
        OBVIOUS
      <3>2. QED
        BY <1>7, <3>1, Zenon
    <2>2. OneWrite(c)'
      <3>1. writeQueue'[c] # <<>> /\ 1 <= 1
        BY <1>2, <1>6
      <3>2. QED
        BY <2>1, <3>1, Zenon DEF OneWrite
    <2>3. m = Head(writeQueue'[c]) /\ Len(wire'[c]) = Len(wire[c]) + 1
      BY <1>2, <1>8 DEF m
    <2>4. QED
      BY <1>4, <1>7, <2>2, <2>3 DEF WireMatches
  <1>12. ~ (c >= nextConnection)
    BY <1>1, <1>6 DEF WriteInv
  <1>13. QED
    BY <1>2, <1>9, <1>10, <1>11, <1>12 DEF WriteInv

\* The first message leaves the queue and the write of the next one begins.
LEMMA WrittenStep ==
    ASSUME IInv, NEW c \in ConnectionId, NEW i \in DOMAIN writing[c], written(c, i)
    PROVE  WriteInv(c)'
  <1> DEFINE queue == Tail(writeQueue[c])
  <1>1. TypeOK /\ WriteInv(c) /\ i = 1 /\ Len(writing[c]) = 1 /\ Without(writing[c], i) = <<>>
    BY NoOther DEF IInv, WritesMatch
  <1>n. /\ Len(sent[c]) \in Nat /\ Len(posted[c]) \in Nat /\ Len(writeQueue[c]) \in Nat
        /\ Len(wire[c]) \in Nat
    BY <1>1, WriteTypes
  <1>2. /\ isRunning[c] /\ writing[c][1] = <<>>
        /\ writeQueue'[c] = queue
        /\ startWrite(c, queue, <<>>)
        /\ UNCHANGED <<isRunning, wire, posted, sent, nextConnection>>
    BY <1>1 DEF TypeOK, written, acceptVars, sendVars
  <1>3. QueueMatches(c) /\ WireMatches(c) /\ OneWrite(c) /\ FramesOf(c)
    BY <1>1, <1>2 DEF WriteInv
  <1>4. writeQueue[c] # <<>>
    <2>1. writing[c] # <<>>
      BY <1>1
    <2>2. QED
      BY <1>3, <2>1 DEF OneWrite
  <1>5. Len(wire[c]) = 2 * Left(c) + 2
    <2>1. writing[c] # <<>>
      BY <1>1
    <2>2. QED
      BY <1>2, <1>3, <2>1 DEF WireMatches, PartsOf
  <1>6. /\ Len(queue) = Len(writeQueue[c]) - 1 /\ Len(writeQueue[c]) >= 1
        /\ \A j \in 1 .. Len(queue) : queue[j] = writeQueue[c][j + 1]
        /\ Len(queue) \in Nat
    BY <1>1, <1>4, WriteTypes, HeadTailProperties
  <1> HIDE DEF queue
  <1>7. Left(c)' = Left(c) + 1 /\ Left(c) \in Nat
    <2>1. \A total \in Nat, first \in Nat, wait \in Nat :
              /\ total - (first - 1) - wait = (total - first - wait) + 1
              /\ total - first - wait \in Int
      OBVIOUS
    <2>2. /\ Left(c)' = Len(sent[c]) - (Len(writeQueue[c]) - 1) - Len(posted[c])
          /\ Left(c) = Len(sent[c]) - Len(writeQueue[c]) - Len(posted[c])
      BY <1>2, <1>6 DEF Left
    <2>3. Left(c)' = Left(c) + 1 /\ Left(c) \in Int
      <3>1. /\ Len(sent[c]) - (Len(writeQueue[c]) - 1) - Len(posted[c])
                   = (Len(sent[c]) - Len(writeQueue[c]) - Len(posted[c])) + 1
            /\ Len(sent[c]) - Len(writeQueue[c]) - Len(posted[c]) \in Int
        BY <1>n, <2>1, Zenon
      <3>2. QED
        BY <2>2, <3>1, Zenon
    <2>4. Left(c) >= 0
      BY <1>3 DEF QueueMatches
    <2>5. \A k \in Int : k >= 0 => k \in Nat
      OBVIOUS
    <2>6. QED
      BY <2>3, <2>4, <2>5, Zenon
  <1>8. FramesOf(c)'
    BY <1>2, <1>3 DEF FramesOf
  <1>9. QueueMatches(c)'
    <2>1. ASSUME NEW j \in 1 .. Len(queue)
          PROVE  queue[j] = sent[c][Left(c)' + j]
      <3>1. j + 1 \in 1 .. Len(writeQueue[c]) /\ j \in Nat
        BY <1>n, <1>6, <2>1
      <3>2. Left(c)' + j = Left(c) + (j + 1)
        BY <1>7, <3>1
      <3>3. QED
        BY <1>3, <1>6, <3>1, <3>2 DEF QueueMatches
    <2>2. ASSUME NEW j \in 1 .. Len(posted[c])
          PROVE  posted[c][j] = sent[c][Left(c)' + Len(queue) + j]
      <3>1. \A left \in Nat, first \in Nat, k \in Nat :
                (left + 1) + (first - 1) + k = left + first + k
        OBVIOUS
      <3>2. j \in Nat
        BY <2>2
      <3>3. Left(c)' + Len(queue) + j = Left(c) + Len(writeQueue[c]) + j
        <4>1. (Left(c) + 1) + (Len(writeQueue[c]) - 1) + j = Left(c) + Len(writeQueue[c]) + j
          BY <1>n, <1>7, <3>1, <3>2, Zenon
        <4>2. QED
          BY <1>6, <1>7, <4>1, Zenon
      <3>4. QED
        BY <1>3, <3>3 DEF QueueMatches
    <2>3. QED
      BY <1>2, <1>7, <2>1, <2>2 DEF QueueMatches
  <1>10. writing'[c] = IF queue # <<>> THEN <<PartsOf(Head(queue))>> ELSE <<>>
    <2>1. writing \in [ConnectionId -> Seq(Seq(Part))]
      BY <1>1 DEF TypeOK
    <2>2. startWrite(c, queue, <<>>)
      BY <1>2
    <2>3. CASE queue # <<>>
      <3>1. writing'[c] = Append(<<>>, PartsOf(Head(queue)))
        BY <1>2, <2>1, <2>2, <2>3 DEF startWrite, PartsOf
      <3>2. QED
        BY <2>3, <3>1
    <2>4. CASE queue = <<>>
      BY <1>2, <2>1, <2>2, <2>4 DEF startWrite
    <2>5. QED
      BY <2>3, <2>4
  <1>11. OneWrite(c)'
    BY <1>2, <1>10 DEF OneWrite
  <1>12. WireMatches(c)'
    <2>1. Len(wire'[c]) = 2 * Left(c)'
      BY <1>2, <1>5, <1>7
    <2>2. QED
      BY <1>2, <1>10, <2>1 DEF WireMatches
  <1>13. ~ (c >= nextConnection)
    BY <1>1, <1>4 DEF WriteInv
  <1>14. QED
    BY <1>2, <1>8, <1>9, <1>11, <1>12, <1>13 DEF WriteInv

\* The rest of the queue of a connection that fails no longer matters.
LEMMA WriteFailsStep ==
    ASSUME IInv, NEW c \in ConnectionId, NEW i \in DOMAIN writing[c], writeFails(c, i)
    PROVE  WriteInv(c)'
  <1>1. TypeOK /\ WriteInv(c) /\ Without(writing[c], i) = <<>> /\ Len(writing[c]) = 1
    BY NoOther DEF IInv, WritesMatch
  <1>2. /\ writing'[c] = <<>> /\ ~isRunning'[c]
        /\ UNCHANGED <<wire, sent, posted, writeQueue, nextConnection>>
    BY <1>1 DEF TypeOK, writeFails, doDisconnect, acceptVars, sendVars
  <1>3. OneWrite(c)' /\ FramesOf(c)'
    BY <1>1, <1>2 DEF WriteInv, OneWrite, FramesOf
  <1>4. QED
    BY <1>1, <1>2, <1>3 DEF WriteInv

\* Nothing was sent to a connection that is made.
LEMMA CreateStep ==
    ASSUME IInv, createConnection, NEW c \in ConnectionId
    PROVE  WriteInv(c)'
  <1>1. TypeOK /\ WriteInv(c)
    BY DEF IInv, WritesMatch
  <1>2. /\ UNCHANGED <<sent, posted, writeQueue, writing, wire>>
        /\ nextConnection' = nextConnection + 1
        /\ nextConnection \in Nat /\ c \in Nat
        /\ isRunning \in [ConnectionId -> BOOLEAN]
        /\ isRunning' = [isRunning EXCEPT ![nextConnection] = TRUE]
    BY <1>1 DEF TypeOK, createConnection, sendVars, writeVars, ConnectionId
  <1>3. c >= nextConnection' => c >= nextConnection
    BY <1>2
  <1>4. CASE c # nextConnection
    <2>1. isRunning'[c] => isRunning[c]
      BY <1>2, <1>4
    <2>2. QED
      BY <1>1, <1>2, <1>3, <2>1, SameWrites
  <1>5. CASE c = nextConnection
    <2>1. /\ sent[c] = <<>> /\ posted[c] = <<>> /\ writeQueue[c] = <<>>
          /\ writing[c] = <<>> /\ wire[c] = <<>>
      BY <1>1, <1>2, <1>5 DEF WriteInv
    <2>2. OneWrite(c)' /\ FramesOf(c)'
      BY <1>1, <1>2 DEF WriteInv, OneWrite, FramesOf
    <2>3. Left(c)' = 0
      <3>1. sent'[c] = <<>> /\ posted'[c] = <<>> /\ writeQueue'[c] = <<>>
        BY <1>2, <2>1
      <3>2. Len(sent'[c]) = 0 /\ Len(posted'[c]) = 0 /\ Len(writeQueue'[c]) = 0
        BY <3>1, EmptySeq
      <3>3. QED
        BY <3>2 DEF Left
    <2>4. QueueMatches(c)' /\ WireMatches(c)'
      BY <1>2, <2>1, <2>3 DEF QueueMatches, WireMatches
    <2>5. QED
      BY <1>2, <2>1, <2>2, <2>4 DEF WriteInv
  <1>6. QED
    BY <1>4, <1>5

\* The steps on one connection leave what was sent to the others.
LEMMA WritesStep ==
    ASSUME IInv, [Next]_vars
    PROVE  WritesMatch'
  <1> SUFFICES ASSUME NEW c \in ConnectionId
               PROVE  WriteInv(c)'
    BY DEF WritesMatch
  <1> USE DEF vars, serverVars, acceptVars, ioVars, clientVars, readVars, writeVars, sendVars
  <1>1. TypeOK /\ WriteInv(c)
    BY DEF IInv, WritesMatch
  <1>2. ASSUME UNCHANGED <<writeVars, sendVars, nextConnection>>, isRunning'[c] => isRunning[c]
        PROVE  WriteInv(c)'
    BY <1>1, <1>2, SameWrites
  <1>3. CASE UNCHANGED vars
    BY <1>2, <1>3
  <1>4. CASE start \/ stop \/ Stopping
    <2>1. isRunning'[c] => isRunning[c]
      BY <1>1, <1>4 DEF TypeOK, start, stop, Stopping, stopContext, swapConnections,
                        closeConnections, joinThread
    <2>2. UNCHANGED <<writeVars, sendVars, nextConnection>>
      BY <1>4 DEF start, stop, Stopping, stopContext, swapConnections, closeConnections, joinThread
    <2>3. QED
      BY <1>2, <2>1, <2>2
  <1>5. CASE Clients
    BY <1>2, <1>5 DEF Clients, clientLeaves, clientSends
  <1>6. CASE accept \/ connect \/ eraseConnection \/ onDisconnect \/ endThread
    BY <1>2, <1>6 DEF accept, connect, eraseConnection, onDisconnect, endThread
  <1>7. CASE createConnection
    BY <1>7, CreateStep
  <1>8. CASE Reads
    <2>1. \E d \in ConnectionId : readHeader(d) \/ readPayload(d) \/ readFails(d)
      BY <1>8 DEF Reads
    <2>2. isRunning'[c] => isRunning[c]
      BY <1>1, <2>1 DEF TypeOK, readHeader, readPayload, readFails, doDisconnect
    <2>3. UNCHANGED <<writeVars, sendVars, nextConnection>>
      BY <2>1 DEF readHeader, readPayload, readFails
    <2>4. QED
      BY <1>2, <2>2, <2>3
  <1>9. ASSUME NEW d \in ConnectionId, send(d)
        PROVE  WriteInv(c)'
    <2>1. CASE d = c
      BY <1>9, <2>1, SendStep
    <2>2. CASE d # c
      <3>1. /\ sent'[c] = sent[c] /\ posted'[c] = posted[c]
            /\ UNCHANGED <<writeVars, nextConnection, isRunning>>
        BY <1>1, <1>9, <2>2 DEF TypeOK, send
      <3>2. QED
        BY <1>1, <3>1, SameWrites
    <2>3. QED
      BY <2>1, <2>2
  <1>10. ASSUME NEW d \in ConnectionId, enqueue(d)
         PROVE  WriteInv(c)'
    <2>1. CASE d = c
      BY <1>10, <2>1, EnqueueStep
    <2>2. CASE d # c
      <3>1. /\ posted'[c] = posted[c] /\ writeQueue'[c] = writeQueue[c]
            /\ UNCHANGED <<wire, sent, nextConnection, isRunning>>
        BY <1>1, <1>10, <2>2 DEF TypeOK, enqueue
      <3>2. writing'[c] = writing[c]
        BY <1>1, <1>10, <2>2 DEF TypeOK, enqueue, startWrite
      <3>3. QED
        BY <1>1, <3>1, <3>2, SameWrites
    <2>3. QED
      BY <2>1, <2>2
  <1>11. ASSUME NEW d \in ConnectionId, NEW i \in DOMAIN writing[d], writePart(d, i)
         PROVE  WriteInv(c)'
    <2>1. CASE d = c
      BY <1>11, <2>1, WritePartStep
    <2>2. CASE d # c
      <3>1. /\ writing'[c] = writing[c] /\ wire'[c] = wire[c]
            /\ UNCHANGED <<sent, posted, writeQueue, nextConnection, isRunning>>
        BY <1>1, <1>11, <2>2 DEF TypeOK, writePart
      <3>2. QED
        BY <1>1, <3>1, SameWrites
    <2>3. QED
      BY <2>1, <2>2
  <1>12. ASSUME NEW d \in ConnectionId, NEW i \in DOMAIN writing[d], written(d, i)
         PROVE  WriteInv(c)'
    <2>1. CASE d = c
      BY <1>12, <2>1, WrittenStep
    <2>2. CASE d # c
      <3>1. /\ writing'[c] = writing[c] /\ writeQueue'[c] = writeQueue[c]
            /\ UNCHANGED <<wire, sent, posted, nextConnection, isRunning>>
        BY <1>1, <1>12, <2>2 DEF TypeOK, written, startWrite
      <3>2. QED
        BY <1>1, <3>1, SameWrites
    <2>3. QED
      BY <2>1, <2>2
  <1>13. ASSUME NEW d \in ConnectionId, NEW i \in DOMAIN writing[d], writeFails(d, i)
         PROVE  WriteInv(c)'
    <2>1. CASE d = c
      BY <1>13, <2>1, WriteFailsStep
    <2>2. CASE d # c
      <3>1. /\ writing'[c] = writing[c] /\ (isRunning'[c] => isRunning[c])
            /\ UNCHANGED <<wire, sent, posted, writeQueue, nextConnection>>
        BY <1>1, <1>13, <2>2 DEF TypeOK, writeFails, doDisconnect
      <3>2. QED
        BY <1>1, <3>1, SameWrites
    <2>3. QED
      BY <2>1, <2>2
  <1>14. QED
    BY <1>3, <1>4, <1>5, <1>6, <1>7, <1>8, <1>9, <1>10, <1>11, <1>12, <1>13
    DEF Next, Writes, FinishHandler, Terminated

-----------------------------------------------------------------------------
(* The invariant, and what follows.                                        *)

LEMMA InitEstablishesIInv == Init => IInv
  <1> SUFFICES ASSUME Init
               PROVE  IInv
    OBVIOUS
  <1>1. TypeOK
    <2>1. 1 \in 1 .. MaxConnections + 1 /\ 0 \in 0 .. MaxConnections
      BY TcpServerAssumption
    <2>2. \A S : <<>> \in Seq(S)
      BY EmptySeq
    <2> DEFINE Callback == Frame \cup {"onConnect", "onDisconnect"}
    <2>3. /\ stream \in [ConnectionId -> Seq(Frame)]
          /\ posted \in [ConnectionId -> Seq(Message)]
          /\ writeQueue \in [ConnectionId -> Seq(Message)]
          /\ writing \in [ConnectionId -> Seq(Seq(Part))]
          /\ wire \in [ConnectionId -> Seq(Part)]
          /\ sent \in [ConnectionId -> Seq(Message)]
          /\ heard \in [ConnectionId -> Seq(Callback)]
      <3> HIDE DEF Callback
      <3>1. QED
        BY <2>2 DEF Init
    <2>4. QED
      BY <2>1, <2>3 DEF Init, TypeOK
  <1>2. Phases /\ Announced /\ Ends /\ ReadsMatch
    BY DEF Init, Phases, Announced, Ends, ReadsMatch, ConnectionId
  <1>3. ASSUME NEW c \in ConnectionId
        PROVE  WriteInv(c)
    <2>1. /\ sent[c] = <<>> /\ posted[c] = <<>> /\ writeQueue[c] = <<>>
          /\ writing[c] = <<>> /\ wire[c] = <<>> /\ ~isRunning[c]
      BY DEF Init
    <2>2. OneWrite(c) /\ FramesOf(c)
      BY <2>1 DEF OneWrite, FramesOf
    <2>3. QED
      BY <2>1, <2>2 DEF WriteInv
  <1>4. QED
    BY <1>1, <1>2, <1>3 DEF IInv, WritesMatch

\* The invariant of the transport is kept by every step.
THEOREM Invariance == Spec => []IInv
  <1>1. ASSUME IInv, [Next]_vars
        PROVE  IInv'
    BY <1>1, TypeStep, PhasesStep, CallbackInvStep, WritesStep DEF IInv, CallbackInv
  <1>2. QED
    BY <1>1, InitEstablishesIInv, PTL DEF Spec

\* The state of the server and its connections keeps its types.
THEOREM TypeCorrect == Spec => []TypeOK
  <1>1. IInv => TypeOK
    BY DEF IInv
  <1>2. QED
    BY <1>1, Invariance, PTL

\* Whatever number of threads sends, and whenever a connection ends: the wire
\* of every connection carries whole frames, in the order of the calls.
THEOREM FramesAlwaysInOrder == Spec => []FramesInOrder
  <1>1. ASSUME IInv
        PROVE  FramesInOrder
    <2>1. ASSUME NEW c \in ConnectionId
          PROVE  FramesOf(c) /\ DOMAIN wire[c] = 1 .. Len(wire[c])
      BY <1>1, WriteTypes, LenProperties DEF IInv, WritesMatch, WriteInv
    <2>2. QED
      BY <2>1 DEF FramesInOrder, FramesOf
  <1>2. QED
    BY <1>1, Invariance, PTL

\* Every step of the transport is one the session server was promised.
LEMMA StepKeepsContract ==
    ASSUME IInv, [Next]_vars
    PROVE  [Above!Next]_(Above!vars)
  <1> USE DEF vars, serverVars, acceptVars, ioVars, clientVars, readVars, writeVars, sendVars,
              Above!vars
  <1>1. TypeOK /\ Phases /\ Announced /\ Ends /\ ReadsMatch
    BY DEF IInv
  <1>2. \A c \in ConnectionId : Len(heard[c]) \in Nat /\ Len(stream[c]) \in Nat
    BY <1>1, LenProperties DEF TypeOK
  <1>3. ASSUME NEW c \in ConnectionId, NEW callback, ioPc \notin {"none", "ended"},
               CallBack(c, callback), UNCHANGED <<ownerPc, stream>>
        PROVE  Above!Hear(c, callback)
    BY <1>1, <1>3 DEF Phases, CallBack, Above!Hear
  <1>4. CASE UNCHANGED vars
    BY <1>4
  <1>5. CASE start \/ stop \/ Stopping
    <2>1. UNCHANGED <<stream, heard>> /\ (ownerPc' = ownerPc \/ ownerPc # "done")
      BY <1>5 DEF start, stop, Stopping, stopContext, swapConnections, closeConnections, joinThread
    <2>2. CASE ownerPc' = "done" /\ ownerPc # "done"
      BY <2>1, <2>2 DEF Above!stop, Above!Next
    <2>3. CASE ~ (ownerPc' = "done" /\ ownerPc # "done")
      BY <2>1, <2>3
    <2>4. QED
      BY <2>2, <2>3
  <1>6. ASSUME NEW c \in ConnectionId, NEW frame \in Frame, clientSends(c, frame)
        PROVE  Above!Next
    BY <1>6 DEF clientSends, Above!clientSends, Above!Next
  <1>7. ASSUME UNCHANGED <<ownerPc, stream, heard>>
        PROVE  UNCHANGED Above!vars
    BY <1>7
  <1>8. ASSUME NEW c \in ConnectionId, clientLeaves(c) \/ send(c)
        PROVE  UNCHANGED Above!vars
    BY <1>7, <1>8 DEF clientLeaves, send
  <1>9. CASE accept \/ createConnection \/ eraseConnection \/ endThread
    BY <1>7, <1>9 DEF accept, createConnection, eraseConnection, endThread
  <1>10. CASE connect
    <2> PICK c \in ConnectionId : c = ioConnection
      BY <1>1, <1>10 DEF Announced, connect
    <2>1. /\ heard[c] = <<>> /\ c = nextConnection - 1
          /\ nextConnection \in Nat /\ ConnectionId \subseteq Nat
      BY <1>1, <1>10 DEF TypeOK, Announced, connect, ConnectionId
    <2>2. ASSUME NEW d \in ConnectionId, d < c
          PROVE  heard[d] # <<>>
      <3>1. ~ (d >= nextConnection) /\ d # ioConnection
        BY <2>1, <2>2
      <3>2. QED
        BY <1>1, <3>1 DEF Announced
    <2>3. Above!Hear(c, "onConnect")
      <3>1. CallBack(c, "onConnect") /\ UNCHANGED <<ownerPc, stream>> /\ ioPc = "connect"
        BY <1>10 DEF connect, CallBack
      <3>2. QED
        BY <1>3, <3>1
    <2>4. QED
      BY <2>1, <2>2, <2>3 DEF Above!onConnect, Above!Next
  <1>11. CASE onDisconnect
    <2> PICK c \in ConnectionId : c = ioConnection
      BY <1>1, <1>11 DEF Ends, onDisconnect
    <2>1. Above!IsOpen(c)
      BY <1>1, <1>11 DEF Ends, onDisconnect
    <2>2. CallBack(c, "onDisconnect") /\ UNCHANGED <<ownerPc, stream>> /\ ioPc = "callback"
      BY <1>11 DEF onDisconnect, CallBack
    <2>3. Above!Hear(c, "onDisconnect")
      BY <1>3, <2>2
    <2>4. QED
      BY <2>1, <2>3 DEF Above!onDisconnect, Above!Next
  <1>12. ASSUME NEW c \in ConnectionId, readHeader(c)
         PROVE  [Above!Next]_(Above!vars)
    <2>1. /\ ioPc = "handlers" /\ isRunning[c] /\ framesRead[c] < Len(stream[c])
          /\ Len(heard[c]) = framesRead[c] + 1 /\ framesRead[c] \in Nat
          /\ UNCHANGED <<ownerPc, stream>>
      BY <1>1, <1>12 DEF TypeOK, ReadsMatch, readHeader, Handler
    <2>2. CASE UNCHANGED heard
      BY <1>7, <2>1, <2>2
    <2>3. CASE stream[c][framesRead[c] + 1] = "empty" /\ CallBack(c, "empty")
      <3>1. Above!IsOpen(c)
        BY <2>1, RunningIsOpen
      <3>2. Len(heard[c]) <= Len(stream[c]) /\ stream[c][Len(heard[c])] = "empty"
        BY <1>2, <2>1, <2>3
      <3>3. Above!Hear(c, "empty")
        BY <1>3, <2>1, <2>3
      <3>4. QED
        BY <3>1, <3>2, <3>3 DEF Above!onMessage, Above!Next
    <2>4. QED
      BY <1>12, <2>2, <2>3 DEF readHeader, CallBack
  <1>13. ASSUME NEW c \in ConnectionId, readPayload(c)
         PROVE  Above!Next
    <2>1. /\ ioPc = "handlers" /\ isRunning[c] /\ framesRead[c] \in 1 .. Len(stream[c])
          /\ Len(heard[c]) = framesRead[c] /\ stream[c][framesRead[c]] = "text"
          /\ UNCHANGED <<ownerPc, stream>> /\ CallBack(c, "text")
      BY <1>1, <1>13 DEF ReadsMatch, readPayload, Handler
    <2>2. Above!IsOpen(c)
      BY <2>1, RunningIsOpen
    <2>3. Len(heard[c]) <= Len(stream[c]) /\ stream[c][Len(heard[c])] = "text"
      BY <1>2, <2>1
    <2>4. Above!Hear(c, "text")
      BY <1>3, <2>1
    <2>5. QED
      BY <2>2, <2>3, <2>4 DEF Above!onMessage, Above!Next
  <1>14. ASSUME NEW c \in ConnectionId, readFails(c) \/ enqueue(c)
         PROVE  UNCHANGED Above!vars
    BY <1>7, <1>14 DEF readFails, enqueue
  <1>15. ASSUME NEW c \in ConnectionId, NEW i \in DOMAIN writing[c],
                writePart(c, i) \/ written(c, i) \/ writeFails(c, i)
         PROVE  UNCHANGED Above!vars
    BY <1>7, <1>15 DEF writePart, written, writeFails
  <1>16. QED
    BY <1>4, <1>5, <1>6, <1>8, <1>9, <1>10, <1>11, <1>12, <1>13, <1>14, <1>15
    DEF Next, Clients, Reads, Writes, FinishHandler, Terminated

\* For any number of connections and frames, the callbacks of the transport
\* are those that the session server relies on: connections in order, messages
\* in order and once, one end and nothing after it, silence after stop.
THEOREM ContractIsKept == Spec => ImplementsCallbacks
  <1>1. Init => Above!Init
    BY DEF Init, Above!Init
  <1>2. QED
    BY <1>1, StepKeepsContract, Invariance, PTL DEF Spec, ImplementsCallbacks, Above!Spec
=============================================================================
