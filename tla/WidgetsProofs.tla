----------------------------- MODULE WidgetsProofs -----------------------------
(***************************************************************************)
(* For boards and pictures of any size, any number of calls, moves and     *)
(* messages: when all signals are handled the window shows the state, and  *)
(* the chat list has no gap.                                               *)
(*                                                                         *)
(* The widgets read the state when they come to a signal, not when it is   *)
(* sent.  So each part of the window shows what it should, or its event is *)
(* due: posted already, or still to be posted by the read thread, or by    *)
(* the call that the user interface thread is in.                          *)
(***************************************************************************)
EXTENDS Widgets, SequenceTheorems, TLAPS

Signal == {"AS_BoardChange", "AS_PlayerChange", "AS_StateChange", "AS_NewChat"}

\* The event is in the queue of the user interface thread.
Posted(event) == \E i \in 1 .. Len(events) : events[i] = event

\* A signal that the read thread still sends will post the event.
Owed(event) == \E i \in 1 .. Len(readSignals) : onAppEvent[readSignals[i]] = event

Due(event) == Posted(event) \/ Owed(event)

\* A call of connect will still signal everything, or nobody looks any more.
WillSignal == guiPc \in {"reset", "connect", "closed", "blocked"}

Types ==
    /\ position \in [status : {"Idle", "Ready", "Active", "Done"}, player : {"Black", "White"},
                     size : BoardSize, stones : Nat]
    /\ chatLength \in Nat /\ calls \in Nat /\ lastChatMessageId \in Nat
    /\ guiPc \in {"idle", "reset", "connect", "join", "host", "close", "shutdown", "closed",
                 "blocked", "draw"}
    /\ hostSize \in {0} \cup BoardSize
    /\ localServer \in BOOLEAN
    /\ readSignals \in Seq(Signal)
    /\ events \in Seq({"update", "player", "state", "chat"})
    /\ dirty \in BOOLEAN
    /\ size \in PixelSize
    /\ renderer = updateMetrics(renderer.nodes, size) /\ renderer.nodes \in BoardSize
    /\ chatList \in Seq(Nat \X Nat)

\* host keeps the size of the board until the server starts.
HostSizeKept == guiPc \in {"join", "host"} => hostSize \in BoardSize

\* The three events of EverythingChanged.
AllDue == Due("update") /\ Due("player") /\ Due("state")

BoardFollows ==
    \/ Due("update") \/ dirty \/ WillSignal
    \/ /\ renderer.nodes = position.size
       /\ \/ guiPc = "draw"
          \/ painted = [size |-> position.size, stones |-> position.stones,
                        nodes |-> position.size]

StatusFollows == statusLabel = position.status \/ Due("state") \/ WillSignal

PlayerFollows ==
    currPlayerLabel = position.player \/ position.status = "Done" \/ Due("player") \/ WillSignal

ChatFollows == lastChatMessageId >= chatLength \/ Due("chat")

\* The number of the last line is the number of lines, and no line is of a call
\* that is still to come.
ChatNumbered ==
    /\ Len(chatList) = lastChatMessageId
    /\ \A i \in 1 .. Len(chatList) : chatList[i][2] = i /\ chatList[i][1] <= calls
    /\ \A i \in 1 .. Len(chatList) : i > 1 => chatList[i - 1][1] <= chatList[i][1]

IInv ==
    /\ Types /\ HostSizeKept
    /\ BoardFollows /\ StatusFollows /\ PlayerFollows /\ ChatFollows /\ ChatNumbered

-----------------------------------------------------------------------------
(* Where a click goes.                                                     *)

\* The lines fit in the picture.
LEMMA LineDistance ==
    ASSUME NEW px \in Nat, NEW n \in Nat \ {0}, px >= n
    PROVE  px \div n \in Nat /\ px \div n >= 1 /\ n * (px \div n) <= px
  OBVIOUS

\* Lines are at least one distance apart.
LEMMA Apart ==
    ASSUME NEW s \in Nat, s >= 1, NEW k \in Nat, k >= 1
    PROVE  k * s >= s
  OBVIOUS

\* The pixel of a line is near no other line.
LEMMA OnlyLineNear ==
    ASSUME NEW s \in Nat, s >= 1, NEW h \in Int, NEW i \in Nat, NEW x \in Nat,
           10 * ((h + x * s) - (h + i * s)) <= 3 * s,
           10 * ((h + i * s) - (h + x * s)) <= 3 * s
    PROVE  i = x
  <1>1. CASE i < x
    <2>1. PICK k \in Nat : k = x - i /\ k >= 1
      BY <1>1
    <2>2. x * s = i * s + k * s
      BY <2>1
    <2>3. k * s >= s /\ k * s \in Nat /\ i * s \in Nat
      BY <2>1, Apart
    <2> QED
      BY <2>2, <2>3
  <1>2. CASE i > x
    <2>1. PICK k \in Nat : k = i - x /\ k >= 1
      BY <1>2
    <2>2. i * s = x * s + k * s
      BY <2>1
    <2>3. k * s >= s /\ k * s \in Nat /\ x * s \in Nat
      BY <2>1, Apart
    <2> QED
      BY <2>2, <2>3
  <1> QED
    BY <1>1, <1>2

\* The pixel of a line is on the picture.
LEMMA LineOnPicture ==
    ASSUME NEW s \in Nat, s >= 1, NEW n \in Nat, NEW px \in Nat, n * s <= px,
           NEW x \in 0 .. n - 1
    PROVE  s \div 2 + x * s \in 0 .. px - 1
  <1>1. s \div 2 \in Nat /\ s \div 2 < s
    OBVIOUS
  <1>2. PICK k \in Nat : n = x + 1 + k
    <2>1. n - x - 1 \in Nat /\ n = x + 1 + (n - x - 1)
      OBVIOUS
    <2> QED
      BY <2>1
  <1>3. n * s = x * s + s + k * s /\ k * s \in Nat /\ x * s \in Nat
    BY <1>2
  <1> QED
    BY <1>1, <1>3

\* A click on the point where two lines cross names that point.
LEMMA ClickFindsPoint ==
    ASSUME Types, NEW x \in 0 .. renderer.nodes - 1, NEW y \in 0 .. renderer.nodes - 1
    PROVE  handleClick(drawnAt(x), drawnAt(y)) = {<<x, y>>}
  <1>1. PICK n \in Nat \ {0} : n = renderer.nodes
    BY WidgetsAssumption DEF Types
  <1>2. size \in Nat /\ size >= n
    BY <1>1, WidgetsAssumption DEF Types
  <1>3. PICK s \in Nat : s = renderer.stoneSize /\ s >= 1 /\ n * s <= size
    <2>1. renderer.stoneSize = size \div n
      <3>1. updateMetrics(n, size).stoneSize = size \div n
        BY DEF updateMetrics
      <3> QED
        BY <1>1, <3>1 DEF Types
    <2> QED
      BY <1>2, <2>1, LineDistance
  <1>4. PICK h \in Int : h = s \div 2
    OBVIOUS
  <1>5. \A i : drawnAt(i) = h + i * s
    BY <1>3, <1>4 DEF drawnAt
  <1>6. ASSUME NEW z \in 0 .. n - 1
        PROVE  pixelToCoord(drawnAt(z)) = {z} /\ drawnAt(z) \in 0 .. size - 1
    <2>1. drawnAt(z) \in 0 .. size - 1
      BY <1>2, <1>3, <1>4, <1>5, LineOnPicture
    <2>2. ASSUME NEW i \in pixelToCoord(drawnAt(z))
          PROVE  i = z
      <3>1. /\ i \in 0 .. n - 1
            /\ 10 * (drawnAt(z) - drawnAt(i)) <= 3 * s
            /\ 10 * (drawnAt(i) - drawnAt(z)) <= 3 * s
        BY <1>1, <1>3 DEF pixelToCoord
      <3>2. i \in Nat /\ z \in Nat
        BY <3>1
      <3>3. /\ 10 * ((h + z * s) - (h + i * s)) <= 3 * s
            /\ 10 * ((h + i * s) - (h + z * s)) <= 3 * s
        BY <1>5, <3>1
      <3> QED
        BY <1>3, <3>2, <3>3, OnlyLineNear
    <2>3. z \in pixelToCoord(drawnAt(z))
      <3>1. drawnAt(z) - drawnAt(z) = 0
        BY <2>1
      <3> QED
        BY <1>1, <1>3, <3>1 DEF pixelToCoord
    <2> QED
      BY <2>1, <2>2, <2>3
  <1>7. {drawnAt(x), drawnAt(y)} \subseteq 0 .. size - 1
    BY <1>1, <1>6
  <1>8. handleClick(drawnAt(x), drawnAt(y)) = {x} \X {y}
    BY <1>1, <1>6, <1>7 DEF handleClick
  <1> QED
    BY <1>8

-----------------------------------------------------------------------------
(* What is due stays due until the event loop comes to it.                 *)

LEMMA AppendingKeeps ==
    ASSUME NEW e, Due(e), NEW t \in Seq({"update", "player", "state", "chat"}), Types,
           events' = events \o t, UNCHANGED readSignals
    PROVE  Due(e)'
  <1>1. CASE Posted(e)
    <2>1. PICK i \in 1 .. Len(events) : events[i] = e
      BY <1>1 DEF Posted
    <2>2. i \in 1 .. Len(events') /\ events'[i] = e
      BY <2>1 DEF Types
    <2> QED
      BY <2>2 DEF Due, Posted
  <1>2. CASE Owed(e)
    BY <1>2 DEF Due, Owed
  <1> QED
    BY <1>1, <1>2 DEF Due

LEMMA PostingKeeps ==
    ASSUME NEW e, Due(e), NEW f \in {"update", "player", "state", "chat"}, Types,
           events' = Append(events, f), UNCHANGED readSignals
    PROVE  Due(e)'
  <1>1. events' = events \o <<f>> /\ <<f>> \in Seq({"update", "player", "state", "chat"})
    BY AppendProperties, ConcatProperties DEF Types
  <1> QED
    BY <1>1, AppendingKeeps

LEMMA TakingKeeps ==
    ASSUME NEW e, Due(e), NEW f, f # e, Types, Event(f)
    PROVE  Due(e)'
  <1>1. CASE Posted(e)
    <2>1. PICK i \in 1 .. Len(events) : events[i] = e
      BY <1>1 DEF Posted
    <2>2. i # 1 /\ i - 1 \in 1 .. Len(events') /\ events'[i - 1] = e
      BY <2>1 DEF Types, Event
    <2> QED
      BY <2>2 DEF Due, Posted
  <1>2. CASE Owed(e)
    BY <1>2 DEF Due, Owed, Event
  <1> QED
    BY <1>1, <1>2 DEF Due

\* A signal of the read thread is one of those it owed.
LEMMA SignallingKeeps ==
    ASSUME NEW e, Due(e), Types, signalFromReadThread
    PROVE  Due(e)'
  <1>1. PICK f : f = onAppEvent[Head(readSignals)]
    OBVIOUS
  <1>2. events' = Append(events, f) /\ readSignals # <<>> /\ readSignals' = Tail(readSignals)
    BY <1>1 DEF signalFromReadThread, post
  <1>3. CASE Posted(e)
    <2>1. PICK i \in 1 .. Len(events) : events[i] = e
      BY <1>3 DEF Posted
    <2>2. i \in 1 .. Len(events') /\ events'[i] = e
      BY <1>2, <2>1 DEF Types
    <2> QED
      BY <2>2 DEF Due, Posted
  <1>4. CASE Owed(e)
    <2>1. PICK i \in 1 .. Len(readSignals) : onAppEvent[readSignals[i]] = e
      BY <1>4 DEF Owed
    <2>2. CASE i = 1
      <3>1. f = e
        BY <1>1, <2>1, <2>2 DEF Types
      <3>2. Len(events) + 1 \in 1 .. Len(events') /\ events'[Len(events) + 1] = f
        BY <1>2 DEF Types
      <3> QED
        BY <3>1, <3>2 DEF Due, Posted
    <2>3. CASE i # 1
      <3>1. i - 1 \in 1 .. Len(readSignals') /\ readSignals'[i - 1] = readSignals[i]
        BY <1>2, <2>1, <2>3 DEF Types
      <3> QED
        BY <2>1, <3>1 DEF Due, Owed
    <2> QED
      BY <2>2, <2>3
  <1> QED
    BY <1>3, <1>4 DEF Due

\* The read thread has sent all its signals before it takes a message.
LEMMA ReadingKeeps ==
    ASSUME NEW e, Due(e), readSignals = <<>>, UNCHANGED events
    PROVE  Due(e)'
  <1>1. ~Owed(e)
    BY DEF Owed
  <1> QED
    BY <1>1 DEF Due, Posted

LEMMA StillDue ==
    ASSUME NEW e, Due(e), UNCHANGED <<events, readSignals>>
    PROVE  Due(e)'
  BY DEF Due, Posted, Owed

\* Signals that change everything make everything due.
LEMMA EverythingSignalled ==
    ASSUME readSignals' = EverythingChanged
    PROVE  AllDue'
  <1>1. Len(EverythingChanged) = 3
    BY DEF EverythingChanged
  <1>2. /\ onAppEvent[EverythingChanged[1]] = "update"
        /\ onAppEvent[EverythingChanged[2]] = "player"
        /\ onAppEvent[EverythingChanged[3]] = "state"
    BY DEF EverythingChanged, onAppEvent
  <1>3. Owed("update")' /\ Owed("player")' /\ Owed("state")'
    BY <1>1, <1>2 DEF Owed
  <1> QED
    BY <1>3 DEF AllDue, Due

LEMMA EverythingPosted ==
    ASSUME Types, PostEverything
    PROVE  AllDue'
  <1> DEFINE n == Len(events)
  <1>1. n \in Nat /\ Len(events') = n + 3
    BY DEF Types, PostEverything
  <1>2. events'[n + 1] = "update" /\ events'[n + 2] = "player" /\ events'[n + 3] = "state"
    BY DEF Types, PostEverything
  <1>3. Posted("update")' /\ Posted("player")' /\ Posted("state")'
    <2>1. n + 1 \in 1 .. Len(events') /\ n + 2 \in 1 .. Len(events') /\ n + 3 \in 1 .. Len(events')
      BY <1>1
    <2> QED
      BY <1>2, <2>1 DEF Posted
  <1> QED
    BY <1>3 DEF AllDue, Due

LEMMA DueStays ==
    ASSUME NEW e, Due(e), Types, [Next]_vars
    PROVE  \/ Due(e)'
           \/ e = "update" /\ update
           \/ e = "player" /\ setCurrentPlayerText
           \/ e = "state" /\ setGameStateText
           \/ e = "chat" /\ appendChatMessages
  <1>1. CASE ReadThread \/ onDisconnected
    <2>1. readSignals = <<>> /\ UNCHANGED events
      BY <1>1 DEF ReadThread, onGameConfig, onGameUpdate, onChatMessage, Reads, onDisconnected
    <2> QED
      BY <2>1, ReadingKeeps
  <1>2. CASE signalFromReadThread
    BY <1>2, SignallingKeeps
  <1>3. CASE connectNetwork \/ disconnect
    <2>1. /\ events' = events \o <<"update", "player", "state">>
          /\ UNCHANGED readSignals
      BY <1>3 DEF connectNetwork, disconnect, PostEverything
    <2>2. <<"update", "player", "state">> \in Seq({"update", "player", "state", "chat"})
      OBVIOUS
    <2> QED
      BY <2>1, <2>2, AppendingKeeps
  <1>4. CASE \E px \in PixelSize : resizeEvent(px)
    <2>1. events' = Append(events, "update") /\ UNCHANGED readSignals
      BY <1>4 DEF resizeEvent
    <2> QED
      BY <2>1, PostingKeeps
  <1>5. CASE update
    <2>1. Event("update")
      BY <1>5 DEF update
    <2> QED
      BY <1>5, <2>1, TakingKeeps
  <1>6. CASE setCurrentPlayerText
    <2>1. Event("player")
      BY <1>6 DEF setCurrentPlayerText
    <2> QED
      BY <1>6, <2>1, TakingKeeps
  <1>7. CASE setGameStateText
    <2>1. Event("state")
      BY <1>7 DEF setGameStateText
    <2> QED
      BY <1>7, <2>1, TakingKeeps
  <1>8. CASE appendChatMessages
    <2>1. Event("chat")
      BY <1>8 DEF appendChatMessages
    <2> QED
      BY <1>8, <2>1, TakingKeeps
  <1>9. CASE \/ loseConnection \/ connect \/ closeEvent \/ startLocalServer \/ shutdown
             \/ stopLocalServer \/ stopHangs
             \/ (\E n \in BoardSize : host(n)) \/ renderBoard \/ draw \/ UNCHANGED vars
    <2>1. UNCHANGED <<events, readSignals>>
      BY <1>9 DEF loseConnection, connect, closeEvent, startLocalServer, shutdown, host,
                  stopLocalServer, stopHangs, renderBoard, draw, vars
    <2> QED
      BY <2>1, StillDue
  <1> QED
    BY <1>1, <1>2, <1>3, <1>4, <1>5, <1>6, <1>7, <1>8, <1>9
    DEF Next, InCall, EventLoop, Terminated

-----------------------------------------------------------------------------
(* The types.                                                              *)

LEMMA ResetType ==
    ASSUME NEW n \in BoardSize, NEW s \in {"Idle", "Ready", "Active", "Done"}
    PROVE  /\ reset(n) \in [status : {"Idle", "Ready", "Active", "Done"},
                            player : {"Black", "White"}, size : BoardSize, stones : Nat]
           /\ [reset(n) EXCEPT !.status = s] \in
                 [status : {"Idle", "Ready", "Active", "Done"}, player : {"Black", "White"},
                  size : BoardSize, stones : Nat]
  BY DEF reset

\* What getChatSince returns: the messages after n, in the order of their numbers.
LEMMA ChatSince ==
    ASSUME NEW n \in Nat, chatLength \in Nat, calls \in Nat
    PROVE  /\ getChatSince(n) \in Seq(Nat \X Nat)
           /\ Len(getChatSince(n)) = IF n >= chatLength THEN 0 ELSE chatLength - n
           /\ \A i \in 1 .. Len(getChatSince(n)) : getChatSince(n)[i] = <<calls, n + i>>
  <1>1. CASE n >= chatLength
    BY <1>1 DEF getChatSince
  <1>2. CASE ~(n >= chatLength)
    <2>1. PICK k \in Nat : k = chatLength - n
      BY <1>2
    <2>2. getChatSince(n) = [i \in 1 .. k |-> <<calls, n + i>>]
      BY <1>2, <2>1 DEF getChatSince
    <2>3. \A i \in 1 .. k : <<calls, n + i>> \in Nat \X Nat
      OBVIOUS
    <2>4. getChatSince(n) \in Seq(Nat \X Nat) /\ Len(getChatSince(n)) = k
      <3>1. [i \in 1 .. k |-> <<calls, n + i>>] \in [1 .. k -> Nat \X Nat]
        BY <2>3
      <3> QED
        BY <2>2, <3>1, SeqDef, LenProperties
    <2> QED
      BY <1>2, <2>1, <2>2, <2>4
  <1> QED
    BY <1>1, <1>2

LEMMA InitTypes ==
    ASSUME Init
    PROVE  Types /\ HostSizeKept
  <1>1. renderer.nodes = DefaultSize
    BY DEF Init, updateMetrics
  <1>2. DefaultSize \in BoardSize
    BY WidgetsAssumption
  <1>3. position \in [status : {"Idle", "Ready", "Active", "Done"}, player : {"Black", "White"},
                     size : BoardSize, stones : Nat]
    BY <1>2, ResetType DEF Init
  <1>4. readSignals \in Seq(Signal) /\ events \in Seq({"update", "player", "state", "chat"})
    BY DEF Init
  <1>5. size \in PixelSize /\ renderer = updateMetrics(renderer.nodes, size)
    BY <1>1 DEF Init
  <1>6. chatList \in Seq(Nat \X Nat)
    BY DEF Init
  <1> QED
    BY <1>1, <1>2, <1>3, <1>4, <1>5, <1>6 DEF Init, Types, HostSizeKept

LEMMA TypesStep ==
    ASSUME Types, HostSizeKept, [Next]_vars
    PROVE  Types' /\ HostSizeKept'
  <1> USE WidgetsAssumption
  <1>1. CASE \E n \in BoardSize : onGameConfig(n)
    <2>1. PICK n \in BoardSize : onGameConfig(n)
      BY <1>1
    <2>2. EverythingChanged \in Seq(Signal)
      BY DEF EverythingChanged, Signal
    <2> QED
      BY <2>1, <2>2, ResetType
      DEF onGameConfig, Reads, Types, HostSizeKept, callVars, widgetVars, boardVars, labelVars,
          chatVars
  <1>2. CASE \E action \in {"Place", "Pass", "Resign"}, done \in BOOLEAN :
                onGameUpdate(action, done)
    <2>1. PICK action \in {"Place", "Pass", "Resign"}, done \in BOOLEAN :
              onGameUpdate(action, done)
      BY <1>2
    <2>2. Signals(action, done) \in Seq(Signal)
      <3>1. /\ <<"AS_BoardChange", "AS_PlayerChange">> \in Seq(Signal)
            /\ <<"AS_PlayerChange">> \in Seq(Signal) /\ <<>> \in Seq(Signal)
            /\ <<"AS_StateChange">> \in Seq(Signal)
        BY DEF Signal
      <3> QED
        BY <3>1, ConcatProperties DEF Signals
    <2>3. position' \in [status : {"Idle", "Ready", "Active", "Done"},
                         player : {"Black", "White"}, size : BoardSize, stones : Nat]
      <3>1. PICK m \in Nat : m = position.stones
        BY DEF Types
      <3>2. PICK status \in {"Idle", "Ready", "Active", "Done"} :
                status = IF done THEN "Done" ELSE position.status
        BY DEF Types
      <3>3. PICK stones \in Nat : stones = IF action = "Place" THEN m + 1 ELSE m
        BY <3>1
      <3>4. opponent(position.player) \in {"Black", "White"}
        BY DEF opponent
      <3>5. position' = [position EXCEPT !.status = status,
                                         !.player = opponent(position.player),
                                         !.stones = stones]
        BY <2>1, <3>1, <3>2, <3>3 DEF onGameUpdate, Types
      <3> QED
        BY <3>4, <3>5 DEF Types
    <2> QED
      BY <2>1, <2>2, <2>3
      DEF onGameUpdate, Reads, Types, HostSizeKept, callVars, widgetVars, boardVars, labelVars,
          chatVars
  <1>3. CASE \E n \in 1 .. MaxChats : onChatMessage(n)
    <2>1. PICK n \in 1 .. MaxChats : onChatMessage(n)
      BY <1>3
    <2>2. <<"AS_NewChat">> \in Seq(Signal)
      BY DEF Signal
    <2> QED
      BY <2>1, <2>2
      DEF onChatMessage, Reads, Types, HostSizeKept, callVars, widgetVars, boardVars, labelVars,
          chatVars
  <1>4. CASE onDisconnected
    <2>1. EverythingChanged \in Seq(Signal)
      BY DEF EverythingChanged, Signal
    <2> QED
      BY <1>4, <2>1, ResetType
      DEF onDisconnected, Types, HostSizeKept, widgetVars, boardVars, labelVars, chatVars
  <1>5. CASE signalFromReadThread
    <2>1. onAppEvent[Head(readSignals)] \in {"update", "player", "state", "chat"}
      <3>1. Head(readSignals) \in Signal
        BY <1>5 DEF signalFromReadThread, Types
      <3> QED
        BY <3>1 DEF Signal, onAppEvent
    <2>2. events' \in Seq({"update", "player", "state", "chat"})
      BY <1>5, <2>1, AppendProperties DEF signalFromReadThread, post, Types
    <2>3. readSignals' \in Seq(Signal)
      BY <1>5 DEF signalFromReadThread, Types
    <2> QED
      BY <1>5, <2>2, <2>3
      DEF signalFromReadThread, Types, HostSizeKept, stateVars, callVars, widgetVars, boardVars,
          labelVars, chatVars
  <1>6. CASE \/ loseConnection \/ closeEvent \/ stopLocalServer \/ stopHangs
             \/ (\E n \in BoardSize : host(n)) \/ UNCHANGED vars
    <2>1. UNCHANGED <<position, chatLength, readSignals, events, widgetVars>>
      BY <1>6
      DEF loseConnection, closeEvent, stopLocalServer, stopHangs, host, vars, stateVars
    <2>2. localServer' = localServer \/ localServer' = FALSE
      BY <1>6, Zenon
      DEF loseConnection, closeEvent, stopLocalServer, stopHangs, host, vars, callVars
    <2>3. calls' = calls \/ calls' = calls + 1
      BY <1>6
      DEF loseConnection, closeEvent, stopLocalServer, stopHangs, host, vars, callVars
    <2>4. \/ UNCHANGED hostSize /\ guiPc' \in {guiPc, "connect", "shutdown", "close", "blocked"}
          \/ hostSize' \in BoardSize /\ guiPc' = "join"
      BY <1>6
      DEF loseConnection, closeEvent, stopLocalServer, stopHangs, host, GuiGoto, vars, callVars
    <2>5. localServer' \in BOOLEAN
      BY <2>2 DEF Types
    <2> QED
      BY <2>1, <2>3, <2>4, <2>5
      DEF Types, HostSizeKept, widgetVars, boardVars, labelVars, chatVars
  <1>7. CASE connect \/ startLocalServer \/ shutdown
    <2>1. position' \in [status : {"Idle", "Ready", "Active", "Done"},
                         player : {"Black", "White"}, size : BoardSize, stones : Nat]
      BY <1>7, ResetType
      DEF connect, startLocalServer, shutdown, GuiGoto, HostSizeKept
    <2>2. guiPc' \in {"reset", "connect", "closed"} /\ chatLength' = 0 /\ calls' \in Nat
      BY <1>7 DEF connect, startLocalServer, shutdown, GuiGoto, callVars, Types
    <2>3. hostSize' \in {0} \cup BoardSize /\ UNCHANGED <<readSignals, events, widgetVars>>
      BY <1>7 DEF connect, startLocalServer, shutdown, callVars, Types
    <2>4. localServer' \in BOOLEAN
      BY <1>7 DEF connect, startLocalServer, shutdown, callVars, Types
    <2> QED
      BY <2>1, <2>2, <2>3, <2>4
      DEF Types, HostSizeKept, widgetVars,
          boardVars, labelVars, chatVars
  <1>8. CASE connectNetwork \/ disconnect
    <2>1. events' \in Seq({"update", "player", "state", "chat"})
      <3>1. events' = events \o <<"update", "player", "state">>
        BY <1>8 DEF connectNetwork, disconnect, PostEverything
      <3>2. <<"update", "player", "state">> \in Seq({"update", "player", "state", "chat"})
        OBVIOUS
      <3> QED
        BY <3>1, <3>2, ConcatProperties DEF Types
    <2>2. position' \in [status : {"Idle", "Ready", "Active", "Done"},
                         player : {"Black", "White"}, size : BoardSize, stones : Nat]
      <3>1. position' = position \/ position' = reset(DefaultSize)
        BY <1>8 DEF connectNetwork, disconnect, stateVars
      <3>2. reset(DefaultSize) \in [status : {"Idle", "Ready", "Active", "Done"},
                                   player : {"Black", "White"}, size : BoardSize, stones : Nat]
        BY ResetType
      <3> QED
        BY <3>1, <3>2 DEF Types
    <2>3. chatLength' \in Nat /\ UNCHANGED <<calls, readSignals, widgetVars>>
      BY <1>8 DEF connectNetwork, disconnect, stateVars, Types
    <2>4. localServer' \in BOOLEAN
      <3>1. localServer' = localServer \/ localServer' = FALSE
        BY <1>8, Zenon DEF connectNetwork, disconnect
      <3> QED
        BY <3>1 DEF Types
    <2>5. UNCHANGED hostSize /\ guiPc' \in {"idle", "host"} /\ (guiPc' = "host" => guiPc = "join")
      BY <1>8 DEF connectNetwork, disconnect, GuiGoto
    <2> QED
      BY <2>1, <2>2, <2>3, <2>4, <2>5
      DEF Types, HostSizeKept, widgetVars, boardVars, labelVars, chatVars
  <1>9. CASE update \/ setCurrentPlayerText \/ setGameStateText
    <2>1. events' \in Seq({"update", "player", "state", "chat"})
      <3>1. events # <<>> /\ events' = Tail(events)
        BY <1>9 DEF update, setCurrentPlayerText, setGameStateText, Event
      <3> QED
        BY <3>1 DEF Types
    <2> QED
      BY <1>9, <2>1
      DEF update, setCurrentPlayerText, setGameStateText, Event, GuiGoto, Types, HostSizeKept,
          stateVars, callVars, boardVars, labelVars, chatVars
  <1>10. CASE appendChatMessages
    <2>1. events' \in Seq({"update", "player", "state", "chat"})
      BY <1>10 DEF appendChatMessages, Event, Types
    <2>2. PICK entries : /\ entries = getChatSince(lastChatMessageId)
                         /\ entries \in Seq(Nat \X Nat) /\ Len(entries) \in Nat
      <3>1. getChatSince(lastChatMessageId) \in Seq(Nat \X Nat)
        BY ChatSince DEF Types
      <3> QED
        BY <3>1
    <2>3. chatList' = chatList \o entries /\ lastChatMessageId' = lastChatMessageId + Len(entries)
      BY <1>10, <2>2 DEF appendChatMessages
    <2>4. chatList' \in Seq(Nat \X Nat) /\ lastChatMessageId' \in Nat
      BY <2>2, <2>3, ConcatProperties DEF Types
    <2> QED
      BY <1>10, <2>1, <2>4
      DEF appendChatMessages, Event, GuiGoto, Types, HostSizeKept, stateVars, callVars, boardVars,
          labelVars
  <1>11. CASE renderBoard
    <2>1. /\ renderer'.nodes \in BoardSize
          /\ renderer' = updateMetrics(renderer'.nodes, size)
      <3>1. position.size \in BoardSize
        BY DEF Types
      <3>2. updateMetrics(position.size, size).nodes = position.size
        BY DEF updateMetrics
      <3> QED
        BY <1>11, <3>1, <3>2 DEF renderBoard, Types
    <2> QED
      BY <1>11, <2>1
      DEF renderBoard, GuiGoto, Types, HostSizeKept, stateVars, callVars, labelVars, chatVars
  <1>12. CASE draw
    BY <1>12
    DEF draw, GuiGoto, Types, HostSizeKept, stateVars, callVars, labelVars, chatVars
  <1>13. CASE \E px \in PixelSize : resizeEvent(px)
    <2>1. PICK px \in PixelSize : resizeEvent(px)
      BY <1>13
    <2>2. events' \in Seq({"update", "player", "state", "chat"})
      BY <2>1, AppendProperties DEF resizeEvent, Types
    <2>3. renderer'.nodes = renderer.nodes /\ renderer' = updateMetrics(renderer'.nodes, px)
      BY <2>1 DEF resizeEvent, updateMetrics
    <2> QED
      BY <2>1, <2>2, <2>3
      DEF resizeEvent, GuiGoto, Types, HostSizeKept, stateVars, callVars, labelVars, chatVars
  <1> QED
    BY <1>1, <1>2, <1>3, <1>4, <1>5, <1>6, <1>7, <1>8, <1>9, <1>10, <1>11, <1>12, <1>13
    DEF Next, ReadThread, InCall, EventLoop, Terminated

-----------------------------------------------------------------------------
(* Who changes what.                                                       *)

\* A call of connect signals everything when it is done.
LEMMA CallStillSignals ==
    ASSUME Types, [Next]_vars, WillSignal
    PROVE  WillSignal' \/ AllDue'
  <1>1. CASE connectNetwork
    BY <1>1, EverythingPosted DEF connectNetwork
  <1>2. CASE guiPc' \in {guiPc, "reset", "connect", "closed", "blocked"}
    BY <1>2 DEF WillSignal
  <1>3. connectNetwork \/ guiPc' \in {guiPc, "reset", "connect", "closed", "blocked"}
    BY DEF WillSignal, Next, ReadThread, onGameConfig, onGameUpdate, onChatMessage, Reads,
           loseConnection, onDisconnected, signalFromReadThread, connect, closeEvent, InCall,
           disconnect, startLocalServer, stopLocalServer, stopHangs, shutdown, host, EventLoop,
           update, Event,
           setCurrentPlayerText, setGameStateText, appendChatMessages, renderBoard, draw,
           resizeEvent, Terminated, GuiGoto, vars, callVars
  <1> QED
    BY <1>1, <1>2, <1>3

\* The game changes move by move, or everything is signalled.
LEMMA StateChanges ==
    ASSUME Types, [Next]_vars
    PROVE  \/ UNCHANGED position
           \/ WillSignal' \/ AllDue'
           \/ \E action \in {"Place", "Pass", "Resign"}, done \in BOOLEAN :
                  onGameUpdate(action, done)
  <1>1. CASE onDisconnected \/ \E n \in BoardSize : onGameConfig(n)
    <2>1. readSignals' = EverythingChanged
      BY <1>1 DEF onDisconnected, onGameConfig
    <2> QED
      BY <2>1, EverythingSignalled
  <1>2. CASE disconnect
    BY <1>2, EverythingPosted DEF disconnect
  <1>3. CASE connect \/ startLocalServer \/ shutdown
    BY <1>3 DEF connect, startLocalServer, shutdown, GuiGoto, WillSignal
  <1>4. CASE \/ loseConnection \/ signalFromReadThread \/ closeEvent \/ connectNetwork
             \/ stopLocalServer \/ stopHangs
             \/ (\E n \in BoardSize : host(n)) \/ (\E n \in 1 .. MaxChats : onChatMessage(n))
             \/ EventLoop \/ (\E px \in PixelSize : resizeEvent(px)) \/ UNCHANGED vars
    BY <1>4
    DEF loseConnection, signalFromReadThread, closeEvent, connectNetwork, stopLocalServer,
        stopHangs, host, onChatMessage,
        EventLoop, update, Event, setCurrentPlayerText, setGameStateText, appendChatMessages,
        renderBoard, draw, resizeEvent, vars, stateVars
  <1> QED
    BY <1>1, <1>2, <1>3, <1>4 DEF Next, ReadThread, InCall, Terminated

\* The labels change when the event loop comes to their event.
LEMMA LabelsChange ==
    ASSUME [Next]_vars
    PROVE  /\ setGameStateText \/ UNCHANGED statusLabel
           /\ setCurrentPlayerText \/ UNCHANGED currPlayerLabel
  BY DEF Next, ReadThread, onGameConfig, onGameUpdate, onChatMessage, Reads, loseConnection,
         onDisconnected, signalFromReadThread, connect, closeEvent, InCall, connectNetwork,
         disconnect, startLocalServer, stopLocalServer, stopHangs, shutdown, host, EventLoop, update,
         setCurrentPlayerText, setGameStateText, appendChatMessages, renderBoard, draw,
         resizeEvent, Terminated, vars, widgetVars, labelVars

-----------------------------------------------------------------------------
(* What a move signals.                                                    *)

LEMMA MoveSignals ==
    ASSUME NEW action \in {"Place", "Pass", "Resign"}, NEW done \in BOOLEAN,
           onGameUpdate(action, done)
    PROVE  /\ action = "Place" => Due("update")'
           /\ action # "Resign" => Due("player")'
           /\ done => Due("state")'
  <1>1. readSignals' = Signals(action, done)
    BY DEF onGameUpdate
  <1>2. /\ onAppEvent["AS_BoardChange"] = "update"
        /\ onAppEvent["AS_PlayerChange"] = "player"
        /\ onAppEvent["AS_StateChange"] = "state"
    BY DEF onAppEvent
  <1>3. action = "Place" => ~done
    BY DEF onGameUpdate
  <1>4. CASE action = "Place"
    <2>1. readSignals' = <<"AS_BoardChange", "AS_PlayerChange">> \o <<>>
      BY <1>1, <1>3, <1>4 DEF Signals
    <2>2. /\ Len(readSignals') = 2
          /\ readSignals'[1] = "AS_BoardChange" /\ readSignals'[2] = "AS_PlayerChange"
      BY <2>1
    <2> QED
      BY <1>2, <1>3, <1>4, <2>2 DEF Due, Owed
  <1>5. CASE action = "Pass"
    <2>1. CASE done
      <3>1. readSignals' = <<"AS_PlayerChange">> \o <<"AS_StateChange">>
        BY <1>1, <1>5, <2>1 DEF Signals
      <3>2. /\ Len(readSignals') = 2
            /\ readSignals'[1] = "AS_PlayerChange" /\ readSignals'[2] = "AS_StateChange"
        BY <3>1
      <3> QED
        BY <1>2, <1>5, <3>2 DEF Due, Owed
    <2>2. CASE ~done
      <3>1. readSignals' = <<"AS_PlayerChange">> \o <<>>
        BY <1>1, <1>5, <2>2 DEF Signals
      <3>2. Len(readSignals') = 1 /\ readSignals'[1] = "AS_PlayerChange"
        BY <3>1
      <3> QED
        BY <1>2, <1>5, <2>2, <3>2 DEF Due, Owed
    <2> QED
      BY <2>1, <2>2
  <1>6. CASE action = "Resign"
    <2>1. done
      BY <1>6 DEF onGameUpdate
    <2>2. readSignals' = <<>> \o <<"AS_StateChange">>
      BY <1>1, <1>6, <2>1 DEF Signals
    <2>3. Len(readSignals') = 1 /\ readSignals'[1] = "AS_StateChange"
      BY <2>2
    <2> QED
      BY <1>2, <1>6, <2>3 DEF Due, Owed
  <1> QED
    BY <1>4, <1>5, <1>6

-----------------------------------------------------------------------------
(* Each part of the window.                                                *)

LEMMA StatusStep ==
    ASSUME Types, StatusFollows, [Next]_vars
    PROVE  StatusFollows'
  <1>1. CASE WillSignal' \/ AllDue'
    BY <1>1 DEF StatusFollows, AllDue
  <1>2. CASE setGameStateText
    BY <1>2 DEF setGameStateText, Event, stateVars, StatusFollows
  <1>3. CASE ~(WillSignal' \/ AllDue') /\ ~setGameStateText
    <2>1. UNCHANGED statusLabel /\ ~WillSignal
      BY <1>3, LabelsChange, CallStillSignals
    <2>2. CASE Due("state")
      <3>1. Due("state")'
        BY <1>3, <2>2, DueStays
      <3> QED
        BY <3>1 DEF StatusFollows
    <2>3. CASE statusLabel = position.status
      <3>1. CASE UNCHANGED position
        BY <2>1, <2>3, <3>1 DEF StatusFollows
      <3>2. CASE \E action \in {"Place", "Pass", "Resign"}, done \in BOOLEAN :
                    onGameUpdate(action, done)
        <4>1. PICK action \in {"Place", "Pass", "Resign"}, done \in BOOLEAN :
                  onGameUpdate(action, done)
          BY <3>2
        <4>2. CASE done
          <5>1. Due("state")'
            BY <4>1, <4>2, MoveSignals
          <5> QED
            BY <5>1 DEF StatusFollows
        <4>3. CASE ~done
          BY <2>1, <2>3, <4>1, <4>3 DEF onGameUpdate, StatusFollows, Types
        <4> QED
          BY <4>2, <4>3
      <3> QED
        BY <1>3, <3>1, <3>2, StateChanges
    <2> QED
      BY <2>1, <2>2, <2>3 DEF StatusFollows
  <1> QED
    BY <1>1, <1>2, <1>3

LEMMA PlayerStep ==
    ASSUME Types, PlayerFollows, [Next]_vars
    PROVE  PlayerFollows'
  <1>1. CASE WillSignal' \/ AllDue'
    BY <1>1 DEF PlayerFollows, AllDue
  <1>2. CASE setCurrentPlayerText
    BY <1>2 DEF setCurrentPlayerText, Event, stateVars, PlayerFollows
  <1>3. CASE ~(WillSignal' \/ AllDue') /\ ~setCurrentPlayerText
    <2>1. UNCHANGED currPlayerLabel /\ ~WillSignal
      BY <1>3, LabelsChange, CallStillSignals
    <2>2. CASE Due("player")
      <3>1. Due("player")'
        BY <1>3, <2>2, DueStays
      <3> QED
        BY <3>1 DEF PlayerFollows
    <2>3. CASE currPlayerLabel = position.player \/ position.status = "Done"
      <3>1. CASE UNCHANGED position
        BY <2>1, <2>3, <3>1 DEF PlayerFollows
      <3>2. CASE \E action \in {"Place", "Pass", "Resign"}, done \in BOOLEAN :
                    onGameUpdate(action, done)
        <4>1. PICK action \in {"Place", "Pass", "Resign"}, done \in BOOLEAN :
                  onGameUpdate(action, done)
          BY <3>2
        <4>2. CASE action # "Resign"
          <5>1. Due("player")'
            BY <4>1, <4>2, MoveSignals
          <5> QED
            BY <5>1 DEF PlayerFollows
        <4>3. CASE action = "Resign"
          <5>1. position'.status = "Done"
            BY <4>1, <4>3 DEF onGameUpdate, Types
          <5> QED
            BY <5>1 DEF PlayerFollows
        <4> QED
          BY <4>2, <4>3
      <3> QED
        BY <1>3, <3>1, <3>2, StateChanges
    <2> QED
      BY <2>1, <2>2, <2>3 DEF PlayerFollows
  <1> QED
    BY <1>1, <1>2, <1>3

\* Only the board widget touches what it draws with, and nothing else happens on
\* its thread between the two halves of its painting.
LEMMA BoardChanges ==
    ASSUME [Next]_vars
    PROVE  \/ update \/ renderBoard \/ draw \/ (\E px \in PixelSize : resizeEvent(px))
           \/ UNCHANGED boardVars /\ (guiPc = "draw" => guiPc' = "draw")
  BY DEF Next, ReadThread, onGameConfig, onGameUpdate, onChatMessage, Reads, loseConnection,
         onDisconnected, signalFromReadThread, connect, closeEvent, InCall, connectNetwork,
         disconnect, startLocalServer, stopLocalServer, stopHangs, shutdown, host, EventLoop, Event,
         setCurrentPlayerText, setGameStateText, appendChatMessages, Terminated, GuiGoto,
         vars, callVars, widgetVars

LEMMA BoardStep ==
    ASSUME Types, BoardFollows, [Next]_vars
    PROVE  BoardFollows'
  <1>1. CASE WillSignal' \/ AllDue'
    BY <1>1 DEF BoardFollows, AllDue
  <1>2. CASE update
    BY <1>2 DEF update, BoardFollows
  <1>3. CASE renderBoard
    <2>1. guiPc' = "draw" /\ position' = position
      BY <1>3 DEF renderBoard, GuiGoto, stateVars
    <2>2. renderer'.nodes = position.size
      BY <1>3 DEF renderBoard, updateMetrics
    <2> QED
      BY <2>1, <2>2 DEF BoardFollows
  <1>4. CASE \E px \in PixelSize : resizeEvent(px)
    <2>1. PICK px \in PixelSize : resizeEvent(px)
      BY <1>4
    <2>2. events' = Append(events, "update")
      BY <2>1 DEF resizeEvent
    <2>3. Len(events) + 1 \in 1 .. Len(events') /\ events'[Len(events) + 1] = "update"
      BY <2>2 DEF Types
    <2>4. Due("update")'
      BY <2>3 DEF Due, Posted
    <2> QED
      BY <2>4 DEF BoardFollows
  <1>5. CASE draw /\ ~(WillSignal' \/ AllDue')
    <2>1. ~WillSignal /\ UNCHANGED <<events, readSignals, dirty, position, renderer>>
      BY <1>5, CallStillSignals DEF draw, stateVars
    <2>2. CASE Due("update")
      <3>1. Due("update")'
        BY <2>1, <2>2, StillDue
      <3> QED
        BY <3>1 DEF BoardFollows
    <2>3. CASE dirty
      BY <2>1, <2>3 DEF BoardFollows
    <2>4. CASE renderer.nodes = position.size
      <3>1. painted' = [size |-> position'.size, stones |-> position'.stones,
                        nodes |-> position'.size]
        BY <1>5, <2>1, <2>4 DEF draw
      <3> QED
        BY <2>1, <2>4, <3>1 DEF BoardFollows
    <2> QED
      BY <2>1, <2>2, <2>3, <2>4 DEF BoardFollows
  <1>6. CASE /\ UNCHANGED boardVars /\ (guiPc = "draw" => guiPc' = "draw")
             /\ ~(WillSignal' \/ AllDue') /\ ~update
    <2>1. ~WillSignal /\ UNCHANGED <<dirty, renderer, painted>>
      BY <1>6, CallStillSignals DEF boardVars
    <2>2. CASE Due("update")
      <3>1. Due("update")'
        BY <1>6, <2>2, DueStays
      <3> QED
        BY <3>1 DEF BoardFollows
    <2>3. CASE dirty
      BY <2>1, <2>3 DEF BoardFollows
    <2>4. CASE /\ renderer.nodes = position.size
               /\ \/ guiPc = "draw"
                  \/ painted = [size |-> position.size, stones |-> position.stones,
                                nodes |-> position.size]
      <3>1. CASE UNCHANGED position
        BY <1>6, <2>1, <2>4, <3>1 DEF BoardFollows
      <3>2. CASE \E action \in {"Place", "Pass", "Resign"}, done \in BOOLEAN :
                    onGameUpdate(action, done)
        <4>1. PICK action \in {"Place", "Pass", "Resign"}, done \in BOOLEAN :
                  onGameUpdate(action, done)
          BY <3>2
        <4>2. CASE action = "Place"
          <5>1. Due("update")'
            BY <4>1, <4>2, MoveSignals
          <5> QED
            BY <5>1 DEF BoardFollows
        <4>3. CASE action # "Place"
          <5>1. position'.size = position.size /\ position'.stones = position.stones
            BY <4>1, <4>3 DEF onGameUpdate, Types
          <5> QED
            BY <1>6, <2>1, <2>4, <5>1 DEF BoardFollows
        <4> QED
          BY <4>2, <4>3
      <3> QED
        BY <1>6, <3>1, <3>2, StateChanges
    <2> QED
      BY <2>1, <2>2, <2>3, <2>4 DEF BoardFollows
  <1> QED
    BY <1>1, <1>2, <1>3, <1>4, <1>5, <1>6, BoardChanges

-----------------------------------------------------------------------------
(* The chat.                                                               *)

LEMMA ChatChanges ==
    ASSUME Types, [Next]_vars
    PROVE  /\ appendChatMessages \/ UNCHANGED chatVars
           /\ UNCHANGED chatLength \/ chatLength' = 0 \/ Due("chat")'
           /\ calls' = calls \/ calls' = calls + 1
  <1>1. CASE \E n \in 1 .. MaxChats : onChatMessage(n)
    <2>1. PICK n \in 1 .. MaxChats : onChatMessage(n)
      BY <1>1
    <2>2. Len(readSignals') = 1 /\ readSignals'[1] = "AS_NewChat"
      BY <2>1 DEF onChatMessage
    <2>3. Due("chat")'
      BY <2>2 DEF Due, Owed, onAppEvent
    <2> QED
      BY <2>1, <2>3 DEF onChatMessage, Reads, callVars, widgetVars
  <1>2. CASE appendChatMessages
    BY <1>2 DEF appendChatMessages, Event, stateVars, callVars
  <1>3. CASE ~appendChatMessages /\ ~ \E n \in 1 .. MaxChats : onChatMessage(n)
    BY <1>3
    DEF Next, ReadThread, onGameConfig, onGameUpdate, Reads, loseConnection,
        onDisconnected, signalFromReadThread, connect, closeEvent, InCall, connectNetwork,
        disconnect, startLocalServer, stopLocalServer, stopHangs, shutdown, host, EventLoop, update,
        Event, setCurrentPlayerText, setGameStateText, renderBoard, draw, resizeEvent, Terminated,
        vars, stateVars, callVars, widgetVars
  <1> QED
    BY <1>1, <1>2, <1>3

LEMMA ChatFollowsStep ==
    ASSUME Types, ChatFollows, [Next]_vars, Types'
    PROVE  ChatFollows'
  <1>1. CASE appendChatMessages
    <2>1. UNCHANGED chatLength
      BY <1>1 DEF appendChatMessages, Event, stateVars
    <2>2. lastChatMessageId' = lastChatMessageId + Len(getChatSince(lastChatMessageId))
      BY <1>1 DEF appendChatMessages
    <2>3. PICK k \in Nat : /\ k = Len(getChatSince(lastChatMessageId))
                           /\ k = IF lastChatMessageId >= chatLength THEN 0
                                  ELSE chatLength - lastChatMessageId
      <3>1. Len(getChatSince(lastChatMessageId)) =
                IF lastChatMessageId >= chatLength THEN 0 ELSE chatLength - lastChatMessageId
        BY ChatSince DEF Types
      <3>2. chatLength \in Nat /\ lastChatMessageId \in Nat
        BY DEF Types
      <3>3. CASE lastChatMessageId >= chatLength
        BY <3>1, <3>3
      <3>4. CASE ~(lastChatMessageId >= chatLength)
        <4>1. chatLength - lastChatMessageId \in Nat
          BY <3>2, <3>4
        <4> QED
          BY <3>1, <3>4, <4>1
      <3> QED
        BY <3>3, <3>4
    <2> QED
      BY <2>1, <2>2, <2>3 DEF ChatFollows, Types
  <1>2. CASE ~appendChatMessages
    <2>1. UNCHANGED lastChatMessageId
      BY <1>2, ChatChanges DEF chatVars
    <2>2. CASE Due("chat")
      <3>1. Due("chat")'
        BY <1>2, <2>2, DueStays
      <3> QED
        BY <3>1 DEF ChatFollows
    <2>3. CASE lastChatMessageId >= chatLength
      BY <2>1, <2>3, ChatChanges DEF ChatFollows, Types
    <2> QED
      BY <2>2, <2>3 DEF ChatFollows
  <1> QED
    BY <1>1, <1>2

\* The new lines go on where the list ends, and are of the call that is the last.
LEMMA ChatNumberedStep ==
    ASSUME Types, ChatNumbered, [Next]_vars
    PROVE  ChatNumbered'
  <1>1. CASE appendChatMessages
    <2>1. PICK n \in Nat : n = lastChatMessageId /\ n = Len(chatList)
      BY DEF Types, ChatNumbered
    <2>2. PICK entries \in Seq(Nat \X Nat) :
              /\ entries = getChatSince(n)
              /\ \A i \in 1 .. Len(entries) : entries[i] = <<calls, n + i>>
      <3>1. chatLength \in Nat /\ calls \in Nat
        BY DEF Types
      <3> QED
        BY <3>1, ChatSince
    <2>3. PICK k \in Nat : k = Len(entries)
      BY <2>2
    <2>4. /\ chatList' = chatList \o entries
          /\ lastChatMessageId' = n + k
          /\ calls' = calls
      BY <1>1, <2>1, <2>2, <2>3 DEF appendChatMessages, Event, callVars
    <2>5. Len(chatList') = n + k
      BY <2>1, <2>2, <2>3, <2>4, ConcatProperties DEF Types
    <2>6. \A i \in 1 .. n : chatList'[i] = chatList[i]
      BY <2>1, <2>2, <2>4, ConcatProperties DEF Types
    <2>7. ASSUME NEW i \in n + 1 .. n + k
          PROVE  chatList'[i] = <<calls, i>>
      <3>1. PICK j \in 1 .. k : i = n + j
        <4>1. i - n \in 1 .. k /\ i = n + (i - n)
          OBVIOUS
        <4> QED
          BY <4>1
      <3>2. chatList'[n + j] = entries[j]
        <4>1. /\ n + j \in 1 .. n + k /\ ~(n + j <= n) /\ (n + j) - n = j
          OBVIOUS
        <4>2. chatList \in Seq(Nat \X Nat) /\ Len(chatList) = n /\ Len(entries) = k
          BY <2>1, <2>3 DEF Types
        <4>3. (chatList \o entries)[n + j] = IF n + j <= n THEN chatList[n + j]
                                             ELSE entries[(n + j) - n]
          BY <4>1, <4>2, ConcatProperties
        <4> QED
          BY <2>4, <4>1, <4>3
      <3> QED
        BY <2>2, <2>3, <3>1, <3>2
    <2>8. \A i \in 1 .. n : chatList[i][2] = i /\ chatList[i][1] <= calls
      BY <2>1 DEF ChatNumbered
    <2>9. calls \in Nat
      BY DEF Types
    <2>10. ASSUME NEW i \in 1 .. n + k
           PROVE  chatList'[i][2] = i /\ chatList'[i][1] <= calls
      <3>1. CASE i \in 1 .. n
        BY <2>6, <2>8, <3>1
      <3>2. CASE i \in n + 1 .. n + k
        BY <2>7, <2>9, <3>2
      <3> QED
        BY <3>1, <3>2
    <2>11. ASSUME NEW i \in 1 .. n + k, i > 1
           PROVE  chatList'[i - 1][1] <= chatList'[i][1]
      <3>1. CASE i \in 1 .. n
        <4>1. i - 1 \in 1 .. n
          BY <2>11, <3>1
        <4>2. chatList[i - 1][1] <= chatList[i][1]
          BY <2>1, <2>11, <3>1 DEF ChatNumbered
        <4> QED
          BY <2>6, <3>1, <4>1, <4>2
      <3>2. CASE i \in n + 1 .. n + k
        <4>1. chatList'[i][1] = calls
          BY <2>7, <3>2
        <4>2. i - 1 \in 1 .. n + k
          BY <2>11
        <4> QED
          BY <2>10, <4>1, <4>2
      <3> QED
        BY <3>1, <3>2
    <2> QED
      BY <2>4, <2>5, <2>10, <2>11 DEF ChatNumbered
  <1>2. CASE ~appendChatMessages
    <2>1. UNCHANGED <<chatList, lastChatMessageId>>
      BY <1>2, ChatChanges DEF chatVars
    <2>2. PICK c \in Nat, d \in Nat : c = calls /\ d = calls' /\ c <= d
      <3>1. calls \in Nat /\ (calls' = calls \/ calls' = calls + 1)
        BY ChatChanges DEF Types
      <3> QED
        BY <3>1
    <2>3. ASSUME NEW i \in 1 .. Len(chatList)
          PROVE  chatList[i][1] <= d
      <3>1. PICK m \in Nat : m = chatList[i][1]
        <4>1. chatList[i] \in Nat \X Nat
          BY DEF Types
        <4> QED
          BY <4>1
      <3>2. m <= c
        BY <2>2, <3>1 DEF ChatNumbered
      <3> QED
        BY <2>2, <3>1, <3>2
    <2> QED
      BY <2>1, <2>2, <2>3 DEF ChatNumbered
  <1> QED
    BY <1>1, <1>2

-----------------------------------------------------------------------------
(* The theorems.                                                           *)

LEMMA InitIInv ==
    ASSUME Init
    PROVE  IInv
  <1>1. renderer.nodes = DefaultSize
    BY DEF Init, updateMetrics
  <1>2. /\ position.size = DefaultSize /\ position.stones = 0
        /\ position.status = "Idle" /\ position.player = "Black"
    BY DEF Init, reset
  <1>3. BoardFollows /\ StatusFollows /\ PlayerFollows
    BY <1>1, <1>2 DEF Init, BoardFollows, StatusFollows, PlayerFollows
  <1>4. ChatFollows /\ ChatNumbered
    BY DEF Init, ChatFollows, ChatNumbered
  <1> QED
    BY <1>3, <1>4, InitTypes DEF IInv

\* Each part of the window shows what it should, or its event is due.
THEOREM Invariance == Spec => []IInv
  <1>1. Init => IInv
    BY InitIInv
  <1>2. IInv /\ [Next]_vars => IInv'
    <2> SUFFICES ASSUME IInv, [Next]_vars
                 PROVE  IInv'
      OBVIOUS
    <2>1. /\ Types /\ HostSizeKept /\ BoardFollows /\ StatusFollows /\ PlayerFollows
          /\ ChatFollows /\ ChatNumbered
      BY DEF IInv
    <2>2. Types' /\ HostSizeKept'
      BY <2>1, TypesStep
    <2>3. BoardFollows' /\ StatusFollows' /\ PlayerFollows'
      BY <2>1, BoardStep, StatusStep, PlayerStep
    <2>4. ChatFollows' /\ ChatNumbered'
      BY <2>1, <2>2, ChatFollowsStep, ChatNumberedStep
    <2> QED
      BY <2>2, <2>3, <2>4 DEF IInv
  <1> QED
    BY <1>1, <1>2, PTL DEF Spec

\* When all signals are handled, the window shows the state: the board of the
\* game, drawn with its lines so that a click on a point names that point, its
\* status and player, and the whole chat.
THEOREM QuietAlwaysShowsState == Spec => []QuietShowsState
  <1>1. IInv => QuietShowsState
    <2> SUFFICES ASSUME IInv, Quiet
                 PROVE  ShowsBoard /\ ShowsGame /\ ShowsChat
      BY DEF QuietShowsState
    <2>1. ~WillSignal /\ ~dirty /\ guiPc # "draw"
      BY DEF Quiet, WillSignal
    <2>2. \A e : ~Due(e)
      BY DEF Quiet, Due, Posted, Owed
    <2>3. /\ renderer.nodes = position.size
          /\ painted = [size |-> position.size, stones |-> position.stones,
                        nodes |-> position.size]
      BY <2>1, <2>2 DEF IInv, BoardFollows
    <2>4. Types
      BY DEF IInv
    <2>5. renderer = updateMetrics(position.size, size)
      BY <2>3, <2>4 DEF Types
    <2>6. \A x, y \in 0 .. position.size - 1 : handleClick(drawnAt(x), drawnAt(y)) = {<<x, y>>}
      BY <2>3, <2>4, ClickFindsPoint
    <2>7. ShowsBoard
      BY <2>3, <2>5, <2>6 DEF ShowsBoard
    <2>8. ShowsGame
      BY <2>1, <2>2 DEF IInv, StatusFollows, PlayerFollows, ShowsGame
    <2>9. ShowsChat
      BY <2>2 DEF IInv, ChatFollows, ShowsChat
    <2> QED
      BY <2>7, <2>8, <2>9
  <1> QED
    BY <1>1, Invariance, PTL

\* No line of the chat is shown twice, out of order or after one that is missing.
THEOREM ChatListAlwaysInOrder == Spec => []ChatListInOrder
  <1>1. IInv => ChatListInOrder
    BY DEF IInv, ChatNumbered, ChatListInOrder
  <1> QED
    BY <1>1, Invariance, PTL
===============================================================================
