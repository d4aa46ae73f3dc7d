----------------------------- MODULE ClientProofs -----------------------------
(***************************************************************************)
(* For every number of connections, moves and chat messages: the safety    *)
(* properties of the client.                                               *)
(*                                                                         *)
(* That a stopped client has no read thread is inductive.  That the board  *)
(* shows the moves in order is not: it needs the games to be in order all  *)
(* the way, from the board over the message in hand and the messages on    *)
(* the wire to the server, whatever socket is closed meanwhile.            *)
(***************************************************************************)
EXTENDS Client, SequenceTheorems, WellFoundedInduction, TLAPS

-----------------------------------------------------------------------------
(* The chat.                                                               *)

\* Messages that wait, at most one of each number, none with an earlier one.
WellPending(pending, next) ==
    /\ pending \subseteq ServerChat
    /\ \A e \in pending : e.messageId >= next
    /\ \A e, f \in pending : e.messageId = f.messageId => e = f

\* The number at which the pending messages end, for any set of them: there is
\* none with the number after the last.
Missing(pending, next) ==
    CHOOSE id \in next .. MaxChats + 1 :
        /\ PendingWith(pending, id) = {}
        /\ \A k \in next .. id - 1 : PendingWith(pending, k) # {}

LEMMA MissingExists ==
    ASSUME NEW next \in 1 .. MaxChats + 1, NEW pending \in SUBSET ServerChat
    PROVE  /\ Missing(pending, next) \in next .. MaxChats + 1
           /\ PendingWith(pending, Missing(pending, next)) = {}
           /\ \A k \in next .. Missing(pending, next) - 1 : PendingWith(pending, k) # {}
  <1> USE PositionAssumption
  <1> DEFINE T == {id \in next .. MaxChats + 1 : PendingWith(pending, id) = {}}
  <1>1. T \subseteq Nat
    OBVIOUS
  <1>2. MaxChats + 1 \in T
    BY DEF PendingWith, ServerChat
  <1>3. \E id \in T : \A k \in T : ~ (<<k, id>> \in OpToRel(<, Nat))
    <2> HIDE DEF T
    <2>1. IsWellFoundedOn(OpToRel(<, Nat), Nat)
      BY NatLessThanWellFounded
    <2>2. T # {}
      BY <1>2
    <2>3. QED
      BY <1>1, <2>1, <2>2, WFMin
  <1>4. PICK id \in T : \A k \in T : ~ (k < id)
    <2>1. PICK id \in T : \A k \in T : ~ (<<k, id>> \in OpToRel(<, Nat))
      BY <1>3
    <2>2. \A k \in T : ~ (k < id)
      BY <1>1, <2>1 DEF OpToRel
    <2>3. QED
      BY <2>2
  <1>5. \A k \in next .. id - 1 : PendingWith(pending, k) # {}
    BY <1>4
  <1>6. QED
    BY <1>4, <1>5 DEF Missing

\* AppendNext makes a history without a gap longer, and leaves a message that
\* waits for a missing one.
LEMMA AppendNextHasNoGap ==
    ASSUME NEW c \in Chat, WellPending(c.pending, c.expectedMessageId),
           Len(c.history) + 1 = c.expectedMessageId,
           \A i \in 1 .. Len(c.history) : c.history[i].messageId = i
    PROVE  AppendNext(c) \in Chat /\ NoGapInHistory(AppendNext(c))
  <1> USE PositionAssumption
  <1> DEFINE next == c.expectedMessageId
             missing == Missing(c.pending, next)
             found(k) == CHOOSE e \in PendingWith(c.pending, k) : TRUE
             new == [i \in 1 .. missing - next |-> found(next + i - 1)]
             rest == {e \in c.pending : e.messageId \notin next .. missing - 1}
  <1>1. next \in 1 .. MaxChats + 1 /\ c.pending \in SUBSET ServerChat /\ c.history \in Seq(ServerChat)
    BY DEF Chat
  <1>2. /\ missing \in next .. MaxChats + 1
        /\ PendingWith(c.pending, missing) = {}
        /\ \A k \in next .. missing - 1 : PendingWith(c.pending, k) # {}
    <2> HIDE DEF missing, next
    <2>1. QED
      BY <1>1, MissingExists DEF missing
  <1>3. AppendNext(c) = [expectedMessageId |-> missing, history |-> c.history \o new, pending |-> rest]
    BY Zenon DEF AppendNext, Missing
  <1> HIDE DEF missing
  <1>4. \A k \in next .. missing - 1 : found(k) \in ServerChat /\ found(k).messageId = k
    BY <1>1, <1>2 DEF PendingWith
  <1>5. /\ new \in Seq(ServerChat) /\ Len(new) = missing - next
        /\ \A i \in 1 .. missing - next : new[i].messageId = next + i - 1
    <2> HIDE DEF found
    <2>1. \A i \in 1 .. missing - next : next + i - 1 \in next .. missing - 1
      BY <1>1, <1>2
    <2>2. \A i \in 1 .. missing - next : new[i] \in ServerChat /\ new[i].messageId = next + i - 1
      BY <1>4, <2>1
    <2>3. missing - next \in Nat
      BY <1>1, <1>2
    <2>4. new \in [1 .. missing - next -> ServerChat]
      BY <2>2
    <2>5. \A i \in 1 .. missing - next : new[i].messageId = next + i - 1
      BY <2>2
    <2>6. DOMAIN new = 1 .. missing - next
      OBVIOUS
    <2> HIDE DEF new
    <2>7. new \in Seq(ServerChat)
      BY <2>3, <2>4
    <2>8. Len(new) = missing - next
      BY <2>3, <2>6, <2>7, LenProperties
    <2>9. QED
      BY <2>5, <2>7, <2>8
  <1> HIDE DEF new, found
  <1>6. /\ c.history \o new \in Seq(ServerChat)
        /\ Len(c.history \o new) = Len(c.history) + Len(new)
        /\ \A i \in 1 .. Len(c.history) + Len(new) :
               (c.history \o new)[i] = IF i <= Len(c.history) THEN c.history[i]
                                       ELSE new[i - Len(c.history)]
    BY <1>1, <1>5, ConcatProperties
  <1>7. AppendNext(c) \in Chat
    BY <1>1, <1>2, <1>3, <1>6 DEF Chat
  <1>8. Len(c.history \o new) + 1 = missing
    <2>1. Len(c.history) \in Nat /\ Len(c.history) + 1 = next
      BY <1>1, LenProperties
    <2>2. missing \in Nat /\ next \in Nat
      BY <1>1, <1>2
    <2>3. Len(c.history \o new) = Len(c.history) + (missing - next)
      BY <1>5, <1>6
    <2> HIDE DEF next
    <2>4. QED
      BY <2>1, <2>2, <2>3
  <1>9. \A i \in 1 .. Len(c.history \o new) : (c.history \o new)[i].messageId = i
    <2> SUFFICES ASSUME NEW i \in 1 .. Len(c.history) + Len(new)
                 PROVE  (c.history \o new)[i].messageId = i
      BY <1>6
    <2>0. Len(c.history) \in Nat
      BY <1>1, LenProperties
    <2>1. CASE i <= Len(c.history)
      BY <2>0, <2>1, <1>6
    <2>2. CASE i > Len(c.history)
      <3>1. (c.history \o new)[i] = new[i - Len(c.history)]
        BY <2>0, <2>2, <1>6, <1>5, <1>2, <1>1
      <3>2. i - Len(c.history) \in 1 .. missing - next
        BY <2>0, <2>2, <1>5, <1>2, <1>1
      <3>3. new[i - Len(c.history)].messageId = next + (i - Len(c.history)) - 1
        BY <3>2, <1>5
      <3>4. QED
        BY <3>1, <3>3, <2>0
    <2>3. i \in Int
      OBVIOUS
    <2>4. QED
      BY <2>0, <2>1, <2>2, <2>3
  <1>10. \A e \in rest : e.messageId > missing
    <2> SUFFICES ASSUME NEW e \in rest PROVE e.messageId > missing
      OBVIOUS
    <2>1. e.messageId \in 1 .. MaxChats /\ e.messageId >= next
      BY <1>1 DEF ServerChat, WellPending
    <2>2. e.messageId # missing
      BY <1>2 DEF PendingWith
    <2>3. QED
      BY <2>1, <2>2, <1>1, <1>2
  <1>11. \A e, f \in rest : e.messageId = f.messageId => e = f
    BY DEF WellPending
  <1> HIDE DEF rest
  <1>12. QED
    BY <1>3, <1>7, <1>8, <1>9, <1>10, <1>11 DEF NoGapInHistory

\* In whatever order the messages come, and however often.
LEMMA ChatMessageLeavesNoGap ==
    ASSUME NEW c \in Chat, NoGapInHistory(c), NEW event \in ServerChat
    PROVE  onChatMessage(c, event) \in Chat /\ NoGapInHistory(onChatMessage(c, event))
  <1> USE PositionAssumption
  <1> DEFINE late == event.messageId < c.expectedMessageId
             d == IF late THEN c ELSE [c EXCEPT !.pending = emplace(@, event)]
  <1>1. onChatMessage(c, event) = AppendNext(d)
    BY Zenon DEF onChatMessage
  <1>2. /\ c.pending \subseteq ServerChat /\ c.expectedMessageId \in 1 .. MaxChats + 1
        /\ \A e \in c.pending : e.messageId >= c.expectedMessageId
        /\ \A e, f \in c.pending : e.messageId = f.messageId => e = f
    BY DEF Chat, NoGapInHistory, ServerChat
  <1>3. event.messageId \in 1 .. MaxChats
    BY DEF ServerChat
  <1>4. d \in Chat /\ d.expectedMessageId = c.expectedMessageId /\ d.history = c.history
    BY DEF Chat, emplace
  <1>5. WellPending(d.pending, d.expectedMessageId)
    <2>1. CASE late
      BY <2>1, <1>2 DEF WellPending
    <2>2. CASE ~ late
      <3>1. d.pending = emplace(c.pending, event)
        BY <2>2 DEF Chat
      <3>2. WellPending(emplace(c.pending, event), c.expectedMessageId)
        BY <2>2, <1>2, <1>3 DEF WellPending, emplace, PendingWith
      <3>3. QED
        BY <3>1, <3>2, <1>4
    <2>3. QED
      BY <2>1, <2>2
  <1> HIDE DEF d
  <1>6. AppendNext(d) \in Chat /\ NoGapInHistory(AppendNext(d))
    BY <1>4, <1>5, AppendNextHasNoGap DEF NoGapInHistory
  <1>7. QED
    BY <1>1, <1>6

-----------------------------------------------------------------------------
(* The position.                                                           *)

\* None of the moves on the board is of a game after this one.
MovesNotAfter(moves, game) == \A i \in 1 .. Len(moves) : moves[i].game <= game

\* A delta of the same game or of a later one, applied or not.
LEMMA ApplyKeepsOrder ==
    ASSUME NEW p \in Position, ShowsMovesInOrder(p), NEW delta \in ServerDelta,
           MovesNotAfter(p.moves, delta.game)
    PROVE  /\ apply(p, delta) \in Position
           /\ ShowsMovesInOrder(apply(p, delta))
           /\ MovesNotAfter(apply(p, delta).moves, delta.game)
  <1> USE PositionAssumption
  <1>1. CASE ~ isDeltaApplicable(p, delta)
    BY <1>1 DEF apply
  <1>2. CASE isDeltaApplicable(p, delta)
    <2> DEFINE status == IF delta.gameActive THEN "Active" ELSE "Done"
               moves == Append(p.moves, delta)
               q == [moveId |-> delta.turn, status |-> status, boardOf |-> p.boardOf, moves |-> moves]
    <2>1. apply(p, delta) = q
      BY <1>2, Zenon DEF apply
    <2>2. /\ p.moves \in Seq(ServerDelta) /\ p.moveId \in 0 .. MaxTurns
          /\ delta.turn \in 1 .. MaxTurns /\ delta.game \in Nat
          /\ p.boardOf \in {0} \cup GameNumber
      BY DEF Position, ServerDelta, GameNumber
    <2>3. /\ moves \in Seq(ServerDelta) /\ Len(moves) = Len(p.moves) + 1
          /\ \A i \in 1 .. Len(p.moves) : moves[i] = p.moves[i]
          /\ moves[Len(p.moves) + 1] = delta
      BY <2>2, AppendProperties
    <2>4. p.status = "Active" /\ delta.turn = p.moveId + 1
      BY <1>2, <2>2 DEF isDeltaApplicable
    <2>5. Len(p.moves) = p.moveId
      BY DEF ShowsMovesInOrder
    <2> HIDE DEF moves
    <2>6. q \in Position
      BY <2>2, <2>3 DEF Position, GameStatus
    <2>7. MovesNotAfter(moves, delta.game)
      BY <2>2, <2>3, <2>5 DEF MovesNotAfter
    <2>8. ASSUME NEW i \in 1 .. Len(moves)
          PROVE  /\ moves[i].turn = i
                 /\ \A j \in 1 .. i : moves[j].game <= moves[i].game
                 /\ moves[i].gameActive <=> ~ (i = delta.turn /\ status = "Done")
      <3>1. CASE i = Len(p.moves) + 1
        <4>1. moves[i] = delta
          BY <3>1, <2>3
        <4>2. delta.gameActive <=> ~ (status = "Done")
          BY Zenon
        <4>3. i = delta.turn
          BY <3>1, <2>4, <2>5
        <4>4. \A j \in 1 .. i : moves[j].game <= delta.game
          BY <2>7, <2>3, <3>1, <2>2, <2>5 DEF MovesNotAfter
        <4>5. moves[i].gameActive <=> ~ (i = delta.turn /\ status = "Done")
          BY <4>1, <4>2, <4>3, Zenon
        <4> HIDE DEF status
        <4>6. QED
          BY <4>1, <4>3, <4>4, <4>5
      <3>2. CASE i # Len(p.moves) + 1
        <4>1. i \in 1 .. Len(p.moves) /\ i # delta.turn
          BY <3>2, <2>2, <2>3, <2>4, <2>5
        <4>2. moves[i] = p.moves[i] /\ \A j \in 1 .. i : moves[j] = p.moves[j]
          BY <4>1, <2>2, <2>3, <2>5
        <4>3. /\ p.moves[i].turn = i
              /\ \A j \in 1 .. i : p.moves[j].game <= p.moves[i].game
              /\ p.moves[i].gameActive
          BY <4>1, <2>4 DEF ShowsMovesInOrder
        <4>4. moves[i].gameActive <=> ~ (i = delta.turn /\ status = "Done")
          BY <4>1, <4>2, <4>3, Zenon
        <4> HIDE DEF status
        <4>5. QED
          BY <4>2, <4>3, <4>4
      <3>3. QED
        BY <3>1, <3>2
    <2>9. Len(moves) = delta.turn /\ status \notin {"Idle", "Ready"}
      BY <2>3, <2>4, <2>5
    <2> HIDE DEF status
    <2>10. ShowsMovesInOrder(q)
      BY <2>8, <2>9 DEF ShowsMovesInOrder
    <2> HIDE DEF q
    <2>11. q.moves = moves
      BY DEF q
    <2>12. QED
      BY <2>1, <2>6, <2>7, <2>10, <2>11
  <1>3. QED
    BY <1>1, <1>2

\* A position without moves is in order.
LEMMA EmptyInOrder ==
    ASSUME NEW p \in Position, p.moves = <<>>, p.moveId = 0, p.status # "Done"
    PROVE  ShowsMovesInOrder(p) /\ \A game : MovesNotAfter(p.moves, game)
  BY DEF ShowsMovesInOrder, MovesNotAfter

LEMMA ResetInOrder ==
    /\ reset \in Position /\ ShowsMovesInOrder(reset)
    /\ setStatus(reset, "Ready") \in Position /\ ShowsMovesInOrder(setStatus(reset, "Ready"))
    /\ \A game : MovesNotAfter(reset.moves, game)
    /\ \A game : MovesNotAfter(setStatus(reset, "Ready").moves, game)
  <1> USE PositionAssumption
  <1>1. reset \in Position /\ reset.moves = <<>> /\ reset.moveId = 0 /\ reset.status # "Done"
    BY EmptySeq DEF reset, Position, GameStatus
  <1> DEFINE ready == [moveId |-> 0, status |-> "Ready", boardOf |-> 0, moves |-> <<>>]
  <1>2. setStatus(reset, "Ready") = ready
    BY DEF setStatus, reset
  <1>3. ready \in Position /\ ready.moves = <<>> /\ ready.moveId = 0 /\ ready.status # "Done"
    BY EmptySeq DEF Position, GameStatus
  <1> HIDE DEF ready
  <1>4. ShowsMovesInOrder(reset) /\ \A game : MovesNotAfter(reset.moves, game)
    BY <1>1, EmptyInOrder
  <1>5. ShowsMovesInOrder(ready) /\ \A game : MovesNotAfter(ready.moves, game)
    BY <1>3, EmptyInOrder
  <1>6. QED
    BY <1>1, <1>2, <1>3, <1>4, <1>5

\* A configuration begins a new board or is refused.
LEMMA InitKeepsOrder ==
    ASSUME NEW p \in Position, ShowsMovesInOrder(p), NEW config \in ServerGameConfig
    PROVE  /\ init(p, config) \in Position
           /\ ShowsMovesInOrder(init(p, config))
           /\ \A game : MovesNotAfter(p.moves, game) => MovesNotAfter(init(p, config).moves, game)
  <1> USE PositionAssumption
  <1>1. CASE p.status = "Active"
    BY <1>1 DEF init
  <1>2. CASE p.status # "Active"
    <2> DEFINE q == [moveId |-> 0, status |-> "Active", boardOf |-> config.game, moves |-> <<>>]
    <2>1. init(p, config) = q
      BY <1>2, Zenon DEF init
    <2>2. q \in Position /\ q.moves = <<>> /\ q.moveId = 0 /\ q.status # "Done"
      BY EmptySeq DEF Position, GameStatus, ServerGameConfig
    <2> HIDE DEF q
    <2>3. ShowsMovesInOrder(q) /\ \A game : MovesNotAfter(q.moves, game)
      BY <2>2, EmptyInOrder
    <2>4. QED
      BY <2>1, <2>2, <2>3
  <1>3. QED
    BY <1>1, <1>2

-----------------------------------------------------------------------------
(* The invariant.                                                          *)

\* The latest game of which anything can be on its way.
Newest == IF server = NoServer THEN calls ELSE server.game

\* A server has the number of a game that was begun.
ServerIsCurrent == server.game <= calls /\ (server.game = 0 => server = NoServer)

\* The message in hand is after the board and not after the latest game.
HandInOrder ==
    readPc = "handle" =>
        /\ message \in ServerEvent
        /\ message.game <= Newest
        /\ MovesNotAfter(position.moves, message.game)

\* What is on the wire is after the board and the message in hand, in order, and
\* not after the latest game.
WireInOrder ==
    \A i \in 1 .. Len(inbox) :
        /\ inbox[i].game <= Newest
        /\ MovesNotAfter(position.moves, inbox[i].game)
        /\ readPc = "handle" => message.game <= inbox[i].game
        /\ \A j \in 1 .. i : inbox[j].game <= inbox[i].game

GamesInOrder ==
    /\ ServerIsCurrent
    /\ MovesNotAfter(position.moves, Newest)
    /\ HandInOrder
    /\ WireInOrder

\* A call that will start a server has been counted.
CallIsCounted == hosting \/ uiPc \in {"connect", "open", "host"} => calls > 0

IInv == /\ TypeOK
        /\ CallIsCounted
        /\ StoppedHasNoThread
        /\ ChatWithoutGap
        /\ BoardShowsMovesInOrder
        /\ GamesInOrder

-----------------------------------------------------------------------------
LEMMA ClearHasNoGap == clear \in Chat /\ NoGapInHistory(clear)
  <1> USE PositionAssumption
  <1>1. clear \in Chat
    BY EmptySeq DEF clear, Chat
  <1>2. NoGapInHistory(clear)
    BY DEF clear, NoGapInHistory
  <1>3. QED
    BY <1>1, <1>2

LEMMA NoMessageTyped == <<>> \in Seq(ServerEvent)
  BY EmptySeq

LEMMA NewServerTyped ==
    /\ NoServer \in Server
    /\ \A game \in GameNumber : NewServer(game) \in Server
  BY PositionAssumption DEF NoServer, NewServer, Server

LEMMA InitIInv == Init => IInv
  <1> SUFFICES ASSUME Init PROVE IInv
    OBVIOUS
  <1> USE PositionAssumption DEF Init
  <1>1. TypeOK
    <2>1. position \in Position /\ chat \in Chat /\ server \in Server
      BY ResetInOrder, ClearHasNoGap, NewServerTyped
    <2>2. inbox \in Seq(ServerEvent)
      BY EmptySeq
    <2>3. hosting \in BOOLEAN /\ isConnected \in BOOLEAN /\ running \in BOOLEAN
          /\ peerClosed \in BOOLEAN
      BY Zenon
    <2>4. QED
      BY <2>1, <2>2, <2>3 DEF TypeOK
  <1>2. StoppedHasNoThread
    BY DEF StoppedHasNoThread
  <1>3. ChatWithoutGap /\ BoardShowsMovesInOrder
    BY ResetInOrder, ClearHasNoGap DEF ChatWithoutGap, BoardShowsMovesInOrder
  <1>4. GamesInOrder
    <2>1. ServerIsCurrent
      BY DEF ServerIsCurrent, NoServer, NewServer
    <2>2. MovesNotAfter(position.moves, Newest)
      BY ResetInOrder
    <2>3. HandInOrder /\ WireInOrder
      BY DEF HandInOrder, WireInOrder
    <2>4. QED
      BY <2>1, <2>2, <2>3 DEF GamesInOrder
  <1>5. CallIsCounted
    <2>1. ~ hosting /\ uiPc = "idle"
      BY Zenon
    <2>2. QED
      BY <2>1 DEF CallIsCounted
  <1>6. QED
    BY <1>1, <1>2, <1>3, <1>4, <1>5 DEF IInv

\* A stopped client has no read thread: the one that ends the flag joins it.
LEMMA ThreadStep ==
    ASSUME running \in BOOLEAN, StoppedHasNoThread, [Next]_vars
    PROVE  StoppedHasNoThread'
  <1> USE DEF StoppedHasNoThread
  <1>1. CASE UserInterface
    <2>1. CASE connect \/ disconnect \/ host \/ shutdown \/ sendFails
      BY <2>1 DEF connect, disconnect, host, shutdown, sendFails, UiGoto, readVars
    <2>2. CASE \/ resetLocalServer \/ stopLocalServer \/ refuseConnect \/ failConnect
               \/ openSocket \/ markConnected \/ lookForGame \/ stopHangs
      BY <2>2 DEF lookForGame, stopHangs, Stopping, uiVars, resetLocalServer,
                  stopLocalServer, refuseConnect, failConnect, openSocket, markConnected,
                  UiGoto, readVars
    <2>3. CASE startReadLoop
      BY <2>3 DEF startReadLoop, UiGoto
    <2>4. CASE stopReadLoop
      <3>1. CASE running
        BY <2>4, <3>1 DEF stopReadLoop, UiGoto
      <3>2. CASE ~ running
        BY <2>4, <3>2 DEF stopReadLoop, UiGoto, readVars
      <3>3. QED
        BY <3>1, <3>2
    <2>5. CASE joinReadThread
      BY <2>5 DEF joinReadThread, UiGoto, ReadGoto
    <2>6. CASE closeConnection \/ clearState \/ startLocalServer
      BY <2>6 DEF closeConnection, clearState, startLocalServer, UiGoto, readVars
    <2>7. QED
      BY <1>1, <2>1, <2>2, <2>3, <2>4, <2>5, <2>6 DEF UserInterface, InCall
  <1>2. CASE ReadThread
    BY <1>2 DEF ReadThread, readLoop, read, receive, readFails, closeAfterFailure, unmarkConnected,
                handleNetworkEvent, onDisconnected, ReadGoto, uiVars
  <1>3. CASE ServerStep
    BY <1>3 DEF ServerStep, sendConfig, sendDelta, sendChat, closeByServer, SendToClient, uiVars,
                readVars
  <1>4. CASE UNCHANGED vars
    BY <1>4 DEF vars, uiVars, readVars
  <1>5. QED
    BY <1>1, <1>2, <1>3, <1>4 DEF Next

-----------------------------------------------------------------------------
(* Types.                                                                  *)

LEMMA CloseTyped ==
    ASSUME CloseSocket
    PROVE  socket' \in 0 .. MaxGames /\ inbox' \in Seq(ServerEvent) /\ peerClosed' \in BOOLEAN
  <1>1. socket' \in 0 .. MaxGames
    BY PositionAssumption DEF CloseSocket
  <1>2. inbox' \in Seq(ServerEvent)
    BY NoMessageTyped DEF CloseSocket
  <1>3. peerClosed' \in BOOLEAN
    BY Zenon DEF CloseSocket
  <1>4. QED
    BY <1>1, <1>2, <1>3

\* The steps of a call leave types as they are.
LEMMA UserTypes ==
    ASSUME TypeOK, CallIsCounted, UserInterface
    PROVE  TypeOK'
  <1> USE PositionAssumption DEF UiGoto, uiVars, tcpVars, readVars, wireVars, serverVars, stateVars
  <1>0. uiPc \in {"open", "host"} => calls \in GameNumber
    BY DEF TypeOK, CallIsCounted, GameNumber
  <1>1. CASE connect
    BY <1>1, ResetInOrder, ClearHasNoGap DEF TypeOK, connect
  <1>2. CASE resetLocalServer
    BY <1>2, NewServerTyped DEF TypeOK, resetLocalServer, StopLocalServer
  <1>3. CASE refuseConnect
    BY <1>3 DEF TypeOK, refuseConnect
  <1>4. CASE failConnect
    <2>1. socket' \in 0 .. MaxGames /\ inbox' \in Seq(ServerEvent) /\ peerClosed' \in BOOLEAN
      BY <1>4, CloseTyped DEF failConnect
    <2>2. isConnected' \in BOOLEAN
      BY <1>4, Zenon DEF TypeOK, failConnect, tcpVars
    <2>3. QED
      BY <1>4, <2>1, <2>2 DEF TypeOK, failConnect
  <1>5. CASE openSocket
    <2>1. server' \in Server
      BY <1>0, <1>5, NewServerTyped DEF TypeOK, openSocket
    <2>2. inbox' \in Seq(ServerEvent) /\ socket' \in 0 .. MaxGames
      BY <1>5, NoMessageTyped DEF TypeOK, openSocket
    <2>3. peerClosed' \in BOOLEAN
      BY <1>5, Zenon DEF openSocket
    <2>4. QED
      BY <1>5, <2>1, <2>2, <2>3 DEF TypeOK, openSocket
  <1>6. CASE markConnected
    BY <1>6 DEF TypeOK, markConnected
  <1>7. CASE startReadLoop
    BY <1>7 DEF TypeOK, startReadLoop
  <1>8. CASE disconnect
    BY <1>8 DEF TypeOK, disconnect
  <1>9. CASE host
    BY <1>9 DEF TypeOK, host
  <1>10. CASE closeConnection
    <2>1. socket' \in 0 .. MaxGames /\ inbox' \in Seq(ServerEvent) /\ peerClosed' \in BOOLEAN
      BY <1>10, CloseTyped DEF closeConnection
    <2>2. isConnected' \in BOOLEAN
      BY <1>10, Zenon DEF TypeOK, closeConnection, tcpVars
    <2>3. QED
      BY <1>10, <2>1, <2>2 DEF TypeOK, closeConnection
  <1>11. CASE stopReadLoop
    BY <1>11 DEF TypeOK, stopReadLoop
  <1>12. CASE joinReadThread
    BY <1>12 DEF TypeOK, joinReadThread, ReadGoto
  <1>13. CASE clearState
    BY <1>13, ResetInOrder, ClearHasNoGap, NewServerTyped DEF TypeOK, clearState, StopLocalServer
  <1>14. CASE startLocalServer
    BY <1>0, <1>14, ResetInOrder, ClearHasNoGap, NewServerTyped DEF TypeOK, startLocalServer
  <1>15. CASE sendFails
    <2>1. socket' \in 0 .. MaxGames /\ inbox' \in Seq(ServerEvent) /\ peerClosed' \in BOOLEAN
      BY <1>15, CloseTyped DEF sendFails
    <2>2. isConnected' \in BOOLEAN
      BY <1>15, Zenon DEF TypeOK, sendFails, tcpVars
    <2>3. QED
      BY <1>15, <2>1, <2>2 DEF TypeOK, sendFails
  <1>16. CASE shutdown
    BY <1>16 DEF TypeOK, shutdown
  <1>17. CASE stopLocalServer
    BY <1>17, NewServerTyped DEF TypeOK, stopLocalServer, StopLocalServer
  <1>18. CASE lookForGame
    BY <1>18 DEF TypeOK, lookForGame
  <1>19. CASE stopHangs
    BY <1>19, NewServerTyped DEF TypeOK, stopHangs
  <1>20. QED
    BY <1>1, <1>2, <1>3, <1>4, <1>5, <1>6, <1>7, <1>8, <1>9, <1>10, <1>11, <1>12, <1>13, <1>14,
       <1>15, <1>16, <1>17, <1>18, <1>19 DEF UserInterface, InCall

\* So do those of the read thread and of the server.
LEMMA ReadTypes ==
    ASSUME TypeOK, ChatWithoutGap, BoardShowsMovesInOrder, GamesInOrder, ReadThread
    PROVE  TypeOK'
  <1> USE PositionAssumption
      DEF ReadGoto, uiVars, tcpVars, readVars, wireVars, serverVars, stateVars
  <1>1. CASE readLoop
    BY <1>1 DEF TypeOK, readLoop
  <1>2. CASE read
    BY <1>2 DEF TypeOK, read
  <1>3. CASE receive
    <2>1. message' \in ServerEvent /\ inbox' \in Seq(ServerEvent)
      BY <1>3, HeadTailProperties DEF TypeOK, receive
    <2>2. QED
      BY <1>3, <2>1 DEF TypeOK, receive
  <1>4. CASE readFails
    BY <1>4 DEF TypeOK, readFails
  <1>5. CASE closeAfterFailure
    <2>1. socket' \in 0 .. MaxGames /\ inbox' \in Seq(ServerEvent) /\ peerClosed' \in BOOLEAN
      BY <1>5, CloseTyped DEF closeAfterFailure
    <2>2. isConnected' \in BOOLEAN
      BY <1>5, Zenon DEF TypeOK, closeAfterFailure, tcpVars
    <2>3. QED
      BY <1>5, <2>1, <2>2 DEF TypeOK, closeAfterFailure
  <1>6. CASE unmarkConnected
    BY <1>6 DEF TypeOK, unmarkConnected
  <1>7. CASE handleNetworkEvent
    <2>1. message \in ServerEvent /\ MovesNotAfter(position.moves, message.game)
      BY <1>7 DEF handleNetworkEvent, GamesInOrder, HandInOrder
    <2>2. position \in Position /\ chat \in Chat
      BY DEF TypeOK
    <2>3. CASE onGameConfig
      <3>1. message \in ServerGameConfig
        BY <2>1, <2>3
           DEF onGameConfig, ServerEvent, ServerGameConfig, ServerDelta, ServerChat
      <3>2. position' \in Position
        BY <2>2, <2>3, <3>1, InitKeepsOrder DEF onGameConfig, BoardShowsMovesInOrder
      <3>3. QED
        BY <1>7, <2>3, <3>2 DEF TypeOK, handleNetworkEvent, onGameConfig
    <2>4. CASE onGameUpdate
      <3>1. message \in ServerDelta
        BY <2>1, <2>4
           DEF onGameUpdate, ServerEvent, ServerGameConfig, ServerDelta, ServerChat
      <3>2. position' \in Position
        BY <2>1, <2>2, <2>4, <3>1, ApplyKeepsOrder DEF onGameUpdate, BoardShowsMovesInOrder
      <3>3. QED
        BY <1>7, <2>4, <3>2 DEF TypeOK, handleNetworkEvent, onGameUpdate
    <2>5. CASE onServerChat
      <3>1. message \in ServerChat
        BY <2>1, <2>5
           DEF onServerChat, ServerEvent, ServerGameConfig, ServerDelta, ServerChat
      <3>2. chat' \in Chat
        BY <2>2, <2>5, <3>1, ChatMessageLeavesNoGap DEF onServerChat, ChatWithoutGap
      <3>3. QED
        BY <1>7, <2>5, <3>2 DEF TypeOK, handleNetworkEvent, onServerChat
    <2>6. QED
      BY <1>7, <2>3, <2>4, <2>5 DEF handleNetworkEvent
  <1>8. CASE onDisconnected
    BY <1>8, ResetInOrder, ClearHasNoGap DEF TypeOK, onDisconnected
  <1>9. QED
    BY <1>1, <1>2, <1>3, <1>4, <1>5, <1>6, <1>7, <1>8 DEF ReadThread

LEMMA SendTypes ==
    ASSUME TypeOK, NEW event \in ServerEvent, SendToClient(event), server' \in Server
    PROVE  TypeOK'
  <1>1. Append(inbox, event) \in Seq(ServerEvent)
    BY DEF TypeOK
  <1>2. QED
    BY <1>1 DEF TypeOK, SendToClient, uiVars, tcpVars, readVars, stateVars

LEMMA ServerTypes ==
    ASSUME TypeOK, ServerIsCurrent, ServerStep
    PROVE  TypeOK'
  <1> USE PositionAssumption
  <1>0. /\ server \in Server
        /\ server # NoServer => server.game \in GameNumber
        /\ server.configured => server # NoServer
    BY DEF TypeOK, Server, ServerIsCurrent, NoServer, NewServer
  <1>1. CASE sendConfig
    <2>1. server' \in Server
      BY <1>0, <1>1 DEF sendConfig, Server
    <2> DEFINE event == [type |-> "config", game |-> server.game]
    <2>2. event \in ServerEvent
      BY <1>0, <1>1 DEF sendConfig, ServerEvent, ServerGameConfig
    <2> HIDE DEF event
    <2>3. SendToClient(event)
      BY <1>1 DEF sendConfig, event
    <2>4. QED
      BY <2>1, <2>2, <2>3, SendTypes
  <1>2. ASSUME NEW gameActive \in BOOLEAN, sendDelta(gameActive) PROVE TypeOK'
    <2>1. server' \in Server
      <3>1. server.turn + 1 \in 0 .. MaxTurns
        BY <1>0, <1>2 DEF sendDelta, Server
      <3>2. server' = [server EXCEPT !.turn = server.turn + 1, !.gameActive = gameActive]
        BY <1>2 DEF sendDelta
      <3>3. QED
        BY <1>0, <3>1, <3>2 DEF Server
    <2> DEFINE event == [type |-> "delta", game |-> server.game, turn |-> server.turn + 1,
                         gameActive |-> gameActive]
    <2>2. server.turn + 1 \in 1 .. MaxTurns
      BY <1>0, <1>2 DEF sendDelta, Server
    <2>3. event \in ServerEvent
      BY <1>0, <1>2, <2>2 DEF sendDelta, ServerEvent, ServerDelta
    <2> HIDE DEF event
    <2>4. SendToClient(event)
      BY <1>2 DEF sendDelta, event
    <2>5. QED
      BY <2>1, <2>3, <2>4, SendTypes
  <1>3. CASE sendChat
    <2>1. server' \in Server
      BY <1>0, <1>3 DEF sendChat, Server
    <2> DEFINE event == [type |-> "chat", game |-> server.game, messageId |-> server.chats + 1]
    <2>2. server.chats + 1 \in 1 .. MaxChats
      BY <1>0, <1>3 DEF sendChat, Server
    <2>3. event \in ServerEvent
      BY <1>0, <1>3, <2>2 DEF sendChat, ServerEvent, ServerChat
    <2> HIDE DEF event
    <2>4. SendToClient(event)
      BY <1>3 DEF sendChat, event
    <2>5. QED
      BY <2>1, <2>3, <2>4, SendTypes
  <1>4. CASE closeByServer
    BY <1>4 DEF TypeOK, closeByServer, uiVars, tcpVars, readVars, serverVars, stateVars
  <1>5. QED
    BY <1>1, <1>2, <1>3, <1>4 DEF ServerStep

LEMMA TypeStep ==
    ASSUME IInv, [Next]_vars
    PROVE  TypeOK'
  <1> USE DEF IInv
  <1>1. CASE UserInterface
    BY <1>1, UserTypes
  <1>2. CASE ReadThread
    BY <1>2, ReadTypes
  <1>3. CASE ServerStep
    BY <1>3, ServerTypes DEF GamesInOrder
  <1>4. CASE UNCHANGED vars
    BY <1>4 DEF vars, uiVars, tcpVars, readVars, wireVars, serverVars, stateVars, TypeOK
  <1>5. QED
    BY <1>1, <1>2, <1>3, <1>4 DEF Next

LEMMA CountStep ==
    ASSUME IInv, [Next]_vars
    PROVE  CallIsCounted'
  <1> USE DEF CallIsCounted, UiGoto, uiVars
  <1>0. TypeOK /\ CallIsCounted /\ calls \in Nat
    BY PositionAssumption DEF IInv, TypeOK
  <1>1. CASE UserInterface
    BY <1>0, <1>1, SMTT(30)
       DEF UserInterface, InCall, TypeOK, connect, disconnect, host, shutdown, sendFails,
           stopLocalServer, resetLocalServer, lookForGame, stopHangs, Stopping,
           refuseConnect, failConnect, openSocket, markConnected, startReadLoop, closeConnection,
           stopReadLoop, joinReadThread, clearState, startLocalServer
  <1>2. CASE ReadThread
    BY <1>0, <1>2
       DEF ReadThread, readLoop, read, receive, readFails, closeAfterFailure, unmarkConnected,
           handleNetworkEvent, onDisconnected
  <1>3. CASE ServerStep
    BY <1>0, <1>3
       DEF ServerStep, sendConfig, sendDelta, sendChat, closeByServer, SendToClient
  <1>4. CASE UNCHANGED vars
    BY <1>0, <1>4 DEF vars
  <1>5. QED
    BY <1>1, <1>2, <1>3, <1>4 DEF Next

-----------------------------------------------------------------------------
(* The board, the chat, and the order of the games.                        *)

\* A step that handles no message leaves what it keeps as it is, or clears it.
Kept ==
    /\ chat' = chat \/ chat' = clear
    /\ position' \in {position, reset, setStatus(reset, "Ready")}

LEMMA OtherStepsKeep ==
    ASSUME [Next]_vars, ~ handleNetworkEvent
    PROVE  Kept
  <1> USE DEF Kept, stateVars
  <1>1. CASE UserInterface
    BY <1>1
       DEF UserInterface, InCall, connect, disconnect, host, shutdown, sendFails,
           stopLocalServer, resetLocalServer, lookForGame, stopHangs, Stopping,
           refuseConnect, failConnect, openSocket, markConnected, startReadLoop, closeConnection,
           stopReadLoop, joinReadThread, clearState, startLocalServer
  <1>2. CASE ReadThread
    BY <1>2
       DEF ReadThread, readLoop, read, receive, readFails, closeAfterFailure, unmarkConnected,
           onDisconnected
  <1>3. CASE ServerStep
    BY <1>3 DEF ServerStep, sendConfig, sendDelta, sendChat, closeByServer, SendToClient
  <1>4. CASE UNCHANGED vars
    BY <1>4 DEF vars
  <1>5. QED
    BY <1>1, <1>2, <1>3, <1>4 DEF Next

LEMMA HandledStep ==
    ASSUME IInv, handleNetworkEvent
    PROVE  /\ ChatWithoutGap'
           /\ BoardShowsMovesInOrder'
           /\ MovesNotAfter(position'.moves, message.game)
  <1>1. /\ message \in ServerEvent
        /\ MovesNotAfter(position.moves, message.game)
        /\ ShowsMovesInOrder(position) /\ NoGapInHistory(chat)
        /\ position \in Position /\ chat \in Chat
    BY DEF IInv, TypeOK, GamesInOrder, HandInOrder, handleNetworkEvent, ReadGoto,
           BoardShowsMovesInOrder, ChatWithoutGap
  <1> USE DEF BoardShowsMovesInOrder, ChatWithoutGap, ServerEvent
  <1>2. CASE onGameConfig
    <2>1. message \in ServerGameConfig
      BY <1>1, <1>2 DEF onGameConfig, ServerGameConfig, ServerDelta, ServerChat
    <2>2. ShowsMovesInOrder(init(position, message))
          /\ MovesNotAfter(init(position, message).moves, message.game)
      BY <1>1, <2>1, InitKeepsOrder
    <2>3. QED
      BY <1>1, <1>2, <2>2 DEF onGameConfig
  <1>3. CASE onGameUpdate
    <2>1. message \in ServerDelta
      BY <1>1, <1>3 DEF onGameUpdate, ServerGameConfig, ServerDelta, ServerChat
    <2>2. ShowsMovesInOrder(apply(position, message))
          /\ MovesNotAfter(apply(position, message).moves, message.game)
      BY <1>1, <2>1, ApplyKeepsOrder
    <2>3. QED
      BY <1>1, <1>3, <2>2 DEF onGameUpdate
  <1>4. CASE onServerChat
    <2>1. message \in ServerChat
      BY <1>1, <1>4 DEF onServerChat, ServerGameConfig, ServerDelta, ServerChat
    <2>2. NoGapInHistory(onChatMessage(chat, message))
      BY <1>1, <2>1, ChatMessageLeavesNoGap
    <2>3. QED
      BY <1>1, <1>4, <2>2 DEF onServerChat
  <1>5. QED
    BY <1>2, <1>3, <1>4 DEF handleNetworkEvent

LEMMA ContentStep ==
    ASSUME IInv, [Next]_vars
    PROVE  ChatWithoutGap' /\ BoardShowsMovesInOrder'
  <1>1. CASE handleNetworkEvent
    BY <1>1, HandledStep
  <1>2. CASE ~ handleNetworkEvent
    <2>1. Kept
      BY <1>2, OtherStepsKeep
    <2>2. ShowsMovesInOrder(position) /\ NoGapInHistory(chat)
      BY DEF IInv, BoardShowsMovesInOrder, ChatWithoutGap
    <2>3. ShowsMovesInOrder(position') /\ NoGapInHistory(chat')
      BY <2>1, <2>2, ResetInOrder, ClearHasNoGap DEF Kept
    <2>4. QED
      BY <2>3 DEF BoardShowsMovesInOrder, ChatWithoutGap
  <1>3. QED
    BY <1>1, <1>2

\* What is on its way is as it was, or lost, and the latest game no earlier.
NothingArrives ==
    /\ position'.moves \in {position.moves, <<>>}
    /\ inbox' \in {inbox, <<>>}
    /\ readPc' = "handle" => readPc = "handle" /\ message' = message
    /\ Newest' >= Newest
    /\ ServerIsCurrent'

LEMMA GamesAreNumbers ==
    ASSUME TypeOK
    PROVE  /\ Newest \in Nat
           /\ position.moves \in Seq(ServerDelta) /\ inbox \in Seq(ServerEvent)
           /\ \A i \in 1 .. Len(position.moves) : position.moves[i].game \in Nat
           /\ \A i \in 1 .. Len(inbox) : inbox[i].game \in Nat
           /\ message \in ServerEvent => message.game \in Nat
  <1> USE PositionAssumption
  <1>1. Newest \in Nat
    BY DEF Newest, TypeOK, Server, GameNumber
  <1>2. position.moves \in Seq(ServerDelta) /\ inbox \in Seq(ServerEvent)
    BY DEF TypeOK, Position
  <1>3. \A event \in ServerEvent : event.game \in Nat
    BY DEF ServerEvent, ServerGameConfig, ServerDelta, ServerChat, GameNumber
  <1>4. ServerDelta \subseteq ServerEvent
    BY DEF ServerEvent
  <1>5. QED
    BY <1>1, <1>2, <1>3, <1>4, ElementOfSeq

LEMMA OrderIsKept ==
    ASSUME TypeOK, TypeOK', GamesInOrder, NothingArrives
    PROVE  GamesInOrder'
  <1>1. Newest \in Nat /\ Newest' \in Nat /\ Newest' >= Newest
    <2>1. Newest' \in Nat
      BY PositionAssumption DEF Newest, TypeOK, Server, GameNumber
    <2>2. QED
      BY <2>1, GamesAreNumbers DEF NothingArrives
  <1>2. MovesNotAfter(position'.moves, Newest')
    BY <1>1, GamesAreNumbers DEF NothingArrives, GamesInOrder, MovesNotAfter
  <1>3. HandInOrder'
    BY <1>1, GamesAreNumbers DEF NothingArrives, GamesInOrder, HandInOrder, MovesNotAfter
  <1>4. WireInOrder'
    BY <1>1, GamesAreNumbers DEF NothingArrives, GamesInOrder, WireInOrder, MovesNotAfter
  <1>5. QED
    BY <1>2, <1>3, <1>4 DEF GamesInOrder, NothingArrives

\* The steps that start or stop a server, or begin a call.
LEMMA ServersFollow ==
    ASSUME IInv
    PROVE  /\ calls \in Nat /\ Newest <= calls
           /\ UNCHANGED <<server, calls>> => Newest' >= Newest /\ ServerIsCurrent'
           /\ server' = server /\ calls' = calls + 1 => Newest' >= Newest /\ ServerIsCurrent'
           /\ server' = NoServer /\ calls' = calls => Newest' >= Newest /\ ServerIsCurrent'
           /\ server' = NewServer(calls) /\ calls' = calls => Newest' >= Newest /\ ServerIsCurrent'
  <1> USE PositionAssumption DEF Newest, ServerIsCurrent
  <1>1. calls \in Nat /\ server.game \in Nat /\ server.game <= calls
        /\ (server.game = 0 => server = NoServer) /\ NoServer.game = 0
    BY DEF IInv, TypeOK, Server, GameNumber, GamesInOrder, NoServer, NewServer
  <1>2. NewServer(calls).game = calls /\ (calls = 0 => NewServer(calls) = NoServer)
    BY DEF NewServer, NoServer
  <1>3. QED
    BY <1>1, <1>2

LEMMA UserBringsNothing ==
    ASSUME IInv, UserInterface
    PROVE  NothingArrives
  <1> USE DEF NothingArrives, UiGoto, uiVars, readVars, wireVars, serverVars, stateVars
  <1>1. reset.moves = <<>> /\ setStatus(reset, "Ready").moves = <<>>
    BY DEF reset, setStatus
  <1>2. CASE connect
    <2>1. Newest' >= Newest /\ ServerIsCurrent'
      BY <1>2, ServersFollow DEF connect
    <2>2. QED
      BY <1>1, <1>2, <2>1 DEF connect
  <1>3. CASE host
    <2>1. Newest' >= Newest /\ ServerIsCurrent'
      BY <1>3, ServersFollow DEF host
    <2>2. QED
      BY <1>3, <2>1 DEF host
  <1>4. CASE resetLocalServer
    <2>1. Newest' >= Newest /\ ServerIsCurrent'
      BY <1>4, ServersFollow DEF resetLocalServer, StopLocalServer
    <2>2. QED
      BY <1>4, <2>1 DEF resetLocalServer
  <1>5. CASE clearState
    <2>1. Newest' >= Newest /\ ServerIsCurrent'
      BY <1>5, ServersFollow DEF clearState, StopLocalServer
    <2>2. QED
      BY <1>1, <1>5, <2>1 DEF clearState
  <1>6. CASE openSocket
    <2>1. Newest' >= Newest /\ ServerIsCurrent'
      BY <1>6, ServersFollow DEF openSocket
    <2>2. QED
      BY <1>6, <2>1 DEF openSocket
  <1>7. CASE startLocalServer
    <2>1. Newest' >= Newest /\ ServerIsCurrent'
      BY <1>7, ServersFollow DEF startLocalServer
    <2>2. QED
      BY <1>1, <1>7, <2>1 DEF startLocalServer
  <1>8. CASE \/ lookForGame \/ disconnect \/ shutdown \/ sendFails \/ refuseConnect
             \/ failConnect \/ markConnected \/ startReadLoop \/ closeConnection \/ stopReadLoop \/ joinReadThread
    <2> USE DEF lookForGame, disconnect, shutdown, sendFails, refuseConnect, failConnect,
                markConnected, startReadLoop, closeConnection, stopReadLoop, joinReadThread,
                ReadGoto, CloseSocket
    <2>1. UNCHANGED <<server, calls, position, message>>
      BY <1>8
    <2>2. Newest' >= Newest /\ ServerIsCurrent'
      BY <2>1, ServersFollow
    <2>3. inbox' \in {inbox, <<>>} /\ (readPc' = "handle" => readPc = "handle")
      BY <1>8
    <2>4. QED
      BY <2>1, <2>2, <2>3
  <1>9. CASE stopLocalServer
    <2>1. Newest' >= Newest /\ ServerIsCurrent'
      BY <1>9, ServersFollow DEF stopLocalServer, StopLocalServer
    <2>2. QED
      BY <1>9, <2>1 DEF stopLocalServer
  <1>10. CASE stopHangs
    <2>1. Newest' >= Newest /\ ServerIsCurrent'
      BY <1>10, ServersFollow DEF stopHangs
    <2>2. QED
      BY <1>10, <2>1 DEF stopHangs
  <1>11. QED
    BY <1>2, <1>3, <1>4, <1>5, <1>6, <1>7, <1>8, <1>9, <1>10 DEF UserInterface, InCall

LEMMA ReadBringsNothing ==
    ASSUME IInv, ReadThread, ~ receive, ~ handleNetworkEvent
    PROVE  NothingArrives
  <1> USE DEF NothingArrives, ReadGoto, uiVars, wireVars, serverVars, stateVars
  <1>1. UNCHANGED <<server, calls>>
    BY DEF ReadThread, readLoop, read, readFails, closeAfterFailure, unmarkConnected, onDisconnected
  <1>2. Newest' >= Newest /\ ServerIsCurrent'
    BY <1>1, ServersFollow
  <1>3. readPc' # "handle" /\ inbox' \in {inbox, <<>>}
    BY DEF ReadThread, readLoop, read, readFails, closeAfterFailure, unmarkConnected,
           onDisconnected, CloseSocket
  <1>4. position'.moves \in {position.moves, <<>>}
    BY DEF ReadThread, readLoop, read, readFails, closeAfterFailure, unmarkConnected,
           onDisconnected, reset
  <1>5. QED
    BY <1>2, <1>3, <1>4

\* The message that is read is the first on the wire.
LEMMA ReceiveOrder ==
    ASSUME IInv, receive
    PROVE  GamesInOrder'
  <1> USE DEF receive, uiVars, serverVars, stateVars
  <1>1. TypeOK /\ GamesInOrder /\ UNCHANGED <<server, calls, position>>
    BY DEF IInv
  <1>2. Newest' = Newest /\ ServerIsCurrent'
    BY <1>1 DEF Newest, GamesInOrder, ServerIsCurrent
  <1>3. /\ inbox \in Seq(ServerEvent) /\ Len(inbox) \in Nat /\ Len(inbox) > 0
        /\ message' = inbox[1] /\ message' \in ServerEvent
        /\ Len(inbox') = Len(inbox) - 1
        /\ \A i \in 1 .. Len(inbox') : inbox'[i] = inbox[i + 1]
    <2>1. inbox \in Seq(ServerEvent) /\ inbox # <<>>
      BY <1>1 DEF TypeOK
    <2>2. QED
      BY <2>1, HeadTailProperties, LenProperties, EmptySeq
  <1>4. /\ message'.game <= Newest
        /\ MovesNotAfter(position.moves, message'.game)
    BY <1>1, <1>3 DEF GamesInOrder, WireInOrder
  <1>5. HandInOrder'
    BY <1>1, <1>2, <1>3, <1>4 DEF HandInOrder
  <1>6. ASSUME NEW i \in 1 .. Len(inbox')
        PROVE  /\ inbox'[i].game <= Newest
               /\ MovesNotAfter(position.moves, inbox'[i].game)
               /\ message'.game <= inbox'[i].game
               /\ \A j \in 1 .. i : inbox'[j].game <= inbox'[i].game
    <2>1. i + 1 \in 1 .. Len(inbox) /\ inbox'[i] = inbox[i + 1]
      BY <1>3
    <2>2. 1 \in 1 .. i + 1 /\ \A j \in 1 .. i : j + 1 \in 1 .. i + 1 /\ inbox'[j] = inbox[j + 1]
      BY <1>3
    <2>3. /\ inbox[i + 1].game <= Newest
          /\ MovesNotAfter(position.moves, inbox[i + 1].game)
          /\ \A j \in 1 .. i + 1 : inbox[j].game <= inbox[i + 1].game
      BY <1>1, <2>1 DEF GamesInOrder, WireInOrder
    <2>4. QED
      BY <1>3, <2>1, <2>2, <2>3
  <1>7. WireInOrder'
    BY <1>1, <1>2, <1>6 DEF WireInOrder
  <1>8. QED
    BY <1>1, <1>2, <1>5, <1>7 DEF GamesInOrder

\* The board then shows nothing after the message, so nothing after the wire.
LEMMA HandleOrder ==
    ASSUME IInv, handleNetworkEvent
    PROVE  GamesInOrder'
  <1> USE DEF handleNetworkEvent, ReadGoto, uiVars, wireVars, serverVars
  <1>1. TypeOK /\ GamesInOrder /\ UNCHANGED <<server, calls, inbox>> /\ readPc' = "loop"
    BY DEF IInv
  <1>2. Newest' = Newest /\ ServerIsCurrent'
    BY <1>1 DEF Newest, GamesInOrder, ServerIsCurrent
  <1>3. MovesNotAfter(position'.moves, message.game)
    BY HandledStep
  <1>4. /\ message.game <= Newest /\ message.game \in Nat /\ Newest \in Nat
        /\ \A i \in 1 .. Len(inbox) : message.game <= inbox[i].game /\ inbox[i].game \in Nat
    BY <1>1, GamesAreNumbers DEF GamesInOrder, HandInOrder, WireInOrder
  <1>5. position' \in Position
    BY TypeStep DEF Next, ReadThread, TypeOK
  <1>6. \A i \in 1 .. Len(position'.moves) : position'.moves[i].game \in Nat
    <2>1. position'.moves \in Seq(ServerDelta)
      BY <1>5 DEF Position
    <2>2. \A delta \in ServerDelta : delta.game \in Nat
      BY DEF ServerDelta, GameNumber
    <2>3. QED
      BY <2>1, <2>2, ElementOfSeq
  <1>7. /\ MovesNotAfter(position'.moves, Newest)
        /\ \A i \in 1 .. Len(inbox) : MovesNotAfter(position'.moves, inbox[i].game)
    <2>1. ASSUME NEW game \in Nat, message.game <= game
          PROVE  MovesNotAfter(position'.moves, game)
      <3>1. ASSUME NEW i \in 1 .. Len(position'.moves)
            PROVE  position'.moves[i].game <= game
        <4>1. position'.moves[i].game <= message.game
          BY <1>3 DEF MovesNotAfter
        <4>2. QED
          BY <1>4, <1>6, <2>1, <4>1
      <3>2. QED
        BY <3>1 DEF MovesNotAfter
    <2>2. QED
      BY <1>4, <2>1
  <1>8. HandInOrder' /\ WireInOrder'
    BY <1>1, <1>2, <1>7 DEF HandInOrder, WireInOrder, GamesInOrder
  <1>9. QED
    BY <1>1, <1>2, <1>7, <1>8 DEF GamesInOrder

\* What the server sends is of the latest game, and goes behind the rest.
LEMMA SendOrder ==
    ASSUME IInv, NEW event \in ServerEvent, SendToClient(event),
           server # NoServer, event.game = server.game, server'.game = server.game
    PROVE  GamesInOrder'
  <1> USE DEF SendToClient, uiVars, readVars, stateVars
  <1>1. /\ TypeOK /\ GamesInOrder /\ UNCHANGED <<calls, position, readPc, message>>
        /\ inbox' \in {inbox, Append(inbox, event)}
    BY DEF IInv
  <1>2. Newest' = Newest /\ ServerIsCurrent' /\ event.game = Newest
    BY <1>1 DEF Newest, GamesInOrder, ServerIsCurrent, TypeOK, Server, GameNumber, NoServer, NewServer
  <1>3. MovesNotAfter(position'.moves, Newest') /\ HandInOrder'
    BY <1>1, <1>2 DEF GamesInOrder, HandInOrder
  <1>4. CASE inbox' = inbox
    <2>1. WireInOrder'
      BY <1>1, <1>2, <1>4 DEF GamesInOrder, WireInOrder
    <2>2. QED
      BY <1>2, <1>3, <2>1 DEF GamesInOrder
  <1>5. CASE inbox' = Append(inbox, event)
    <2>1. /\ inbox \in Seq(ServerEvent) /\ Len(inbox) \in Nat /\ Newest \in Nat
          /\ Len(inbox') = Len(inbox) + 1
          /\ \A i \in 1 .. Len(inbox) : inbox'[i] = inbox[i]
          /\ inbox'[Len(inbox) + 1] = event
      BY <1>1, <1>5, GamesAreNumbers, AppendProperties, LenProperties
    <2>2. ASSUME NEW i \in 1 .. Len(inbox')
          PROVE  /\ inbox'[i].game <= Newest
                 /\ MovesNotAfter(position.moves, inbox'[i].game)
                 /\ readPc = "handle" => message.game <= inbox'[i].game
                 /\ \A j \in 1 .. i : inbox'[j].game <= inbox'[i].game
      <3>1. CASE i \in 1 .. Len(inbox)
        <4>1. inbox'[i] = inbox[i] /\ \A j \in 1 .. i : inbox'[j] = inbox[j]
          BY <2>1, <3>1
        <4>2. QED
          BY <1>1, <3>1, <4>1 DEF GamesInOrder, WireInOrder
      <3>2. CASE i = Len(inbox) + 1
        <4>1. inbox'[i].game = Newest
          BY <1>2, <2>1, <3>2
        <4>2. \A j \in 1 .. i : inbox'[j].game <= Newest
          <5>1. \A j \in 1 .. Len(inbox) : inbox'[j].game <= Newest
            BY <1>1, <2>1 DEF GamesInOrder, WireInOrder
          <5>2. \A j \in 1 .. i : j \in 1 .. Len(inbox) \/ j = i
            BY <2>1, <3>2
          <5>3. QED
            BY <2>1, <4>1, <5>1, <5>2
        <4>3. QED
          BY <1>1, <2>1, <4>1, <4>2 DEF GamesInOrder, HandInOrder
      <3>3. QED
        BY <2>1, <3>1, <3>2
    <2>3. WireInOrder'
      BY <1>1, <1>2, <2>2 DEF WireInOrder
    <2>4. QED
      BY <1>2, <1>3, <2>3 DEF GamesInOrder
  <1>6. QED
    BY <1>1, <1>4, <1>5

LEMMA ServerOrder ==
    ASSUME IInv, TypeOK', ServerStep
    PROVE  GamesInOrder'
  <1> USE PositionAssumption
  <1>0. /\ TypeOK /\ GamesInOrder /\ server \in Server
        /\ server # NoServer => server.game \in GameNumber
        /\ server.configured => server # NoServer
    BY DEF IInv, TypeOK, Server, GamesInOrder, ServerIsCurrent, NoServer, NewServer
  <1>1. CASE sendConfig
    <2> DEFINE event == [type |-> "config", game |-> server.game]
    <2>1. event \in ServerEvent /\ event.game = server.game
      BY <1>0, <1>1 DEF sendConfig, ServerEvent, ServerGameConfig
    <2> HIDE DEF event
    <2>2. SendToClient(event) /\ server # NoServer /\ server'.game = server.game
      BY <1>0, <1>1 DEF sendConfig, event, Server
    <2>3. QED
      BY <2>1, <2>2, SendOrder
  <1>2. ASSUME NEW gameActive \in BOOLEAN, sendDelta(gameActive) PROVE GamesInOrder'
    <2> DEFINE event == [type |-> "delta", game |-> server.game, turn |-> server.turn + 1,
                         gameActive |-> gameActive]
    <2>1. server.turn + 1 \in 1 .. MaxTurns
      BY <1>0, <1>2 DEF sendDelta, Server
    <2>2. event \in ServerEvent /\ event.game = server.game
      BY <1>0, <1>2, <2>1 DEF sendDelta, ServerEvent, ServerDelta
    <2> HIDE DEF event
    <2>3. SendToClient(event) /\ server # NoServer /\ server'.game = server.game
      BY <1>0, <1>2 DEF sendDelta, event, Server
    <2>4. QED
      BY <2>2, <2>3, SendOrder
  <1>3. CASE sendChat
    <2> DEFINE event == [type |-> "chat", game |-> server.game, messageId |-> server.chats + 1]
    <2>1. server.chats + 1 \in 1 .. MaxChats
      BY <1>0, <1>3 DEF sendChat, Server
    <2>2. event \in ServerEvent /\ event.game = server.game
      BY <1>0, <1>3, <2>1 DEF sendChat, ServerEvent, ServerChat
    <2> HIDE DEF event
    <2>3. SendToClient(event) /\ server # NoServer /\ server'.game = server.game
      BY <1>0, <1>3 DEF sendChat, event, Server
    <2>4. QED
      BY <2>2, <2>3, SendOrder
  <1>4. CASE closeByServer
    <2>1. UNCHANGED <<server, calls, position, inbox, readPc, message>>
      BY <1>4 DEF closeByServer, uiVars, readVars, serverVars, stateVars
    <2>2. Newest' >= Newest /\ ServerIsCurrent'
      BY <2>1, ServersFollow
    <2>3. NothingArrives
      BY <2>1, <2>2 DEF NothingArrives
    <2>4. QED
      BY <1>0, <2>3, OrderIsKept
  <1>5. QED
    BY <1>1, <1>2, <1>3, <1>4 DEF ServerStep

LEMMA OrderStep ==
    ASSUME IInv, [Next]_vars
    PROVE  GamesInOrder'
  <1>0. TypeOK /\ TypeOK' /\ GamesInOrder
    BY TypeStep DEF IInv
  <1>1. CASE UserInterface
    BY <1>0, <1>1, UserBringsNothing, OrderIsKept
  <1>2. CASE ReadThread
    BY <1>0, <1>2, ReadBringsNothing, OrderIsKept, ReceiveOrder, HandleOrder
  <1>3. CASE ServerStep
    BY <1>0, <1>3, ServerOrder
  <1>4. CASE UNCHANGED vars
    <2>1. UNCHANGED <<server, calls, position, inbox, readPc, message>>
      BY <1>4 DEF vars, uiVars, readVars, wireVars, serverVars, stateVars
    <2>2. Newest' >= Newest /\ ServerIsCurrent'
      BY <2>1, ServersFollow
    <2>3. NothingArrives
      BY <2>1, <2>2 DEF NothingArrives
    <2>4. QED
      BY <1>0, <2>3, OrderIsKept
  <1>5. QED
    BY <1>1, <1>2, <1>3, <1>4 DEF Next

-----------------------------------------------------------------------------
(* The theorems.                                                           *)

LEMMA Invariance == Spec => []IInv
  <1>1. ASSUME IInv, [Next]_vars PROVE IInv'
    <2>1. TypeOK' /\ CallIsCounted'
      BY <1>1, TypeStep, CountStep
    <2>2. StoppedHasNoThread'
      BY <1>1, ThreadStep DEF IInv, TypeOK
    <2>3. ChatWithoutGap' /\ BoardShowsMovesInOrder'
      BY <1>1, ContentStep
    <2>4. GamesInOrder'
      BY <1>1, OrderStep
    <2>5. QED
      BY <2>1, <2>2, <2>3, <2>4 DEF IInv
  <1>2. QED
    BY InitIInv, <1>1, PTL DEF Spec

\* Every state of the client is well typed: the counters stay in their ranges,
\* and what the threads share holds what the handlers expect.
THEOREM TypeCorrect == Spec => []TypeOK
  <1>1. IInv => TypeOK
    BY DEF IInv
  <1>2. QED
    BY <1>1, Invariance, PTL

\* However often the client reconnects, hosts and disconnects, and whenever its
\* connections end: the board never skips a move and never shows one twice.
THEOREM BoardAlwaysInOrder == Spec => []BoardShowsMovesInOrder
  <1>1. IInv => BoardShowsMovesInOrder
    BY DEF IInv
  <1>2. QED
    BY <1>1, Invariance, PTL

\* In the same circumstances the chat that is shown has no gap, and what it
\* keeps back waits for a message that is missing.
THEOREM ChatNeverHasGap == Spec => []ChatWithoutGap
  <1>1. IInv => ChatWithoutGap
    BY DEF IInv
  <1>2. QED
    BY <1>1, Invariance, PTL

\* startReadLoop never assigns to a thread that has not been joined.
THEOREM StoppedIsJoined == Spec => []StoppedHasNoThread
  <1>1. IInv => StoppedHasNoThread
    BY DEF IInv
  <1>2. QED
    BY <1>1, Invariance, PTL

\* When disconnect has returned, neither a late message nor the end of the old
\* connection changes the position or the chat.
THEOREM NothingAfterDisconnect == Spec => QuietAfterDisconnect
  <1>1. ASSUME StoppedHasNoThread, [Next]_vars, ~ running, uiPc = "idle", uiPc' = "idle"
        PROVE  UNCHANGED stateVars
    <2>1. readPc = "none"
      BY <1>1 DEF StoppedHasNoThread
    <2>2. ~ ReadThread
      BY <2>1 DEF ReadThread, readLoop, read, receive, readFails, closeAfterFailure, unmarkConnected,
                  handleNetworkEvent, onDisconnected, ReadGoto
    <2>3. CASE UserInterface
      BY <1>1, <2>3
         DEF UserInterface, InCall, UiGoto, connect, disconnect, host, shutdown, sendFails,
           stopLocalServer, resetLocalServer, lookForGame, stopHangs, Stopping,
             refuseConnect, failConnect, openSocket, markConnected, startReadLoop, closeConnection,
             stopReadLoop, joinReadThread, clearState, startLocalServer
    <2>4. CASE ServerStep
      BY <2>4 DEF ServerStep, sendConfig, sendDelta, sendChat, closeByServer, SendToClient
    <2>5. CASE UNCHANGED vars
      BY <2>5 DEF vars
    <2>6. QED
      BY <1>1, <2>2, <2>3, <2>4, <2>5 DEF Next
  <1>2. ASSUME StoppedHasNoThread, [Next]_vars
        PROVE  [~ running /\ uiPc = "idle" /\ uiPc' = "idle" => UNCHANGED stateVars]_vars
    BY <1>1, <1>2
  <1>3. QED
    BY <1>2, StoppedIsJoined, PTL DEF Spec, QuietAfterDisconnect

=============================================================================
