-------------------------------- MODULE Game --------------------------------
(***************************************************************************)
(* The rules loop of class Game.  Other threads push events on the queue;  *)
(* the game thread runs run(), which pops one event at a time, applies it  *)
(* to the position and sends a delta to the listeners.  The listeners only *)
(* ever see the deltas, so the log of the deltas sent is the output of the *)
(* component.  The GS_* signals sent beside the deltas carry no data and   *)
(* change no state here; they are left out.                                *)
(***************************************************************************)
EXTENDS GoRules, Sequences

CONSTANTS
    EventCoord,     \* Coordinates an event may carry, on the board or not.
    MaxQueue,       \* Bound: events waiting in the queue.
    MaxBusyMoveId,  \* Bound: later in the game a single event waits.
    MaxMoveId       \* Bound: moves are pushed while fewer have been made.

ASSUME GameAssumption ==
    /\ EventCoord \subseteq Nat \X Nat
    /\ MaxQueue \in Nat \ {0}
    /\ MaxBusyMoveId \in Nat
    /\ MaxMoveId \in Nat

VARIABLES
    gameThread,         \* "none" before run(), "running" in it, "ended" after.
    gameActive,         \* m_gameActive
    consecutivePasses,  \* m_consecutivePasses
    position,           \* m_position
    eventQueue,         \* m_eventQueue
    seenHashes,         \* m_seenHashes
    deltas              \* The deltas sent to the listeners, oldest first.

vars == <<gameThread, gameActive, consecutivePasses, position, eventQueue,
          seenHashes, deltas>>

-----------------------------------------------------------------------------
MoveEvent == [type : {"Put"}, player : Player, c : EventCoord]
             \cup [type : {"Pass"}, player : Player]

Event == MoveEvent \cup [type : {"Resign", "Shutdown"}]

Delta == [moveId : Nat, action : {"Place", "Pass", "Resign"}, player : Player,
          coord : SUBSET Coord, captures : SUBSET Coord,
          nextPlayer : Player, gameActive : BOOLEAN]

TypeOK ==
    /\ gameThread \in {"none", "running", "ended"}
    /\ gameActive \in BOOLEAN
    /\ consecutivePasses \in 0 .. 2
    /\ position \in Position
    /\ eventQueue \in Seq(Event)
    /\ seenHashes \in SUBSET Hash
    /\ deltas \in Seq(Delta)

Init ==
    /\ gameThread = "none"
    /\ gameActive = FALSE
    /\ consecutivePasses = 0
    /\ position = InitialPosition
    /\ eventQueue = <<>>
    /\ seenHashes = {InitialPosition.hash}
    /\ deltas = <<>>

-----------------------------------------------------------------------------
(* Any thread: push an event, at any time, before run() or after it too.   *)

pushEvent(event) ==
    /\ Len(eventQueue) < IF position.moveId < MaxBusyMoveId THEN MaxQueue ELSE 1
    /\ event \in MoveEvent => position.moveId < MaxMoveId
    /\ eventQueue' = Append(eventQueue, event)
    /\ UNCHANGED <<gameThread, gameActive, consecutivePasses, position,
                   seenHashes, deltas>>

-----------------------------------------------------------------------------
(* The game thread.                                                        *)

run ==
    /\ gameThread = "none"
    /\ gameThread' = "running"
    /\ gameActive' = TRUE
    /\ UNCHANGED <<consecutivePasses, position, eventQueue, seenHashes, deltas>>

\* A mutation of Pop: run() does not look at m_gameActive again.
PopForever(type) ==
    /\ gameThread = "running"
    /\ eventQueue # <<>>
    /\ Head(eventQueue).type = type
    /\ eventQueue' = Tail(eventQueue)
    /\ UNCHANGED gameThread

\* The loop pops the next event; a handler below is what it does with it.
Pop(type) ==
    /\ gameThread = "running"
    /\ gameActive
    /\ eventQueue # <<>>
    /\ Head(eventQueue).type = type
    /\ eventQueue' = Tail(eventQueue)
    /\ UNCHANGED gameThread

\* A mutation of MoveOutOfTurn: a pass of the other player ends the game.
EndGameOutOfTurn ==
    /\ \E type \in {"Put", "Pass"} : Pop(type)
    /\ Head(eventQueue).player # position.currentPlayer
    /\ gameActive' = (Head(eventQueue).type = "Put")
    /\ UNCHANGED <<consecutivePasses, position, seenHashes, deltas>>

\* An event of the player whose turn it is not is dropped.
MoveOutOfTurn ==
    /\ \E type \in {"Put", "Pass"} : Pop(type)
    /\ Head(eventQueue).player # position.currentPlayer
    /\ UNCHANGED <<gameActive, consecutivePasses, position, seenHashes, deltas>>

\* A mutation of PlaceDelta: the captured stones are not reported.
PlaceDeltaNoCaptures(event, next) ==
    [moveId |-> next.moveId, action |-> "Place", player |-> event.player,
     coord |-> {event.c}, captures |-> {},
     nextPlayer |-> next.currentPlayer, gameActive |-> gameActive]

PlaceDelta(event, next) ==
    [moveId |-> next.moveId, action |-> "Place", player |-> event.player,
     coord |-> {event.c},
     captures |-> CapturedBy(position.board, event.c, event.player),
     nextPlayer |-> next.currentPlayer, gameActive |-> gameActive]

handlePut ==
    LET event == Head(eventQueue)
        next  == simulatePosition(position, event.c, event.player)
    IN  /\ Pop("Put")
        /\ event.player = position.currentPlayer
        /\ isNextPositionLegal(position, event.player, event.c, seenHashes)
        /\ consecutivePasses' = 0
        /\ position' = next
        /\ seenHashes' = seenHashes \cup {next.hash}
        /\ deltas' = Append(deltas, PlaceDelta(event, next))
        /\ UNCHANGED gameActive

\* An illegal move is dropped without an answer.
refusePut ==
    LET event == Head(eventQueue)
    IN  /\ Pop("Put")
        /\ event.player = position.currentPlayer
        /\ ~ isNextPositionLegal(position, event.player, event.c, seenHashes)
        /\ UNCHANGED <<gameActive, consecutivePasses, position, seenHashes, deltas>>

\* A mutation of TurnDelta: it carries the number of the move before.
TurnDeltaSameId(action, player, active) ==
    [moveId |-> position.moveId, action |-> action, player |-> player,
     coord |-> {}, captures |-> {}, nextPlayer |-> opponent(player),
     gameActive |-> active]

\* A delta without a stone: a pass or a resignation, moving on from moveId.
TurnDelta(action, player, active) ==
    [moveId |-> position.moveId + 1, action |-> action, player |-> player,
     coord |-> {}, captures |-> {}, nextPlayer |-> opponent(player),
     gameActive |-> active]

\* What every pass of the current player does before anything else.
CountPass ==
    /\ Pop("Pass")
    /\ Head(eventQueue).player = position.currentPlayer
    /\ consecutivePasses' = consecutivePasses + 1

\* The second pass ends the game; the position stays as it was.
passEndsGame ==
    /\ CountPass
    /\ consecutivePasses' = 2
    /\ gameActive' = FALSE
    /\ deltas' = Append(deltas, TurnDelta("Pass", position.currentPlayer, FALSE))
    /\ UNCHANGED <<position, seenHashes>>

handlePass ==
    LET next == PassPosition(position)
    IN  /\ CountPass
        /\ consecutivePasses' # 2
        /\ next.hash \notin seenHashes
        /\ position' = next
        /\ seenHashes' = seenHashes \cup {next.hash}
        /\ deltas' = Append(deltas, TurnDelta("Pass", position.currentPlayer, gameActive))
        /\ UNCHANGED gameActive

\* A pass into a seen situation is dropped, but it has been counted.
refusePass ==
    /\ CountPass
    /\ consecutivePasses' # 2
    /\ PassPosition(position).hash \in seenHashes
    /\ UNCHANGED <<gameActive, position, seenHashes, deltas>>

\* A resignation carries no player: the delta names the player to move.
handleResign ==
    /\ Pop("Resign")
    /\ gameActive' = FALSE
    /\ deltas' = Append(deltas, TurnDelta("Resign", position.currentPlayer, FALSE))
    /\ UNCHANGED <<consecutivePasses, position, seenHashes>>

\* A mutation of handleShutdown: the event is popped and nothing else.
ShutdownIgnored ==
    /\ Pop("Shutdown")
    /\ UNCHANGED <<gameActive, consecutivePasses, position, seenHashes, deltas>>

handleShutdown ==
    /\ Pop("Shutdown")
    /\ gameActive' = FALSE
    /\ UNCHANGED <<consecutivePasses, position, seenHashes, deltas>>

\* The condition of the while loop is false: run() returns.
returnFromRun ==
    /\ gameThread = "running"
    /\ ~ gameActive
    /\ gameThread' = "ended"
    /\ UNCHANGED <<gameActive, consecutivePasses, position, eventQueue,
                   seenHashes, deltas>>

GameLoop == \/ MoveOutOfTurn
            \/ handlePut \/ refusePut
            \/ passEndsGame \/ handlePass \/ refusePass
            \/ handleResign \/ handleShutdown
            \/ returnFromRun

\* run() has returned: the one state in which nothing needs to happen.
Terminated == gameThread = "ended" /\ UNCHANGED vars

Next == \/ \E event \in Event : pushEvent(event)
        \/ run
        \/ GameLoop
        \/ Terminated

\* A thread that is in run() goes on, as the scheduler runs every thread.
Spec == Init /\ [][Next]_vars /\ WF_vars(GameLoop)

-----------------------------------------------------------------------------
(* Properties.                                                             *)

\* The hash maintained move by move is the hash of the board and of the
\* player to move: no stone placed or captured is left out of it.
HashMatchesSituation ==
    position.hash = HashOf(position.board, position.currentPlayer)

\* Situational superko: every accepted move has led to a situation that had
\* not occurred, so as many are remembered as the game has had positions.
NoSituationTwice ==
    /\ position.hash \in seenHashes
    /\ Cardinality(seenHashes) = position.moveId + 1

\* No move leaves a stone on the board whose group has no liberty.
GroupsBreathe == AllBreathe(position.board)

\* The deltas are numbered without a gap, the players of successive deltas
\* alternate, and only the last delta can say that the game is over: what a
\* client that applies a delta only when its number is the next one needs.
DeltasInOrder ==
    \A i \in 1 .. Len(deltas) :
        /\ deltas[i].moveId = i
        /\ deltas[i].player = IF i % 2 = 1 THEN "Black" ELSE "White"
        /\ deltas[i].nextPlayer = opponent(deltas[i].player)
        /\ i < Len(deltas) => deltas[i].gameActive

\* What a listener makes of its board when it gets a delta.
Applied(board, delta) ==
    [c \in Coord |-> IF c \in delta.coord THEN delta.player
                     ELSE IF c \in delta.captures THEN Empty
                     ELSE board[c]]

\* The board after all deltas, built from the deltas alone.
ReplayedBoard ==
    LET after[n \in 0 .. Len(deltas)] ==
            IF n = 0 THEN EmptyBoard ELSE Applied(after[n - 1], deltas[n])
    IN  after[Len(deltas)]

\* A listener that applies the deltas in order has the board of the game.
DeltasRebuildBoard == ReplayedBoard = position.board

\* Once the game is over the position, and what listeners know, is final.
FinalPosition ==
    [][gameThread # "none" /\ ~ gameActive
         => UNCHANGED <<position, seenHashes, deltas, gameActive>>]_vars

\* A shutdown event in the queue of a running game ends run(), whatever the
\* other threads push meanwhile.
ShutdownEndsRun ==
    (\E i \in 1 .. Len(eventQueue) : eventQueue[i].type = "Shutdown")
        /\ gameThread = "running" ~> gameThread = "ended"

Played == INSTANCE Match

\* Whatever the board and the rules, what other threads see of a game is a
\* match: the thread takes the events in the order they were pushed, plays only
\* the moves of the player to move, and numbers the deltas until the end.
ImplementsMatch == Played!Spec

\* game.hpp: "Two consequtive passes ends game."  A pass that ends the game
\* follows a pass of the other player.
TwoPassesEndGame ==
    LET n == Len(deltas)
    IN  n > 0 /\ deltas[n].action = "Pass" /\ ~ deltas[n].gameActive
            => n > 1 /\ deltas[n - 1].action = "Pass"
=============================================================================
