-------------------------------- MODULE Match --------------------------------
(***************************************************************************)
(* What class Game promises to the code around it, whatever the rules are: *)
(* events are pushed by any thread, the thread in run() takes them in      *)
(* order, and listeners get numbered deltas, Black and White in turn,      *)
(* until one of them says that the game is over.                           *)
(*                                                                         *)
(* Which moves are legal, what they capture, and whether a pass is the     *)
(* last one, is left open.  Game is shown to implement this, and           *)
(* GameServer is built on it.                                              *)
(***************************************************************************)
EXTENDS Naturals, Sequences

CONSTANTS
    Coord,          \* The points of the board.
    EventCoord      \* Coordinates an event may carry, on the board or not.

VARIABLES
    gameThread,     \* "none" before run(), "running" in it, "ended" after.
    gameActive,     \* What isActive() returns.
    eventQueue,     \* Events pushed and not taken.
    deltas          \* The deltas signalled, oldest first.

matchVars == <<gameThread, gameActive, eventQueue, deltas>>

-----------------------------------------------------------------------------
Player == {"Black", "White"}

opponent(player) == IF player = "Black" THEN "White" ELSE "Black"

MoveEvent == [type : {"Put"}, player : Player, c : EventCoord]
             \cup [type : {"Pass"}, player : Player]

Event == MoveEvent \cup [type : {"Resign", "Shutdown"}]

Delta == [moveId : Nat, action : {"Place", "Pass", "Resign"}, player : Player,
          coord : SUBSET Coord, captures : SUBSET Coord,
          nextPlayer : Player, gameActive : BOOLEAN]

Init ==
    /\ gameThread = "none"
    /\ gameActive = FALSE
    /\ eventQueue = <<>>
    /\ deltas = <<>>

\* Black moves first and the players alternate.
toMove == IF Len(deltas) % 2 = 0 THEN "Black" ELSE "White"

\* The delta of the next move.
NextDelta(action, coord, captures, active) ==
    [moveId |-> Len(deltas) + 1, action |-> action, player |-> toMove,
     coord |-> coord, captures |-> captures,
     nextPlayer |-> opponent(toMove), gameActive |-> active]

-----------------------------------------------------------------------------
pushEvent(event) ==
    /\ eventQueue' = Append(eventQueue, event)
    /\ UNCHANGED <<gameThread, gameActive, deltas>>

run ==
    /\ gameThread = "none"
    /\ gameThread' = "running"
    /\ gameActive' = TRUE
    /\ UNCHANGED <<eventQueue, deltas>>

Pop(type) ==
    /\ gameThread = "running"
    /\ gameActive
    /\ eventQueue # <<>>
    /\ Head(eventQueue).type = type
    /\ eventQueue' = Tail(eventQueue)
    /\ UNCHANGED gameThread

\* A move may be refused, and nobody is told.
refuseMove ==
    /\ Pop("Put") \/ Pop("Pass")
    /\ UNCHANGED <<gameActive, deltas>>

putStone ==
    LET event == Head(eventQueue)
    IN  /\ Pop("Put")
        /\ event.player = toMove
        /\ event.c \in Coord
        /\ \E captures \in SUBSET Coord :
               deltas' = Append(deltas, NextDelta("Place", {event.c}, captures, TRUE))
        /\ UNCHANGED gameActive

\* A pass may be the one that ends the game.
pass ==
    /\ Pop("Pass")
    /\ Head(eventQueue).player = toMove
    /\ gameActive' \in BOOLEAN
    /\ deltas' = Append(deltas, NextDelta("Pass", {}, {}, gameActive'))

\* Whoever resigned, the delta names the player to move.
resign ==
    /\ Pop("Resign")
    /\ gameActive' = FALSE
    /\ deltas' = Append(deltas, NextDelta("Resign", {}, {}, FALSE))

shutdown ==
    /\ Pop("Shutdown")
    /\ gameActive' = FALSE
    /\ UNCHANGED deltas

returnFromRun ==
    /\ gameThread = "running"
    /\ ~ gameActive
    /\ gameThread' = "ended"
    /\ UNCHANGED <<gameActive, eventQueue, deltas>>

GameLoop == refuseMove \/ putStone \/ pass \/ resign \/ shutdown \/ returnFromRun

Next == (\E event \in Event : pushEvent(event)) \/ run \/ GameLoop

Safety == Init /\ [][Next]_matchVars

\* The game thread goes on while there is an event or the game is over.
Spec == Safety /\ WF_matchVars(GameLoop)
=============================================================================
