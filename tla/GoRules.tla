------------------------------- MODULE GoRules -------------------------------
(***************************************************************************)
(* The rules of the game as moveChecker.cpp applies them: groups and their *)
(* liberties, suicide, capture, and the position after a move.             *)
(*                                                                         *)
(* A group is defined here as a connected component.  The search that      *)
(* computes it in the code is the subject of module GroupAnalysis, which   *)
(* shows that it returns the set defined here.  A std::optional argument   *)
(* is a set with at most one member.                                       *)
(*                                                                         *)
(* A Zobrist hash is the exclusive or of random keys, one for each stone   *)
(* (coordinate and colour) and one for the player to move.  It is modelled *)
(* by the keys themselves: a set of stone keys and a Boolean for the       *)
(* toggle key, and the exclusive or is the symmetric difference.  Two sets *)
(* of keys are therefore taken to have different hashes.                   *)
(***************************************************************************)
EXTENDS Integers, FiniteSets

CONSTANT Size            \* The board has Size x Size points (9, 13 or 19).

ASSUME SizeAssumption == Size \in Nat \ {0}

-----------------------------------------------------------------------------
(* The model library: players, stones, points and boards.                  *)

Player == {"Black", "White"}

opponent(player) == IF player = "White" THEN "Black" ELSE "White"

Empty == "Empty"

Stone == {Empty} \cup Player

Coord == (0 .. Size - 1) \X (0 .. Size - 1)

Board == [Coord -> Stone]

EmptyBoard == [c \in Coord |-> Empty]

\* The four directions of the tables kDx and kDy that stay on the board.
Neighbors(c) ==
    {n \in Coord : \/ n[1] = c[1] /\ (n[2] = c[2] + 1 \/ n[2] = c[2] - 1)
                   \/ n[2] = c[2] /\ (n[1] = c[1] + 1 \/ n[1] = c[1] - 1)}

-----------------------------------------------------------------------------
(* Groups and liberties.                                                   *)

\* The points that count as the player's stones: isPlayerStone.
PlayerStones(board, player, pretend) ==
    {c \in Coord : board[c] = player \/ c \in pretend}

\* No stone of own outside S touches S.
ClosedIn(S, own) == \A s \in S : Neighbors(s) \cap own \subseteq S

\* The stones of own connected to start.
Group(own, start) ==
    {c \in own : \A S \in SUBSET own : start \in S /\ ClosedIn(S, own) => c \in S}

\* The empty points next to the group, the blocked one excepted.
Liberties(board, group, own, blocked) ==
    {n \in Coord : /\ n \notin own
                   /\ board[n] = Empty
                   /\ n \notin blocked
                   /\ \E c \in group : n \in Neighbors(c)}

\* groupAnalysis: the group of start and the points it breathes through.
groupAnalysis(board, start, player, pretend, blocked) ==
    LET own   == PlayerStones(board, player, pretend)
        group == IF start \in own THEN Group(own, start) ELSE {}
    IN  [group     |-> group,
         liberties |-> Liberties(board, group, own, blocked)]

computeGroupLiberties(board, start, player) ==
    IF start \in Coord
    THEN Cardinality(groupAnalysis(board, start, player, {start}, {}).liberties)
    ELSE 0

-----------------------------------------------------------------------------
(* Legality of a move, superko excepted.                                   *)

\* The stones of the player's enemy that a stone at c leaves without liberty.
CapturedBy(board, c, player) ==
    LET enemy == opponent(player)
        hit   == {n \in Neighbors(c) : board[n] = enemy}
        at(n) == groupAnalysis(board, n, enemy, {}, {c})
    IN  UNION {at(n).group : n \in {m \in hit : at(m).liberties = {}}}

wouldCapture(board, c, player) == CapturedBy(board, c, player) # {}

\* A mutation of isSuicide: every move on an empty point is allowed.
SuicideAllowed(board, player, c) == FALSE

isSuicide(board, player, c) ==
    /\ computeGroupLiberties(board, c, player) = 0
    /\ ~ wouldCapture(board, c, player)

isValidMove(board, player, c) ==
    /\ c \in Coord
    /\ board[c] = Empty
    /\ ~ isSuicide(board, player, c)

-----------------------------------------------------------------------------
(* Hashes and positions.                                                   *)

StoneKey == Coord \X Player

Hash == [stones : SUBSET StoneKey, toggle : BOOLEAN]

NoKeys == [stones |-> {}, toggle |-> FALSE]

SymDiff(S, T) == (S \ T) \cup (T \ S)

XorStones(hash, keys) == [hash EXCEPT !.stones = SymDiff(@, keys)]

XorToggle(hash) == [hash EXCEPT !.toggle = ~ @]

Position == [board : Board, currentPlayer : Player, hash : Hash, moveId : Nat]

InitialPosition ==
    [board |-> EmptyBoard, currentPlayer |-> "Black", hash |-> NoKeys, moveId |-> 0]

\* A mutation of PassPosition: the move number goes back.
PassTakesBack(position) ==
    [position EXCEPT !.currentPlayer = opponent(@),
                     !.hash = XorToggle(@),
                     !.moveId = @ - 1]

\* GamePosition::pass
PassPosition(position) ==
    [position EXCEPT !.currentPlayer = opponent(@),
                     !.hash = XorToggle(@),
                     !.moveId = @ + 1]

\* A mutation of NextHash: the captured stones stay in the hash.
HashKeepsCaptured(hash, move, player, captured) ==
    XorToggle(XorStones(hash, {<<move, player>>}))

\* The stone at move enters the hash, the captured stones leave it.
NextHash(hash, move, player, captured) ==
    LET placed  == XorStones(hash, {<<move, player>>})
        removed == XorStones(placed, captured \X {opponent(player)})
    IN  XorToggle(removed)

\* simulatePosition: the player's stone at move, the captured stones gone.
simulatePosition(start, move, player) ==
    LET captured == CapturedBy(start.board, move, player)
    IN  [board |-> [c \in Coord |-> IF c = move THEN player
                                    ELSE IF c \in captured THEN Empty
                                    ELSE start.board[c]],
         currentPlayer |-> opponent(player),
         hash |-> NextHash(start.hash, move, player, captured),
         moveId |-> start.moveId + 1]

\* A mutation of isNextPositionLegal: the superko rule is not applied.
LegalWithoutSuperko(current, player, c, history) ==
    isValidMove(current.board, player, c)

\* isNextPositionLegal: the move is valid and repeats no seen situation.
isNextPositionLegal(current, player, c, history) ==
    /\ isValidMove(current.board, player, c)
    /\ simulatePosition(current, c, player).hash \notin history

-----------------------------------------------------------------------------
(* What the properties compare the rules with.                             *)

\* The keys of the stones on the board and of the player to move.
HashOf(board, player) ==
    [stones |-> {k \in StoneKey : board[k[1]] = k[2]}, toggle |-> player = "White"]

\* Every stone belongs to a group with a liberty.
AllBreathe(board) ==
    \A c \in Coord : board[c] # Empty =>
        groupAnalysis(board, c, board[c], {}, {}).liberties # {}
=============================================================================
