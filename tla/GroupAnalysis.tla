---------------------------- MODULE GroupAnalysis ----------------------------
(***************************************************************************)
(* groupAnalysis of moveChecker.cpp: the search, with an explicit stack,   *)
(* of the stones connected to a point and of the liberties of that group.  *)
(* Every rule of the game is decided by its result.  The outer loop pops a *)
(* point; the inner loop looks at its four sides, one side per step.       *)
(*                                                                         *)
(* The group vector may name a point twice; its callers use it as a set.   *)
(* The early return for a start that is not the player's stone is left     *)
(* out: no call in the code takes it.                                      *)
(***************************************************************************)
EXTENDS GoRules, Sequences

CONSTANT Boards          \* The boards to search.

ASSUME BoardsAssumption == Boards \subseteq Board

VARIABLES
    call,               \* The arguments: board, start, player, pretend, blocked.
    pc,                 \* "pop" at the while loop, "scan" in the for loop, "done".
    stack,              \* Points to visit; one may be on it more than once.
    visited,
    libertyVisited,
    group,              \* The points in the group vector.
    liberties,          \* The count returned.
    current, side       \* The point and the direction of the for loop.

vars == <<call, pc, stack, visited, libertyVisited, group, liberties, current, side>>

-----------------------------------------------------------------------------
\* The arguments of a call.
Arguments == [board : Board, start : Coord, player : Player,
              pretend : SUBSET Coord, blocked : SUBSET Coord]

\* computeGroupLiberties asks for the liberties a stone at start would have.
LibertiesCall(k) == k.pretend = {k.start} /\ k.blocked = {}

\* wouldCapture and simulatePosition ask for those of a stone next to a move.
CaptureCall(k) ==
    /\ k.pretend = {}
    /\ k.board[k.start] = k.player
    /\ \E c \in Neighbors(k.start) : k.board[c] = Empty /\ k.blocked = {c}

Own == PlayerStones(call.board, call.player, call.pretend)

\* Whether an empty point counts, by the two conditions of the code.
Breathes(n) == call.board[n] = Empty /\ n \notin call.blocked

\* The point on a side of c, by the tables kDx and kDy; it may be off the board.
SideOf(c, i) ==
    <<c[1] + (IF i = 1 THEN 1 ELSE IF i = 2 THEN -1 ELSE 0),
      c[2] + (IF i = 3 THEN 1 ELSE IF i = 4 THEN -1 ELSE 0)>>

Init ==
    /\ \E b \in Boards, s \in Coord, p \in Player :
        \E pretend \in {{}, {s}}, blocked \in {{}} \cup {{c} : c \in Neighbors(s)} :
            call = [board |-> b, start |-> s, player |-> p,
                    pretend |-> pretend, blocked |-> blocked]
    /\ LibertiesCall(call) \/ CaptureCall(call)
    /\ pc = "pop"
    /\ stack = <<call.start>>
    /\ group = {call.start}
    /\ visited = {}
    /\ libertyVisited = {}
    /\ liberties = 0
    /\ current = call.start
    /\ side = 1

-----------------------------------------------------------------------------
\* The while loop pops a point: a new one is marked and its sides scanned.
PopPoint ==
    /\ pc = "pop"
    /\ stack # <<>>
    /\ stack' = SubSeq(stack, 1, Len(stack) - 1)
    /\ current' = stack[Len(stack)]
    /\ UNCHANGED <<call, libertyVisited, group, liberties>>

visitPoint ==
    /\ PopPoint
    /\ current' \notin visited
    /\ visited' = visited \cup {current'}
    /\ pc' = "scan"
    /\ side' = 1

\* A mutation of skipPoint: the point is looked at but stays on the stack.
SkipWithoutPop ==
    /\ pc = "pop"
    /\ stack # <<>>
    /\ stack[Len(stack)] \in visited
    /\ UNCHANGED vars

skipPoint ==
    /\ PopPoint
    /\ current' \in visited
    /\ UNCHANGED <<visited, pc, side>>

\* The for loop goes on to the next side, or back to the while loop.
NextSide ==
    /\ pc = "scan"
    /\ side' = IF side < 4 THEN side + 1 ELSE 1
    /\ pc' = IF side < 4 THEN "scan" ELSE "pop"
    /\ UNCHANGED <<call, visited, current>>

\* A mutation of pushStone: only the first two directions are followed.
PushHorizontally ==
    LET n == SideOf(current, side)
    IN  /\ NextSide
        /\ n \in Own \ visited
        /\ IF side < 3
           THEN stack' = Append(stack, n) /\ group' = group \cup {n}
           ELSE UNCHANGED <<stack, group>>
        /\ UNCHANGED <<libertyVisited, liberties>>

\* A stone of the group not visited yet is pushed.
pushStone ==
    LET n == SideOf(current, side)
    IN  /\ NextSide
        /\ n \in Own \ visited
        /\ stack' = Append(stack, n)
        /\ group' = group \cup {n}
        /\ UNCHANGED <<libertyVisited, liberties>>

\* A mutation of countLiberty: a point next to two stones counts twice.
CountTwice ==
    LET n == SideOf(current, side)
    IN  /\ NextSide
        /\ n \in Coord \ Own
        /\ Breathes(n)
        /\ libertyVisited' = libertyVisited \cup {n}
        /\ liberties' = liberties + 1
        /\ UNCHANGED <<stack, group>>

\* A liberty met for the first time is counted.
countLiberty ==
    LET n == SideOf(current, side)
    IN  /\ NextSide
        /\ n \in Coord \ Own
        /\ Breathes(n) /\ n \notin libertyVisited
        /\ libertyVisited' = libertyVisited \cup {n}
        /\ liberties' = liberties + 1
        /\ UNCHANGED <<stack, group>>

\* Off the board, a visited stone, an enemy stone, a blocked or known liberty.
passBy ==
    LET n == SideOf(current, side)
    IN  /\ NextSide
        /\ n \notin Own \ visited
        /\ ~ (n \in Coord \ Own /\ Breathes(n) /\ n \notin libertyVisited)
        /\ UNCHANGED <<stack, group, libertyVisited, liberties>>

returnLiberties ==
    /\ pc = "pop"
    /\ stack = <<>>
    /\ pc' = "done"
    /\ UNCHANGED <<call, stack, visited, libertyVisited, group, liberties, current, side>>

Step == visitPoint \/ skipPoint \/ pushStone \/ countLiberty \/ passBy \/ returnLiberties

Terminated == pc = "done" /\ UNCHANGED vars

Next == Step \/ Terminated

\* The caller waits for the result, so the search is run to its end.
Spec == Init /\ [][Next]_vars /\ WF_vars(Step)

-----------------------------------------------------------------------------
(* Properties.                                                             *)

OnStack == {stack[i] : i \in 1 .. Len(stack)}

TypeOK ==
    /\ call \in Arguments
    /\ pc \in {"pop", "scan", "done"}
    /\ stack \in Seq(Coord)
    /\ visited \subseteq Coord
    /\ libertyVisited \subseteq Coord
    /\ group \subseteq Coord
    /\ liberties \in 0 .. Cardinality(Coord)
    /\ current \in Coord
    /\ side \in 1 .. 4

\* What the search returns is the connected group of the start.
GroupIsConnectedGroup ==
    pc = "done" => group = Group(Own, call.start)

\* The count it returns is the number of distinct liberties of that group.
LibertiesAreCounted ==
    pc = "done" =>
        liberties = Cardinality(Liberties(call.board, group, Own, call.blocked))

\* The search ends: a point is visited once, and only unvisited ones are pushed.
SearchEnds == <>(pc = "done")
=============================================================================
