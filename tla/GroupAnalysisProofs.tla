------------------------- MODULE GroupAnalysisProofs -------------------------
(***************************************************************************)
(* For every size of the board, every board and every call: when the       *)
(* search returns, it returns the connected group of the start and the     *)
(* number of that group's liberties.                                       *)
(*                                                                         *)
(* The search keeps everything it has met in two places, visited and the   *)
(* stack.  All of it belongs to the group, and a visited point has all its *)
(* neighbours of the group in one of the two, except those of the point    *)
(* being scanned that lie on a side not looked at yet.  When the stack is  *)
(* empty, visited is therefore closed, and the group lies in every closed  *)
(* set that contains the start.                                            *)
(***************************************************************************)
EXTENDS GroupAnalysis, FiniteSetTheorems, SequenceTheorems, TLAPS

\* The neighbours of the visited points on the sides already looked at.
Scanned == {n \in Coord : \E v \in visited, i \in 1 .. 4 :
                /\ n = SideOf(v, i)
                /\ ~ (pc = "scan" /\ v = current /\ i >= side)}

SearchInv ==
    /\ group = visited \cup OnStack
    /\ call.start \in group
    /\ group \subseteq Group(Own, call.start)
    /\ Scanned \cap Own \subseteq group
    /\ libertyVisited = {n \in Scanned : n \notin Own /\ Breathes(n)}
    /\ liberties = Cardinality(libertyVisited)
    /\ pc = "scan" => current \in visited
    /\ pc = "done" => stack = <<>>
    /\ call.start \in Own

\* TypeOK, with the counter left to SearchInv.
SearchTypeOK ==
    /\ call \in Arguments
    /\ pc \in {"pop", "scan", "done"}
    /\ stack \in Seq(Coord)
    /\ visited \subseteq Coord
    /\ libertyVisited \subseteq Coord
    /\ group \subseteq Coord
    /\ current \in Coord
    /\ side \in 1 .. 4

IInv == SearchTypeOK /\ SearchInv

-----------------------------------------------------------------------------
LEMMA CoordFinite == IsFiniteSet(Coord)
  <1>1. IsFiniteSet(0 .. Size - 1)
    BY FS_Interval, SizeAssumption
  <1>2. QED
    BY <1>1, FS_Product DEF Coord

\* The four sides of a point are its neighbours, off the board excepted.
LEMMA SidesAreNeighbors ==
  ASSUME NEW c \in Coord
  PROVE  Neighbors(c) = {n \in Coord : \E i \in 1 .. 4 : n = SideOf(c, i)}
  <1>1. ASSUME NEW n \in Coord
        PROVE  n \in Neighbors(c) <=> \E i \in 1 .. 4 : n = SideOf(c, i)
    <2>1. PICK a \in 0 .. Size - 1, b \in 0 .. Size - 1 : c = <<a, b>>
      BY DEF Coord
    <2>2. PICK x \in 0 .. Size - 1, y \in 0 .. Size - 1 : n = <<x, y>>
      BY DEF Coord
    <2>3. /\ SideOf(c, 1) = <<a + 1, b>>  /\ SideOf(c, 2) = <<a - 1, b>>
          /\ SideOf(c, 3) = <<a, b + 1>>  /\ SideOf(c, 4) = <<a, b - 1>>
      BY <2>1, SizeAssumption DEF SideOf
    <2>4. n \in Neighbors(c) <=> \/ x = a /\ (y = b + 1 \/ y = b - 1)
                                 \/ y = b /\ (x = a + 1 \/ x = a - 1)
      BY <2>1, <2>2 DEF Neighbors
    <2>5. (\E i \in 1 .. 4 : n = SideOf(c, i))
            <=> \/ n = SideOf(c, 1) \/ n = SideOf(c, 2)
                \/ n = SideOf(c, 3) \/ n = SideOf(c, 4)
      OBVIOUS
    <2>6. QED
      BY <2>2, <2>3, <2>4, <2>5
  <1>2. QED
    BY <1>1 DEF Neighbors

\* Popping the last point of a stack takes it away and nothing else.
LEMMA PopLast ==
  ASSUME NEW s \in Seq(Coord), s # <<>>,
         NEW t, t = SubSeq(s, 1, Len(s) - 1)
  PROVE  /\ t \in Seq(Coord)
         /\ s[Len(s)] \in Coord
         /\ {s[i] : i \in 1 .. Len(s)} = {t[i] : i \in 1 .. Len(t)} \cup {s[Len(s)]}
  <1>1. Len(s) \in Nat /\ Len(s) > 0 /\ s[Len(s)] \in Coord
    OBVIOUS
  <1>2. t \in Seq(Coord) /\ Len(t) = Len(s) - 1 /\ \A i \in 1 .. Len(t) : t[i] = s[i]
    <2>1. \A i \in 1 .. Len(s) - 1 : s[i] \in Coord
      BY <1>1
    <2>2. DEFINE m == Len(s) - 1
    <2>3. m \in Nat
      BY <1>1
    <2>4. /\ SubSeq(s, 1, m) \in Seq(Coord)
          /\ Len(SubSeq(s, 1, m)) = IF 1 <= m THEN m - 1 + 1 ELSE 0
          /\ \A i \in 1 .. m - 1 + 1 : SubSeq(s, 1, m)[i] = s[1 + i - 1]
      <3>1. \A i \in 1 .. m : s[i] \in Coord
        BY <2>1
      <3> HIDE DEF m
      <3>2. QED
        BY <2>3, <3>1, SubSeqProperties
    <2>5. t = SubSeq(s, 1, m)
      OBVIOUS
    <2>6. QED
      <3> HIDE DEF m
      <3>1. \A i \in 1 .. m : i \in 1 .. m - 1 + 1 /\ 1 + i - 1 = i
        BY <2>3
      <3>2. t \in Seq(Coord) /\ Len(t) = m /\ \A i \in 1 .. m : t[i] = s[i]
        BY <2>3, <2>4, <2>5, <3>1
      <3>3. QED
        BY <3>2 DEF m
  <1>3. ASSUME NEW i \in 1 .. Len(s)
        PROVE  i = Len(s) \/ (i \in 1 .. Len(t) /\ t[i] = s[i])
    BY <1>1, <1>2
  <1>4. \A i \in 1 .. Len(t) : i \in 1 .. Len(s) /\ t[i] = s[i]
    BY <1>1, <1>2
  <1>5. Len(s) \in 1 .. Len(s)
    BY <1>1
  <1>6. QED
    BY <1>1, <1>2, <1>3, <1>4, <1>5

\* Pushing a point adds it and nothing else.
LEMMA PushLast ==
  ASSUME NEW s \in Seq(Coord), NEW c \in Coord,
         NEW t, t = Append(s, c)
  PROVE  /\ t \in Seq(Coord)
         /\ {t[i] : i \in 1 .. Len(t)} = {s[i] : i \in 1 .. Len(s)} \cup {c}
  <1>1. /\ t \in Seq(Coord) /\ Len(t) = Len(s) + 1 /\ t[Len(t)] = c
        /\ \A i \in 1 .. Len(s) : t[i] = s[i]
    OBVIOUS
  <1>2. Len(s) \in Nat
    OBVIOUS
  <1>3. ASSUME NEW i \in 1 .. Len(t)
        PROVE  (i = Len(t) /\ t[i] = c) \/ (i \in 1 .. Len(s) /\ t[i] = s[i])
    BY <1>1, <1>2
  <1>4. (\A i \in 1 .. Len(s) : i \in 1 .. Len(t)) /\ Len(t) \in 1 .. Len(t)
    BY <1>1, <1>2
  <1>5. QED
    BY <1>1, <1>3, <1>4

-----------------------------------------------------------------------------
(* The group as the least closed set.                                      *)

LEMMA GroupHasStart ==
  ASSUME NEW own, NEW start \in own
  PROVE  start \in Group(own, start)
  BY DEF Group

\* A stone next to the group belongs to it.
LEMMA GroupIsClosed ==
  ASSUME NEW own, NEW start, NEW c \in Group(own, start),
         NEW n \in own, n \in Neighbors(c)
  PROVE  n \in Group(own, start)
  <1>1. SUFFICES ASSUME NEW S \in SUBSET own, start \in S, ClosedIn(S, own)
                 PROVE  n \in S
    BY DEF Group
  <1>2. c \in S
    BY <1>1 DEF Group
  <1>3. QED
    BY <1>1, <1>2 DEF ClosedIn

\* Every closed set with the start contains the group.
LEMMA GroupIsLeast ==
  ASSUME NEW own, NEW start, NEW S \in SUBSET own, start \in S, ClosedIn(S, own)
  PROVE  Group(own, start) \subseteq S
  BY DEF Group

-----------------------------------------------------------------------------
(* The steps of the search.                                                *)

\* A step of the for loop has looked at one side more of the current point.
LEMMA OneSideMore ==
  ASSUME IInv, NextSide
  PROVE  Scanned' = Scanned \cup {n \in Coord : n = SideOf(current, side)}
  <1>1. /\ side \in 1 .. 4 /\ current \in visited /\ pc = "scan"
        /\ visited' = visited /\ current' = current
    BY DEF IInv, SearchTypeOK, SearchInv, NextSide
  <1>2. ASSUME NEW i \in 1 .. 4
        PROVE  (pc' = "scan" /\ i >= side') <=> (i >= side /\ i # side)
    <2>1. CASE side < 4
      BY <2>1, <1>1 DEF NextSide
    <2>2. CASE ~ (side < 4)
      BY <2>2, <1>1 DEF NextSide
    <2>3. QED
      BY <2>1, <2>2
  <1>3. ASSUME NEW n \in Coord
        PROVE  n \in Scanned' <=> n \in Scanned \/ n = SideOf(current, side)
    <2>1. n \in Scanned' <=> \E v \in visited, i \in 1 .. 4 :
                                /\ n = SideOf(v, i)
                                /\ ~ (v = current /\ i >= side /\ i # side)
      BY <1>1, <1>2 DEF Scanned, SideOf
    <2>2. n \in Scanned <=> \E v \in visited, i \in 1 .. 4 :
                               n = SideOf(v, i) /\ ~ (v = current /\ i >= side)
      BY <1>1 DEF Scanned
    <2>3. QED
      BY <2>1, <2>2, <1>1
  <1>4. Scanned \subseteq Coord /\ Scanned' \subseteq Coord
    BY DEF Scanned
  <1>5. QED
    BY <1>3, <1>4

\* Popping moves the top of the stack to current, and touches nothing else.
LEMMA PopMovesTop ==
  ASSUME IInv, PopPoint
  PROVE  /\ stack' \in Seq(Coord)
         /\ current' \in Coord
         /\ OnStack = OnStack' \cup {current'}
  <1>1. stack \in Seq(Coord) /\ stack # <<>>
    BY DEF IInv, SearchTypeOK, PopPoint
  <1>2. stack' = SubSeq(stack, 1, Len(stack) - 1) /\ current' = stack[Len(stack)]
    BY DEF PopPoint
  <1>3. QED
    BY <1>1, <1>2, PopLast DEF OnStack

LEMMA InitEstablishesIInv == Init => IInv
  <1>1. SUFFICES ASSUME Init PROVE IInv
    OBVIOUS
  <1>2. call \in Arguments /\ call.start \in Coord /\ call.start \in Own
    <2>1. PICK b \in Boards, s \in Coord, p \in Player :
            \E pretend \in {{}, {s}}, blocked \in {{}} \cup {{c} : c \in Neighbors(s)} :
              call = [board |-> b, start |-> s, player |-> p,
                      pretend |-> pretend, blocked |-> blocked]
      BY <1>1 DEF Init
    <2>2. PICK pretend \in {{}, {s}}, blocked \in {{}} \cup {{c} : c \in Neighbors(s)} :
            call = [board |-> b, start |-> s, player |-> p,
                    pretend |-> pretend, blocked |-> blocked]
      BY <2>1
    <2>3. call \in Arguments
      BY <2>2, BoardsAssumption DEF Arguments, Neighbors
    <2>4. call.start \in Own
      BY <1>1, <2>2 DEF Init, LibertiesCall, CaptureCall, Own, PlayerStones
    <2>5. QED
      BY <2>2, <2>3, <2>4
  <1>3. SearchTypeOK
    BY <1>1, <1>2 DEF Init, SearchTypeOK
  <1>4. OnStack = {call.start}
    BY <1>1 DEF Init, OnStack
  <1>5. Scanned = {}
    BY <1>1 DEF Init, Scanned
  <1>6. SearchInv
    BY <1>1, <1>2, <1>4, <1>5, GroupHasStart, FS_EmptySet DEF Init, SearchInv
  <1>7. QED
    BY <1>3, <1>6 DEF IInv

LEMMA StepKeepsIInv == IInv /\ [Next]_vars => IInv'
  <1> SUFFICES ASSUME IInv, [Next]_vars PROVE IInv'
    OBVIOUS
  <1> USE DEF IInv
  <1>0. Own' = Own /\ call' = call /\ (\A n : Breathes(n)' = Breathes(n))
    BY DEF Next, Step, Terminated, vars, PopPoint, visitPoint, skipPoint, NextSide,
           pushStone, countLiberty, passBy, returnLiberties, Own, Breathes
  <1>1. CASE visitPoint
    <2>1. PopPoint /\ pc = "pop" /\ current' \notin visited
      BY <1>1 DEF visitPoint, PopPoint
    <2>2. SearchTypeOK'
      BY <1>1, <2>1, PopMovesTop DEF visitPoint, PopPoint, SearchTypeOK
    <2>3. group' = visited' \cup OnStack'
      BY <1>1, <2>1, PopMovesTop DEF visitPoint, PopPoint, SearchInv
    <2>4. Scanned' = Scanned
      BY <1>1, <2>1 DEF visitPoint, Scanned, SideOf
    <2>5. SearchInv'
      BY <1>0, <1>1, <2>1, <2>3, <2>4 DEF visitPoint, PopPoint, SearchInv
    <2>6. QED
      BY <2>2, <2>5
  <1>2. CASE skipPoint
    <2>1. PopPoint /\ pc = "pop" /\ current' \in visited
      BY <1>2 DEF skipPoint, PopPoint
    <2>2. SearchTypeOK'
      BY <1>2, <2>1, PopMovesTop DEF skipPoint, PopPoint, SearchTypeOK
    <2>3. group' = visited' \cup OnStack'
      BY <1>2, <2>1, PopMovesTop DEF skipPoint, PopPoint, SearchInv
    <2>4. Scanned' = Scanned
      BY <1>2, <2>1 DEF skipPoint, Scanned, SideOf
    <2>5. SearchInv'
      BY <1>0, <1>2, <2>1, <2>3, <2>4 DEF skipPoint, PopPoint, SearchInv
    <2>6. QED
      BY <2>2, <2>5
  <1>3. ASSUME NextSide
        PROVE  /\ pc' \in {"pop", "scan"} /\ side' \in 1 .. 4
               /\ current' = current /\ visited' = visited /\ current \in visited
               /\ current \in group /\ group \subseteq Own
    <2>1. group \subseteq Own
      BY DEF SearchInv, Group
    <2>2. QED
      BY <1>3, <2>1 DEF NextSide, SearchTypeOK, SearchInv
  <1>4. CASE pushStone
    <2> DEFINE n == SideOf(current, side)
    <2>1. NextSide /\ n \in Own /\ n \in Coord /\ n \notin visited
      BY <1>4 DEF pushStone, Own, PlayerStones
    <2>2. stack' \in Seq(Coord) /\ OnStack' = OnStack \cup {n}
      BY <1>4, <2>1, PushLast DEF pushStone, SearchTypeOK, OnStack
    <2>3. SearchTypeOK'
      BY <1>3, <1>4, <2>1, <2>2 DEF pushStone, NextSide, SearchTypeOK
    <2>4. Scanned' = Scanned \cup {n}
      BY <2>1, OneSideMore
    <2>5. n \in Neighbors(current)
      BY <2>1, SidesAreNeighbors DEF SearchTypeOK
    <2>6. n \in Group(Own, call.start)
      BY <1>3, <2>1, <2>5, GroupIsClosed DEF SearchInv
    <2>7. SearchInv'
      BY <1>0, <1>3, <1>4, <2>1, <2>2, <2>4, <2>6 DEF pushStone, SearchInv
    <2>8. QED
      BY <2>3, <2>7
  <1>5. CASE countLiberty
    <2> DEFINE n == SideOf(current, side)
    <2>1. /\ NextSide /\ n \in Coord /\ n \notin Own
          /\ Breathes(n) /\ n \notin libertyVisited
      BY <1>5 DEF countLiberty
    <2>2. OnStack' = OnStack
      BY <1>5 DEF countLiberty, OnStack
    <2>3. SearchTypeOK'
      BY <1>3, <1>5, <2>1 DEF countLiberty, NextSide, SearchTypeOK
    <2>4. Scanned' = Scanned \cup {n}
      BY <2>1, OneSideMore
    <2>5. libertyVisited' = {m \in Scanned' : m \notin Own' /\ Breathes(m)'}
      BY <1>0, <1>5, <2>1, <2>4 DEF countLiberty, SearchInv
    <2>6. liberties' = Cardinality(libertyVisited')
      <3>1. IsFiniteSet(libertyVisited)
        BY CoordFinite, FS_Subset DEF SearchTypeOK
      <3>2. QED
        BY <1>5, <2>1, <3>1, FS_AddElement DEF countLiberty, SearchInv
    <2>7. SearchInv'
      BY <1>0, <1>3, <1>5, <2>1, <2>2, <2>4, <2>5, <2>6 DEF countLiberty, SearchInv
    <2>8. QED
      BY <2>3, <2>7
  <1>6. CASE passBy
    <2> DEFINE n == SideOf(current, side)
    <2>1. /\ NextSide /\ n \notin Own \ visited
          /\ ~ (n \in Coord \ Own /\ Breathes(n) /\ n \notin libertyVisited)
      BY <1>6 DEF passBy
    <2>2. OnStack' = OnStack
      BY <1>6 DEF passBy, OnStack
    <2>3. SearchTypeOK'
      BY <1>3, <1>6, <2>1 DEF passBy, NextSide, SearchTypeOK
    <2>4. Scanned' = Scanned \cup {m \in Coord : m = n}
      BY <2>1, OneSideMore
    <2>5. libertyVisited' = {m \in Scanned' : m \notin Own' /\ Breathes(m)'}
      BY <1>0, <1>6, <2>1, <2>4 DEF passBy, SearchInv
    <2>6. Scanned' \cap Own \subseteq group
      BY <2>1, <2>4 DEF SearchInv
    <2>7. SearchInv'
      BY <1>0, <1>3, <1>6, <2>1, <2>2, <2>5, <2>6 DEF passBy, SearchInv
    <2>8. QED
      BY <2>3, <2>7
  <1>7. CASE returnLiberties
    <2>1. OnStack' = OnStack /\ Scanned' = Scanned
      BY <1>7 DEF returnLiberties, OnStack, Scanned, SideOf
    <2>2. SearchTypeOK'
      BY <1>7 DEF returnLiberties, SearchTypeOK
    <2>3. SearchInv'
      BY <1>0, <1>7, <2>1 DEF returnLiberties, SearchInv
    <2>4. QED
      BY <2>2, <2>3
  <1>8. CASE UNCHANGED vars
    <2>1. OnStack' = OnStack /\ Scanned' = Scanned
      BY <1>8 DEF vars, OnStack, Scanned, SideOf
    <2>2. QED
      BY <1>0, <1>8, <2>1 DEF vars, SearchTypeOK, SearchInv
  <1>9. QED
    BY <1>1, <1>2, <1>4, <1>5, <1>6, <1>7, <1>8 DEF Next, Step, Terminated

-----------------------------------------------------------------------------
(* What the invariant means when the search is over.                       *)

LEMMA ReturnedGroup == IInv => GroupIsConnectedGroup
  <1> SUFFICES ASSUME IInv, pc = "done" PROVE group = Group(Own, call.start)
    BY DEF GroupIsConnectedGroup
  <1>1. group = visited /\ group \in SUBSET Own
    BY DEF IInv, SearchTypeOK, SearchInv, OnStack, Group
  <1>2. ClosedIn(group, Own)
    <2>1. SUFFICES ASSUME NEW s \in group, NEW n \in Neighbors(s) \cap Own
                   PROVE  n \in group
      BY DEF ClosedIn
    <2>2. n \in Coord /\ s \in Coord
      BY DEF Neighbors, IInv, SearchTypeOK
    <2>3. \E i \in 1 .. 4 : n = SideOf(s, i)
      BY <2>1, <2>2, SidesAreNeighbors
    <2>4. n \in Scanned
      BY <1>1, <2>2, <2>3 DEF Scanned
    <2>5. QED
      BY <2>1, <2>4 DEF IInv, SearchInv
  <1>3. QED
    BY <1>1, <1>2, GroupIsLeast DEF IInv, SearchInv

LEMMA ReturnedLiberties == IInv => LibertiesAreCounted
  <1> SUFFICES ASSUME IInv, pc = "done"
               PROVE  liberties = Cardinality(Liberties(call.board, group, Own, call.blocked))
    BY DEF LibertiesAreCounted
  <1>1. group = visited /\ visited \subseteq Coord
    BY DEF IInv, SearchTypeOK, SearchInv, OnStack
  <1>2. ASSUME NEW n \in Coord
        PROVE  n \in Scanned <=> \E c \in group : n \in Neighbors(c)
    <2>1. n \in Scanned <=> \E v \in visited : \E i \in 1 .. 4 : n = SideOf(v, i)
      BY DEF Scanned
    <2>2. QED
      BY <1>1, <2>1, SidesAreNeighbors
  <1>3. libertyVisited = Liberties(call.board, group, Own, call.blocked)
    BY <1>2 DEF IInv, SearchInv, Liberties, Breathes, Scanned
  <1>4. QED
    BY <1>3 DEF IInv, SearchInv

LEMMA SearchTypes == IInv => TypeOK
  <1> SUFFICES ASSUME IInv PROVE liberties \in 0 .. Cardinality(Coord)
    BY DEF IInv, SearchTypeOK, TypeOK
  <1>1. libertyVisited \in SUBSET Coord /\ liberties = Cardinality(libertyVisited)
    BY DEF IInv, SearchTypeOK, SearchInv
  <1>2. IsFiniteSet(libertyVisited) /\ Cardinality(libertyVisited) <= Cardinality(Coord)
    BY <1>1, CoordFinite, FS_Subset
  <1>3. Cardinality(libertyVisited) \in Nat /\ Cardinality(Coord) \in Nat
    BY <1>2, CoordFinite, FS_CardinalityType
  <1>4. QED
    BY <1>1, <1>2, <1>3

\* The search of groupAnalysis keeps its data in range on every board.
THEOREM SearchTypeCorrect == Spec => []TypeOK
  BY InitEstablishesIInv, StepKeepsIInv, SearchTypes, PTL DEF Spec

\* The stones returned by groupAnalysis are the connected group of the start,
\* on a board of any size.
THEOREM SearchFindsGroup == Spec => []GroupIsConnectedGroup
  BY InitEstablishesIInv, StepKeepsIInv, ReturnedGroup, PTL DEF Spec

\* The count returned by groupAnalysis is the number of its liberties, each
\* counted once, on a board of any size.
THEOREM SearchCountsLiberties == Spec => []LibertiesAreCounted
  BY InitEstablishesIInv, StepKeepsIInv, ReturnedLiberties, PTL DEF Spec
=============================================================================
