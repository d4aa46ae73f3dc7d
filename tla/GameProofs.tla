----------------------------- MODULE GameProofs -----------------------------
(***************************************************************************)
(* For every board size and every sequence of events: what the rules       *)
(* promise, and the safety properties of the loop.                         *)
(*                                                                         *)
(* The position after a move is a position, its hash is the hash of its    *)
(* board, and a legal move leaves every group on the board with a liberty. *)
(*                                                                         *)
(* None of the latter is inductive alone. That the hash matches the board  *)
(* needs the move to fall on an empty point; that the remembered           *)
(* situations are as many as the positions needs the current one to be     *)
(* among them; that the deltas are in order needs the number of deltas to  *)
(* be the number of the position while the game is active, and at most one *)
(* more after it. That the deltas rebuild the board is shown without an    *)
(* induction over them: the boards they lead to are followed along the     *)
(* steps.                                                                  *)
(***************************************************************************)
EXTENDS Game, FiniteSetTheorems, SequenceTheorems, TLAPS

-----------------------------------------------------------------------------
(* The rules: groups, captures, hashes.                                    *)

LEMMA CoordFinite == IsFiniteSet(Coord)
  <1>1. IsFiniteSet(0 .. Size - 1)
    BY FS_Interval, SizeAssumption
  <1>2. QED
    BY <1>1, FS_Product DEF Coord

LEMMA OpponentFacts ==
  ASSUME NEW p \in Player
  PROVE  opponent(p) \in Player /\ opponent(p) # p /\ opponent(opponent(p)) = p
  BY DEF Player, opponent

LEMMA EmptyIsNoPlayer == \A p \in Player : p # Empty /\ p \in Stone
  BY DEF Player, Empty, Stone

LEMMA NeighborsSymmetric ==
  ASSUME NEW c \in Coord, NEW n \in Coord
  PROVE  n \in Neighbors(c) <=> c \in Neighbors(n)
  <1>1. c[1] \in Int /\ c[2] \in Int /\ n[1] \in Int /\ n[2] \in Int
    BY SizeAssumption DEF Coord
  <1>2. QED
    BY <1>1 DEF Neighbors

LEMMA NoOwnNeighbor ==
  ASSUME NEW c \in Coord
  PROVE  c \notin Neighbors(c)
  <1>1. c[1] \in Int /\ c[2] \in Int
    BY SizeAssumption DEF Coord
  <1>2. QED
    BY <1>1 DEF Neighbors

-----------------------------------------------------------------------------
(* Groups.                                                                 *)

LEMMA GroupBasics ==
  ASSUME NEW own, NEW s \in own
  PROVE  s \in Group(own, s) /\ Group(own, s) \subseteq own
  BY DEF Group

LEMMA GroupClosed ==
  ASSUME NEW own, NEW s, NEW c \in Group(own, s), NEW n \in own, n \in Neighbors(c)
  PROVE  n \in Group(own, s)
  <1>1. SUFFICES ASSUME NEW S \in SUBSET own, s \in S, ClosedIn(S, own)
                 PROVE  n \in S
    BY DEF Group
  <1>2. c \in S
    BY <1>1 DEF Group
  <1>3. QED
    BY <1>1, <1>2 DEF ClosedIn

LEMMA GroupLeast ==
  ASSUME NEW own, NEW s, NEW S \in SUBSET own, s \in S, ClosedIn(S, own)
  PROVE  Group(own, s) \subseteq S
  BY DEF Group

LEMMA GroupClosedIn ==
  ASSUME NEW own, NEW s
  PROVE  ClosedIn(Group(own, s), own)
  BY GroupClosed DEF ClosedIn

\* Being connected is symmetric: the rest of a closed set is closed.
LEMMA GroupSymmetric ==
  ASSUME NEW own \in SUBSET Coord, NEW s \in own, NEW c \in Group(own, s)
  PROVE  s \in Group(own, c)
  <1>1. SUFFICES ASSUME NEW S \in SUBSET own, c \in S, ClosedIn(S, own), s \notin S
                 PROVE  FALSE
    BY DEF Group
  <1>2. ClosedIn(own \ S, own)
    <2>1. SUFFICES ASSUME NEW a \in own \ S, NEW b \in Neighbors(a) \cap own, b \in S
                   PROVE  FALSE
      BY DEF ClosedIn
    <2>2. a \in Neighbors(b)
      BY <2>1, NeighborsSymmetric
    <2>3. QED
      BY <1>1, <2>1, <2>2 DEF ClosedIn
  <1>3. Group(own, s) \subseteq own \ S
    BY <1>1, <1>2, GroupLeast
  <1>4. QED
    BY <1>1, <1>3

\* The group is the same whichever of its stones the search starts from.
LEMMA GroupOfMember ==
  ASSUME NEW own \in SUBSET Coord, NEW s \in own, NEW c \in Group(own, s)
  PROVE  Group(own, c) = Group(own, s)
  <1>1. c \in own /\ s \in Group(own, c)
    BY GroupSymmetric, GroupBasics
  <1>2. Group(own, s) \in SUBSET own /\ Group(own, c) \in SUBSET own
    BY <1>1, GroupBasics
  <1>3. ClosedIn(Group(own, s), own) /\ ClosedIn(Group(own, c), own)
    BY GroupClosedIn
  <1>4. Group(own, c) \subseteq Group(own, s)
    BY <1>2, <1>3, GroupLeast
  <1>5. Group(own, s) \subseteq Group(own, c)
    BY <1>1, <1>2, <1>3, GroupLeast
  <1>6. QED
    BY <1>4, <1>5

\* A group that lies in two sets of stones, closed in the larger one, is the
\* same in both.
LEMMA GroupInSubset ==
  ASSUME NEW own \in SUBSET Coord, NEW less \in SUBSET own, NEW s \in less,
         Group(own, s) \subseteq less
  PROVE  Group(less, s) = Group(own, s)
  <1>1. Group(own, s) \subseteq Group(less, s)
    <2>1. Group(less, s) \in SUBSET own /\ s \in Group(less, s)
      BY GroupBasics
    <2>2. SUFFICES ASSUME NEW S \in SUBSET less, s \in S, ClosedIn(S, less)
                   PROVE  Group(own, s) \subseteq S
      BY DEF Group
    <2>3. S \cap Group(own, s) \in SUBSET own /\ s \in S \cap Group(own, s)
      BY <2>2, GroupBasics
    <2>4. ClosedIn(S \cap Group(own, s), own)
      <3>1. SUFFICES ASSUME NEW a \in S, a \in Group(own, s), NEW b \in own, b \in Neighbors(a)
                     PROVE  b \in S /\ b \in Group(own, s)
        BY DEF ClosedIn
      <3>2. b \in Group(own, s)
        BY <3>1, GroupClosed
      <3>3. QED
        BY <2>2, <3>1, <3>2 DEF ClosedIn
    <2>5. QED
      BY <2>3, <2>4, GroupLeast
  <1>2. Group(less, s) \subseteq Group(own, s)
    <2>1. Group(own, s) \in SUBSET less /\ s \in Group(own, s)
      BY GroupBasics
    <2>2. ClosedIn(Group(own, s), less)
      BY GroupClosed DEF ClosedIn
    <2>3. QED
      BY <2>1, <2>2, GroupLeast
  <1>3. QED
    BY <1>1, <1>2

-----------------------------------------------------------------------------
(* Captures, in terms of the sets of points alone: own are the stones that *)
(* may be captured by a stone at c, K those that are.                      *)

CaptureOf(board, c, own, K) ==
    /\ own \subseteq Coord
    /\ K \subseteq own
    /\ \A d : d \in K <=>
          \E n \in Neighbors(c) : /\ n \in own
                                  /\ Liberties(board, Group(own, n), own, {c}) = {}
                                  /\ d \in Group(own, n)

\* The captured stones are the groups next to the move that only breathe there.
LEMMA CapturedMeaning ==
  ASSUME NEW board, NEW c \in Coord, NEW p \in Player
  PROVE  CaptureOf(board, c, PlayerStones(board, opponent(p), {}),
                   CapturedBy(board, c, p))
  <1> DEFINE own == PlayerStones(board, opponent(p), {})
             K   == CapturedBy(board, c, p)
  <1>1. own \subseteq Coord /\ \A n : n \in own <=> n \in Coord /\ board[n] = opponent(p)
    BY DEF PlayerStones
  <1> DEFINE at(n) == groupAnalysis(board, n, opponent(p), {}, {c})
  <1>2. ASSUME NEW n \in own
        PROVE  /\ at(n).group = Group(own, n)
               /\ at(n).liberties = Liberties(board, Group(own, n), own, {c})
    BY DEF groupAnalysis
  <1>3. \A n : Group(own, n) \subseteq own
    BY DEF Group
  <1>4. \A n \in Neighbors(c) : n \in Coord
    BY DEF Neighbors
  <1>5. ASSUME NEW d
        PROVE  d \in K <=>
                 \E n \in Neighbors(c) :
                    /\ n \in own
                    /\ Liberties(board, Group(own, n), own, {c}) = {}
                    /\ d \in Group(own, n)
    <2>1. d \in K <=> \E n \in Neighbors(c) : /\ board[n] = opponent(p)
                                             /\ at(n).liberties = {}
                                             /\ d \in at(n).group
      BY DEF CapturedBy
    <2> HIDE DEF own, K, at
    <2>2. \A n \in Neighbors(c) : n \in own <=> board[n] = opponent(p)
      BY <1>1, <1>4
    <2>3. QED
      BY <1>2, <2>1, <2>2
  <1>6. K \subseteq own
    <2> HIDE DEF own, K
    <2>1. QED
      BY <1>3, <1>5
  <1>7. QED
    <2> HIDE DEF own, K
    <2>1. CaptureOf(board, c, own, K)
      BY <1>1, <1>5, <1>6 DEF CaptureOf
    <2>2. QED
      BY <2>1 DEF own, K

\* A group is captured as a whole.
LEMMA CapturedWhole ==
  ASSUME NEW board, NEW c, NEW own, NEW K, CaptureOf(board, c, own, K), NEW d \in K
  PROVE  Group(own, d) \subseteq K
  <1>1. PICK n \in Neighbors(c) :
          /\ n \in own /\ d \in Group(own, n)
          /\ Liberties(board, Group(own, n), own, {c}) = {}
    BY DEF CaptureOf
  <1>2. own \in SUBSET Coord
    BY DEF CaptureOf
  <1>3. Group(own, d) = Group(own, n)
    BY <1>1, <1>2, GroupOfMember
  <1>4. QED
    BY <1>1, <1>3 DEF CaptureOf

-----------------------------------------------------------------------------
(* Liberties after a move.                                                 *)

\* The points that are empty after a stone at c captured K.
EmptyAfter(board, next, c, K) ==
    \A e \in Coord : next[e] = Empty <=> e \in K \/ (e # c /\ board[e] = Empty)

Breathing(board, own) == \A d \in own : Liberties(board, Group(own, d), own, {}) # {}

\* The player's groups breathe when the new stone breathes or has captured.
LEMMA OwnGroupsBreathe ==
  ASSUME NEW board, NEW next, NEW c \in Coord, NEW enemy, NEW K,
         CaptureOf(board, c, enemy, K), EmptyAfter(board, next, c, K),
         NEW before \in SUBSET Coord, Breathing(board, before),
         NEW own, own = before \cup {c}, \A e \in own : next[e] # Empty,
         Liberties(board, Group(own, c), own, {}) # {} \/ K # {}
  PROVE  Breathing(next, own)
  <1> SUFFICES ASSUME NEW d \in own, NEW G, G = Group(own, d)
               PROVE  \E n \in Coord : n \in Liberties(next, G, own, {})
    BY DEF Breathing
  <1>1. G \subseteq own /\ d \in G /\ own \in SUBSET Coord
    BY GroupBasics
  <1>2. CASE c \in G
    <2>1. G = Group(own, c)
      BY <1>1, <1>2, GroupOfMember
    <2>2. CASE Liberties(board, Group(own, c), own, {}) # {}
      <3>1. PICK n \in Coord : /\ n \notin own /\ board[n] = Empty
                               /\ \E g \in G : n \in Neighbors(g)
        BY <2>1, <2>2 DEF Liberties
      <3>2. next[n] = Empty
        BY <3>1 DEF EmptyAfter
      <3>3. QED
        BY <3>1, <3>2 DEF Liberties
    <2>3. CASE K # {}
      <3>1. PICK n \in Neighbors(c) :
              n \in enemy /\ Liberties(board, Group(enemy, n), enemy, {c}) = {}
        BY <2>3 DEF CaptureOf
      <3>2. n \in Group(enemy, n) /\ n \in Coord
        BY <3>1, GroupBasics DEF Neighbors
      <3>3. n \in K
        BY <3>1, <3>2 DEF CaptureOf
      <3>4. next[n] = Empty /\ n \notin own
        BY <3>2, <3>3 DEF EmptyAfter
      <3>5. QED
        BY <1>2, <3>1, <3>2, <3>4 DEF Liberties
    <2>4. QED
      BY <2>2, <2>3
  <1>3. CASE c \notin G
    <2>1. d \in before /\ before \in SUBSET own /\ G \subseteq before
      BY <1>1, <1>3
    <2>2. G = Group(before, d)
      BY <1>1, <2>1, GroupInSubset
    <2>3. Liberties(board, Group(before, d), before, {}) # {}
      BY <2>1 DEF Breathing
    <2>4. PICK n \in Coord : /\ n \notin before /\ board[n] = Empty
                             /\ \E g \in G : n \in Neighbors(g)
      BY <2>2, <2>3 DEF Liberties
    <2>5. n # c
      <3>1. SUFFICES ASSUME NEW g \in G, c \in Neighbors(g) PROVE FALSE
        BY <2>4
      <3>2. c \in G
        BY <3>1, GroupClosed
      <3>3. QED
        BY <1>3, <3>2
    <2>6. next[n] = Empty /\ n \notin own
      BY <2>4, <2>5 DEF EmptyAfter
    <2>7. QED
      BY <2>4, <2>6 DEF Liberties
  <1>4. QED
    BY <1>2, <1>3

\* The enemy's groups that are not captured breathe after the move.
LEMMA EnemyGroupsBreathe ==
  ASSUME NEW board, NEW next, NEW c \in Coord, NEW before, NEW K,
         CaptureOf(board, c, before, K), EmptyAfter(board, next, c, K),
         Breathing(board, before),
         NEW own, own = before \ K
  PROVE  Breathing(next, own)
  <1> SUFFICES ASSUME NEW d \in own, NEW G, G = Group(before, d)
               PROVE  \E n \in Coord : n \in Liberties(next, Group(own, d), own, {})
    BY DEF Breathing
  <1>1. before \in SUBSET Coord /\ d \in before /\ d \notin K /\ d \in G /\ G \subseteq before
    BY GroupBasics DEF CaptureOf
  <1>2. G \cap K = {}
    <2>1. SUFFICES ASSUME NEW e \in G, e \in K PROVE FALSE
      OBVIOUS
    <2>2. d \in Group(before, e)
      BY <1>1, <2>1, GroupSymmetric
    <2>3. Group(before, e) \subseteq K
      BY <2>1, CapturedWhole
    <2>4. QED
      BY <1>1, <2>2, <2>3
  <1>3. G \subseteq own /\ own \in SUBSET before
    BY <1>1, <1>2
  <1>4. Group(own, d) = G
    BY <1>1, <1>3, GroupInSubset
  <1>5. PICK n \in Coord : /\ n \notin before /\ board[n] = Empty
                           /\ \E g \in G : n \in Neighbors(g)
    BY <1>1 DEF Breathing, Liberties
  <1>6. CASE n # c
    <2>1. next[n] = Empty /\ n \notin own
      BY <1>3, <1>5, <1>6 DEF EmptyAfter
    <2>2. QED
      BY <1>4, <1>5, <2>1 DEF Liberties
  <1>7. CASE n = c
    <2>1. PICK g \in G : c \in Neighbors(g)
      BY <1>5, <1>7
    <2>2. g \in before /\ g \in Coord /\ g \in Neighbors(c)
      BY <1>1, <2>1, NeighborsSymmetric
    <2>3. Group(before, g) = G
      BY <1>1, <2>1, GroupOfMember
    <2>4. Liberties(board, G, before, {c}) # {}
      BY <1>1, <2>2, <2>3 DEF CaptureOf
    <2>5. PICK m \in Coord : /\ m \notin before /\ board[m] = Empty /\ m # c
                             /\ \E h \in G : m \in Neighbors(h)
      BY <2>4 DEF Liberties
    <2>6. next[m] = Empty /\ m \notin own
      BY <1>3, <2>5 DEF EmptyAfter
    <2>7. QED
      BY <1>4, <2>5, <2>6 DEF Liberties
  <1>8. QED
    BY <1>6, <1>7

-----------------------------------------------------------------------------
(* The position after a move.                                              *)


LEMMA SimulatedBoard ==
  ASSUME NEW start \in Position, NEW c \in Coord, NEW p \in Player, start.board[c] = Empty,
         NEW next, next = simulatePosition(start, c, p).board,
         NEW K, K = CapturedBy(start.board, c, p)
  PROVE  /\ next \in Board
         /\ \A d \in Coord : next[d] = IF d = c THEN p
                                       ELSE IF d \in K THEN Empty ELSE start.board[d]
         /\ K \subseteq Coord
         /\ \A d \in K : start.board[d] = opponent(p) /\ d # c
  <1>1. K \subseteq PlayerStones(start.board, opponent(p), {})
    BY CapturedMeaning DEF CaptureOf
  <1>2. next = [d \in Coord |-> IF d = c THEN p
                                ELSE IF d \in K THEN Empty ELSE start.board[d]]
    BY DEF simulatePosition
  <1>3. start.board \in Board /\ p \in Stone /\ Empty \in Stone /\ opponent(p) # Empty
    BY OpponentFacts, EmptyIsNoPlayer DEF Position, Stone
  <1>4. next \in Board
    BY <1>2, <1>3 DEF Board
  <1>5. K \subseteq Coord /\ \A d \in K : start.board[d] = opponent(p)
    BY <1>1 DEF PlayerStones
  <1>6. QED
    BY <1>2, <1>3, <1>4, <1>5

\* AllBreathe, in terms of the stones of each player.
LEMMA BreatheByPlayer ==
  ASSUME NEW board \in Board
  PROVE  AllBreathe(board) <=> \A q \in Player : Breathing(board, PlayerStones(board, q, {}))
  <1>1. \A d \in Coord : board[d] # Empty <=> board[d] \in Player
    BY EmptyIsNoPlayer DEF Board, Stone
  <1>2. ASSUME NEW d \in Coord, NEW q \in Player, board[d] = q
        PROVE  groupAnalysis(board, d, q, {}, {}).liberties =
                 Liberties(board, Group(PlayerStones(board, q, {}), d),
                           PlayerStones(board, q, {}), {})
    BY <1>2 DEF groupAnalysis, PlayerStones
  <1>3. \A d, q : d \in PlayerStones(board, q, {}) <=> d \in Coord /\ board[d] = q
    BY DEF PlayerStones
  <1>4. QED
    BY <1>1, <1>2, <1>3 DEF AllBreathe, Breathing

\* A valid move on a board where every group has a liberty leads to another
\* such board: no suicide is accepted and no dead stone is left standing.
THEOREM ValidMoveBreathes ==
  ASSUME NEW start \in Position, AllBreathe(start.board),
         NEW c \in Coord, NEW p \in Player, isValidMove(start.board, p, c)
  PROVE  AllBreathe(simulatePosition(start, c, p).board)
  <1> DEFINE board  == start.board
             next   == simulatePosition(start, c, p).board
             K      == CapturedBy(board, c, p)
             enemy  == PlayerStones(board, opponent(p), {})
             before == PlayerStones(board, p, {})
  <1>1. board \in Board /\ board[c] = Empty
    BY DEF Position, isValidMove
  <1>2. /\ next \in Board
        /\ \A d \in Coord : next[d] = IF d = c THEN p
                                      ELSE IF d \in K THEN Empty ELSE board[d]
        /\ K \subseteq Coord
        /\ \A d \in K : board[d] = opponent(p) /\ d # c
    BY <1>1, SimulatedBoard
  <1>3. CaptureOf(board, c, enemy, K)
    BY CapturedMeaning
  <1>4. /\ Breathing(board, enemy) /\ Breathing(board, before)
    BY <1>1, BreatheByPlayer, OpponentFacts
  <1> DEFINE own == before \cup {c}
  <1>5. PlayerStones(board, p, {c}) = own /\ before \in SUBSET Coord /\ c \notin before
    BY <1>1, EmptyIsNoPlayer DEF PlayerStones
  <1>6. Liberties(board, Group(own, c), own, {}) # {} \/ K # {}
    <2>1. SUFFICES ASSUME Liberties(board, Group(own, c), own, {}) = {} PROVE K # {}
      OBVIOUS
    <2>2. groupAnalysis(board, c, p, {c}, {}).liberties = {}
      <3> HIDE DEF own
      <3>1. c \in own
        BY DEF own
      <3>2. QED
        BY <1>5, <2>1, <3>1 DEF groupAnalysis
    <2>3. computeGroupLiberties(board, c, p) = 0
      BY <2>2, FS_EmptySet DEF computeGroupLiberties
    <2>4. QED
      BY <2>3 DEF isValidMove, isSuicide, wouldCapture
  <1>7. EmptyAfter(board, next, c, K)
    <2> HIDE DEF next, K, board
    <2>1. QED
      BY <1>2, EmptyIsNoPlayer DEF EmptyAfter
  <1>8. PlayerStones(next, p, {}) = own
    <2> HIDE DEF next, K
    <2>1. QED
      BY <1>2, OpponentFacts, EmptyIsNoPlayer DEF PlayerStones
  <1>9. PlayerStones(next, opponent(p), {}) = enemy \ K
    <2> HIDE DEF next, K
    <2>1. QED
      BY <1>1, <1>2, OpponentFacts, EmptyIsNoPlayer DEF PlayerStones
  <1>10. Breathing(next, own)
    <2>1. \A e \in own : next[e] # Empty
      BY <1>8, EmptyIsNoPlayer DEF PlayerStones
    <2> HIDE DEF next, K, board, enemy, before
    <2>2. QED
      BY <1>3, <1>4, <1>5, <1>6, <1>7, <2>1, OwnGroupsBreathe
  <1>11. Breathing(next, enemy \ K)
    <2> HIDE DEF next, K, board, enemy, before
    <2>1. QED
      BY <1>3, <1>4, <1>7, EnemyGroupsBreathe
  <1>12. \A q \in Player : q = p \/ q = opponent(p)
    BY DEF Player, opponent
  <1>13. QED
    <2> HIDE DEF next, K, board, enemy, before, own
    <2>1. \A q \in Player : Breathing(next, PlayerStones(next, q, {}))
      BY <1>8, <1>9, <1>10, <1>11, <1>12
    <2>2. AllBreathe(next)
      BY <1>2, <2>1, BreatheByPlayer
    <2>3. QED
      BY <2>2 DEF next

-----------------------------------------------------------------------------
(* Positions and hashes.                                                   *)

LEMMA HashOfType ==
  ASSUME NEW board, NEW p
  PROVE  HashOf(board, p) \in Hash
  BY DEF HashOf, Hash

\* What the exclusive or of the keys of a move does to the set of stone keys.
LEMMA NextHashFields ==
  ASSUME NEW hash \in Hash, NEW c \in Coord, NEW p \in Player, NEW K \in SUBSET Coord
  PROVE  /\ NextHash(hash, c, p, K) \in Hash
         /\ \A d \in Coord, q \in Player :
              <<d, q>> \in NextHash(hash, c, p, K).stones <=>
                ((d \in K /\ q = opponent(p)) <=> ((d = c /\ q = p) <=> <<d, q>> \in hash.stones))
         /\ NextHash(hash, c, p, K).toggle <=> ~ hash.toggle
  <1> DEFINE next == NextHash(hash, c, p, K)
  <1>1. opponent(p) \in Player /\ <<c, p>> \in StoneKey /\ K \X {opponent(p)} \subseteq StoneKey
    BY OpponentFacts DEF StoneKey
  <1>2. \A h \in Hash, keys \in SUBSET StoneKey :
          /\ XorStones(h, keys) \in Hash
          /\ XorStones(h, keys).stones = SymDiff(h.stones, keys)
          /\ XorStones(h, keys).toggle = h.toggle
    BY DEF XorStones, Hash, SymDiff
  <1>3. \A h \in Hash : /\ XorToggle(h) \in Hash
                        /\ XorToggle(h).stones = h.stones
                        /\ XorToggle(h).toggle = ~ h.toggle
    BY DEF XorToggle, Hash
  <1> DEFINE placed  == XorStones(hash, {<<c, p>>})
             removed == XorStones(placed, K \X {opponent(p)})
  <1>4. placed \in Hash /\ removed \in Hash
    BY <1>1, <1>2
  <1>5. next = XorToggle(removed)
    BY DEF NextHash
  <1>6. /\ placed.stones = SymDiff(hash.stones, {<<c, p>>}) /\ placed.toggle = hash.toggle
        /\ removed.stones = SymDiff(placed.stones, K \X {opponent(p)})
        /\ removed.toggle = placed.toggle
    BY <1>1, <1>2, <1>4
  <1>7. QED
    <2> HIDE DEF placed, removed, next
    <2>1. next \in Hash /\ next.stones = removed.stones /\ next.toggle = ~ removed.toggle
      BY <1>3, <1>4, <1>5
    <2>2. /\ next \in Hash
          /\ next.stones = SymDiff(SymDiff(hash.stones, {<<c, p>>}), K \X {opponent(p)})
          /\ next.toggle <=> ~ hash.toggle
      BY <1>6, <2>1
    <2>3. ASSUME NEW d \in Coord, NEW q \in Player
          PROVE  <<d, q>> \in next.stones <=>
                   ((d \in K /\ q = opponent(p)) <=> ((d = c /\ q = p) <=> <<d, q>> \in hash.stones))
      <3>1. <<d, q>> \in SymDiff(hash.stones, {<<c, p>>}) <=>
              ~ ((d = c /\ q = p) <=> <<d, q>> \in hash.stones)
        BY DEF SymDiff
      <3>2. <<d, q>> \in K \X {opponent(p)} <=> d \in K /\ q = opponent(p)
        OBVIOUS
      <3>3. \A S, T, k : k \in SymDiff(S, T) <=> ~ (k \in S <=> k \in T)
        BY DEF SymDiff
      <3>4. <<d, q>> \in next.stones <=>
              ~ (<<d, q>> \in SymDiff(hash.stones, {<<c, p>>})
                   <=> <<d, q>> \in K \X {opponent(p)})
        BY <2>2, <3>3
      <3>5. QED
        BY <3>1, <3>2, <3>4
    <2>4. QED
      BY <2>2, <2>3 DEF next

\* A move leads from a position to a position, with the other player to move.
LEMMA SimulatedPosition ==
  ASSUME NEW start \in Position, NEW c \in Coord, NEW p \in Player, start.board[c] = Empty
  PROVE  /\ simulatePosition(start, c, p) \in Position
         /\ simulatePosition(start, c, p).currentPlayer = opponent(p)
         /\ simulatePosition(start, c, p).moveId = start.moveId + 1
         /\ simulatePosition(start, c, p).hash =
              NextHash(start.hash, c, p, CapturedBy(start.board, c, p))
  <1> DEFINE next == simulatePosition(start, c, p)
             K    == CapturedBy(start.board, c, p)
  <1>1. next.board \in Board /\ K \in SUBSET Coord
    BY SimulatedBoard
  <1>2. next = [board |-> next.board, currentPlayer |-> opponent(p),
                hash |-> NextHash(start.hash, c, p, K), moveId |-> start.moveId + 1]
    BY DEF simulatePosition
  <1>3. NextHash(start.hash, c, p, K) \in Hash
    <2>1. start.hash \in Hash
      BY DEF Position
    <2> HIDE DEF K
    <2>2. QED
      BY <1>1, <2>1, NextHashFields
  <1>4. start.moveId + 1 \in Nat /\ opponent(p) \in Player
    BY OpponentFacts DEF Position
  <1>5. QED
    <2> HIDE DEF next, K
    <2>1. next \in Position
      BY <1>1, <1>2, <1>3, <1>4 DEF Position
    <2>2. QED
      BY <1>2, <2>1 DEF next, K

\* The hash of a position that is the hash of its board stays so after a move:
\* the keys of the captured stones leave it with them.
THEOREM MoveKeepsHash ==
  ASSUME NEW start \in Position, NEW c \in Coord, NEW p \in Player,
         p = start.currentPlayer, start.board[c] = Empty,
         start.hash = HashOf(start.board, p),
         NEW next, next = simulatePosition(start, c, p)
  PROVE  next.hash = HashOf(next.board, next.currentPlayer)
  <1> DEFINE K == CapturedBy(start.board, c, p)
             o == opponent(p)
  <1>1. /\ next.board \in Board
        /\ \A d \in Coord : next.board[d] = IF d = c THEN p
                                            ELSE IF d \in K THEN Empty ELSE start.board[d]
        /\ K \in SUBSET Coord
        /\ \A d \in K : start.board[d] = o /\ d # c
    BY SimulatedBoard
  <1>2. next.currentPlayer = o /\ next.hash = NextHash(start.hash, c, p, K)
    BY SimulatedPosition
  <1>3. start.hash \in Hash
    BY DEF Position
  <1>4. o \in Player /\ o # p /\ (o = "White" <=> ~ (p = "White")) /\ p # Empty /\ o # Empty
    BY OpponentFacts, EmptyIsNoPlayer DEF Player, opponent
  <1>5. /\ next.hash \in Hash
        /\ \A d \in Coord, q \in Player :
             <<d, q>> \in next.hash.stones <=>
               ((d \in K /\ q = o) <=> ((d = c /\ q = p) <=> <<d, q>> \in start.hash.stones))
        /\ next.hash.toggle <=> ~ start.hash.toggle
    <2> HIDE DEF K
    <2>1. K \in SUBSET Coord
      BY <1>1
    <2>2. QED
      BY <1>2, <1>3, <2>1, NextHashFields
  <1> HIDE DEF K, o
  <1>6. start.hash.stones = {k \in StoneKey : start.board[k[1]] = k[2]}
        /\ start.hash.toggle = (p = "White")
    BY DEF HashOf
  <1>7. ASSUME NEW d \in Coord, NEW q \in Player
        PROVE  <<d, q>> \in next.hash.stones <=> next.board[d] = q
    <2>1. <<d, q>> \in start.hash.stones <=> start.board[d] = q
      BY <1>6 DEF StoneKey
    <2>2. <<d, q>> \in next.hash.stones <=>
            ((d \in K /\ q = o) <=> ((d = c /\ q = p) <=> start.board[d] = q))
      BY <1>5, <2>1
    <2>3. QED
      BY <1>1, <1>4, <2>2, EmptyIsNoPlayer
  <1>8. next.hash.stones = {k \in StoneKey : next.board[k[1]] = k[2]}
    <2>1. next.hash.stones \subseteq StoneKey
      BY <1>5 DEF Hash
    <2>2. \A k \in StoneKey : k = <<k[1], k[2]>> /\ k[1] \in Coord /\ k[2] \in Player
      BY DEF StoneKey
    <2>3. \A k \in StoneKey : k \in next.hash.stones <=> next.board[k[1]] = k[2]
      BY <1>7, <2>2
    <2>4. QED
      BY <2>1, <2>3
  <1>9. next.hash.toggle = (o = "White")
    BY <1>4, <1>5, <1>6 DEF Hash
  <1>10. next.hash = [stones |-> next.hash.stones, toggle |-> next.hash.toggle]
    BY <1>5 DEF Hash
  <1>11. QED
    BY <1>2, <1>8, <1>9, <1>10 DEF HashOf

\* The same of a pass, which changes nothing but the player to move.
LEMMA PassKeepsHash ==
  ASSUME NEW start \in Position,
         start.hash = HashOf(start.board, start.currentPlayer),
         NEW next, next = PassPosition(start)
  PROVE  /\ next \in Position
         /\ next.board = start.board
         /\ next.currentPlayer = opponent(start.currentPlayer)
         /\ next.moveId = start.moveId + 1
         /\ next.hash = HashOf(next.board, next.currentPlayer)
  <1>1. start.currentPlayer \in Player /\ start.hash \in Hash /\ start.moveId \in Nat
    BY DEF Position
  <1>2. /\ next.board = start.board
        /\ next.currentPlayer = opponent(start.currentPlayer)
        /\ next.moveId = start.moveId + 1
        /\ next.hash = XorToggle(start.hash)
    BY DEF PassPosition, Position
  <1>3. XorToggle(start.hash) \in Hash
    BY <1>1 DEF XorToggle, Hash
  <1>4. next \in Position
    <2>1. opponent(start.currentPlayer) \in Player /\ start.moveId + 1 \in Nat
      BY <1>1, OpponentFacts
    <2>2. start.board \in Board
      BY DEF Position
    <2>3. next = [board |-> next.board, currentPlayer |-> next.currentPlayer,
                  hash |-> next.hash, moveId |-> next.moveId]
      BY DEF PassPosition, Position
    <2>4. QED
      BY <1>2, <1>3, <2>1, <2>2, <2>3 DEF Position
  <1>5. XorToggle(start.hash) = HashOf(start.board, opponent(start.currentPlayer))
    <2>1. (opponent(start.currentPlayer) = "White") = ~ (start.currentPlayer = "White")
      BY <1>1 DEF opponent, Player
    <2>2. XorToggle(start.hash) =
            [stones |-> start.hash.stones, toggle |-> ~ start.hash.toggle]
      BY <1>1 DEF XorToggle, Hash
    <2>3. /\ start.hash.stones = {k \in StoneKey : start.board[k[1]] = k[2]}
          /\ start.hash.toggle = (start.currentPlayer = "White")
      BY DEF HashOf
    <2>4. QED
      BY <2>1, <2>2, <2>3 DEF HashOf
  <1>6. QED
    BY <1>2, <1>4, <1>5

-----------------------------------------------------------------------------
(* The invariant of the loop.                                              *)

\* The game has not ended: it is active or has not begun.
NotOver == gameThread = "none" \/ gameActive

\* The bookkeeping the properties need of one another.
Bookkeeping ==
    /\ IsFiniteSet(seenHashes)
    /\ gameThread = "none" => ~ gameActive
    /\ NotOver => consecutivePasses # 2
    /\ NotOver => Len(deltas) = position.moveId
    /\ NotOver => \A i \in 1 .. Len(deltas) : deltas[i].gameActive
    /\ position.currentPlayer = IF position.moveId % 2 = 0 THEN "Black" ELSE "White"

IInv == /\ TypeOK
        /\ Bookkeeping
        /\ HashMatchesSituation
        /\ NoSituationTwice
        /\ GroupsBreathe
        /\ DeltasInOrder

-----------------------------------------------------------------------------
LEMMA InitEstablishesIInv == Init => IInv
  <1> SUFFICES ASSUME Init PROVE IInv
    OBVIOUS
  <1>1. EmptyBoard \in Board /\ NoKeys \in Hash
    BY DEF EmptyBoard, Board, Stone, NoKeys, Hash
  <1>2. InitialPosition \in Position
    BY <1>1 DEF InitialPosition, Position, Player
  <1>3. /\ position = InitialPosition /\ position.hash = NoKeys /\ position.moveId = 0
        /\ position.board = EmptyBoard /\ position.currentPlayer = "Black"
    BY DEF Init, InitialPosition
  <1>4. TypeOK
    <2>1. eventQueue \in Seq(Event) /\ deltas \in Seq(Delta)
      BY EmptySeq DEF Init
    <2>2. seenHashes \in SUBSET Hash
      BY <1>1 DEF Init, InitialPosition
    <2>3. position \in Position
      BY <1>2, <1>3
    <2>4. gameThread \in {"none", "running", "ended"} /\ consecutivePasses \in 0 .. 2
      BY DEF Init
    <2>5. gameActive \in BOOLEAN
      BY Zenon DEF Init
    <2>6. QED
      BY <2>1, <2>2, <2>3, <2>4, <2>5 DEF TypeOK
  <1>5. IsFiniteSet(seenHashes) /\ Cardinality(seenHashes) = 1 /\ position.hash \in seenHashes
    BY <1>3, FS_Singleton DEF Init, InitialPosition
  <1>6. HashMatchesSituation
    <2>1. \A k \in StoneKey : EmptyBoard[k[1]] # k[2]
      BY EmptyIsNoPlayer DEF StoneKey, EmptyBoard
    <2>2. HashOf(EmptyBoard, "Black") = NoKeys
      BY <2>1 DEF HashOf, NoKeys
    <2>3. QED
      BY <1>3, <2>2 DEF HashMatchesSituation
  <1>7. GroupsBreathe
    BY <1>3 DEF GroupsBreathe, AllBreathe, EmptyBoard
  <1>8. Bookkeeping
    BY <1>3, <1>5 DEF Init, Bookkeeping, NotOver
  <1>9. NoSituationTwice
    BY <1>3, <1>5 DEF NoSituationTwice
  <1>10. DeltasInOrder
    BY DEF Init, DeltasInOrder
  <1>11. QED
    BY <1>4, <1>6, <1>7, <1>8, <1>9, <1>10 DEF IInv

-----------------------------------------------------------------------------
(* The two kinds of step: those that leave position and deltas alone, and  *)
(* those that send one more delta.                                         *)

LEMMA QueueTypes ==
  ASSUME NEW queue \in Seq(Event), queue # <<>>
  PROVE  Tail(queue) \in Seq(Event) /\ Head(queue) \in Event
  BY HeadTailProperties

\* A new situation is one more, and the last one is remembered.
LEMMA OneMoreSituation ==
  ASSUME IsFiniteSet(seenHashes), NEW next \in Position,
         Cardinality(seenHashes) = position.moveId + 1, position \in Position,
         next.moveId = position.moveId + 1, next.hash \notin seenHashes,
         position' = next, seenHashes' = seenHashes \cup {next.hash}
  PROVE  IsFiniteSet(seenHashes') /\ NoSituationTwice'
  <1>1. IsFiniteSet(seenHashes') /\ Cardinality(seenHashes') = Cardinality(seenHashes) + 1
    BY FS_AddElement
  <1>2. position.moveId \in Nat
    BY DEF Position
  <1>3. QED
    BY <1>1, <1>2 DEF NoSituationTwice

\* One more delta, with the next number and the player to move.
LEMMA OneMoreDelta ==
  ASSUME TypeOK, Bookkeeping, DeltasInOrder, NotOver,
         NEW delta \in Delta,
         delta.moveId = position.moveId + 1,
         delta.player = position.currentPlayer,
         delta.nextPlayer = opponent(position.currentPlayer),
         deltas' = Append(deltas, delta)
  PROVE  /\ deltas' \in Seq(Delta)
         /\ Len(deltas') = position.moveId + 1
         /\ DeltasInOrder'
         /\ delta.gameActive => \A i \in 1 .. Len(deltas') : deltas'[i].gameActive
  <1>1. /\ deltas \in Seq(Delta) /\ Len(deltas) = position.moveId
        /\ \A i \in 1 .. Len(deltas) : deltas[i].gameActive
    BY DEF TypeOK, Bookkeeping
  <1>2. /\ deltas' \in Seq(Delta) /\ Len(deltas') = Len(deltas) + 1
        /\ \A i \in 1 .. Len(deltas) : deltas'[i] = deltas[i]
        /\ deltas'[Len(deltas) + 1] = delta
    BY <1>1, AppendProperties
  <1>3. Len(deltas) \in Nat
    BY <1>1
  <1>4. \A i \in 1 .. Len(deltas') : i \in 1 .. Len(deltas) \/ i = Len(deltas) + 1
    BY <1>2, <1>3
  <1>5. delta.player = IF (Len(deltas) + 1) % 2 = 1 THEN "Black" ELSE "White"
    <2>1. (Len(deltas) + 1) % 2 = 1 <=> Len(deltas) % 2 = 0
      BY <1>3
    <2>2. QED
      BY <1>1, <2>1 DEF Bookkeeping
  <1>6. DeltasInOrder'
    <2>1. SUFFICES ASSUME NEW i \in 1 .. Len(deltas')
                   PROVE  /\ deltas'[i].moveId = i
                          /\ deltas'[i].player = IF i % 2 = 1 THEN "Black" ELSE "White"
                          /\ deltas'[i].nextPlayer = opponent(deltas'[i].player)
                          /\ i < Len(deltas') => deltas'[i].gameActive
      BY DEF DeltasInOrder
    <2>2. CASE i \in 1 .. Len(deltas)
      BY <1>1, <1>2, <2>2 DEF DeltasInOrder
    <2>3. CASE i = Len(deltas) + 1
      BY <1>1, <1>2, <1>5, <2>3
    <2>4. QED
      BY <1>4, <2>2, <2>3
  <1>7. QED
    BY <1>1, <1>2, <1>4, <1>6

LEMMA PopFacts ==
  ASSUME TypeOK, NEW type, Pop(type)
  PROVE  /\ eventQueue' \in Seq(Event)
         /\ Head(eventQueue) \in Event
         /\ Head(eventQueue).type = type
         /\ gameThread = "running" /\ gameActive /\ gameThread' = gameThread
         /\ NotOver
  BY QueueTypes DEF TypeOK, Pop, NotOver

\* An event popped and nothing else done.
LEMMA DroppedEvent ==
  ASSUME IInv, NEW type, Pop(type),
         UNCHANGED <<gameActive, consecutivePasses, position, seenHashes, deltas>>
  PROVE  IInv'
  <1>1. TypeOK'
    BY PopFacts DEF IInv, TypeOK
  <1>2. Bookkeeping'
    BY PopFacts DEF IInv, Bookkeeping, NotOver
  <1>3. QED
    BY <1>1, <1>2 DEF IInv, HashMatchesSituation, NoSituationTwice, GroupsBreathe, DeltasInOrder

LEMMA PutKeepsIInv == IInv /\ handlePut => IInv'
  <1> SUFFICES ASSUME IInv, handlePut PROVE IInv'
    OBVIOUS
  <1> DEFINE event == Head(eventQueue)
             next  == simulatePosition(position, event.c, event.player)
             p     == position.currentPlayer
  <1>1. /\ event.player = p /\ isValidMove(position.board, p, event.c)
        /\ next.hash \notin seenHashes
        /\ consecutivePasses' = 0 /\ gameActive' = gameActive
        /\ position' = next /\ seenHashes' = seenHashes \cup {next.hash}
        /\ deltas' = Append(deltas, PlaceDelta(event, next))
        /\ Pop("Put")
    BY DEF handlePut, isNextPositionLegal
  <1>2. /\ eventQueue' \in Seq(Event) /\ NotOver /\ gameActive
        /\ gameThread = "running" /\ gameThread' = gameThread
    BY <1>1, PopFacts DEF IInv
  <1>3. /\ position \in Position /\ p \in Player /\ event.c \in Coord
        /\ position.board[event.c] = Empty
    BY <1>1 DEF IInv, TypeOK, Position, isValidMove
  <1>4. /\ next \in Position /\ next.currentPlayer = opponent(p)
        /\ next.moveId = position.moveId + 1
    BY <1>1, <1>3, SimulatedPosition
  <1> HIDE DEF next
  <1>5. next.hash = HashOf(next.board, next.currentPlayer)
    BY <1>1, <1>3, MoveKeepsHash DEF next, IInv, HashMatchesSituation
  <1>6. AllBreathe(next.board)
    BY <1>1, <1>3, ValidMoveBreathes DEF next, IInv, GroupsBreathe
  <1>7. IsFiniteSet(seenHashes') /\ NoSituationTwice'
    BY <1>1, <1>3, <1>4, OneMoreSituation DEF IInv, Bookkeeping, NoSituationTwice
  <1>8. /\ PlaceDelta(event, next) \in Delta
        /\ PlaceDelta(event, next).moveId = position.moveId + 1
        /\ PlaceDelta(event, next).player = p
        /\ PlaceDelta(event, next).nextPlayer = opponent(p)
        /\ PlaceDelta(event, next).gameActive = gameActive
    <2>1. CapturedBy(position.board, event.c, p) \in SUBSET Coord
      BY <1>3, SimulatedBoard
    <2>2. next.moveId \in Nat /\ next.currentPlayer \in Player
      BY <1>4 DEF Position
    <2>3. PlaceDelta(event, next) =
            [moveId |-> next.moveId, action |-> "Place", player |-> p,
             coord |-> {event.c}, captures |-> CapturedBy(position.board, event.c, p),
             nextPlayer |-> next.currentPlayer, gameActive |-> gameActive]
      BY <1>1 DEF PlaceDelta
    <2>4. gameActive \in BOOLEAN /\ {event.c} \in SUBSET Coord
      BY <1>3 DEF IInv, TypeOK
    <2>5. QED
      BY <1>3, <1>4, <2>1, <2>2, <2>3, <2>4 DEF Delta
  <1>9. /\ deltas' \in Seq(Delta) /\ Len(deltas') = position.moveId + 1 /\ DeltasInOrder'
        /\ \A i \in 1 .. Len(deltas') : deltas'[i].gameActive
    BY <1>1, <1>2, <1>8, OneMoreDelta DEF IInv
  <1>10. TypeOK'
    <2>1. seenHashes' \in SUBSET Hash
      BY <1>1, <1>4 DEF IInv, TypeOK, Position
    <2>2. QED
      BY <1>1, <1>2, <1>4, <1>9, <2>1 DEF IInv, TypeOK
  <1>11. Bookkeeping'
    <2>1. next.currentPlayer = IF next.moveId % 2 = 0 THEN "Black" ELSE "White"
      <3>1. position.moveId \in Nat
        BY <1>3 DEF Position
      <3>2. (position.moveId + 1) % 2 = 0 <=> position.moveId % 2 # 0
        BY <3>1
      <3>3. QED
        BY <1>4, <3>2 DEF IInv, Bookkeeping, opponent
    <2>2. QED
      BY <1>1, <1>2, <1>4, <1>7, <1>9, <2>1 DEF Bookkeeping, NotOver
  <1>12. QED
    BY <1>1, <1>5, <1>6, <1>7, <1>9, <1>10, <1>11
    DEF IInv, HashMatchesSituation, GroupsBreathe

\* The delta of a pass or a resignation is the next one.
LEMMA TurnDeltaFacts ==
  ASSUME TypeOK, NEW action \in {"Place", "Pass", "Resign"}, NEW active \in BOOLEAN,
         NEW delta, delta = TurnDelta(action, position.currentPlayer, active)
  PROVE  /\ delta \in Delta
         /\ delta.moveId = position.moveId + 1
         /\ delta.player = position.currentPlayer
         /\ delta.nextPlayer = opponent(position.currentPlayer)
         /\ delta.gameActive = active
  <1>1. position.moveId \in Nat /\ position.currentPlayer \in Player
    BY DEF TypeOK, Position
  <1>2. opponent(position.currentPlayer) \in Player
    BY <1>1, OpponentFacts
  <1>3. position.moveId + 1 \in Nat
    BY <1>1
  <1>4. QED
    BY <1>1, <1>2, <1>3 DEF TurnDelta, Delta

LEMMA PassKeepsIInv == IInv /\ handlePass => IInv'
  <1> SUFFICES ASSUME IInv, handlePass PROVE IInv'
    OBVIOUS
  <1> DEFINE next  == PassPosition(position)
             delta == TurnDelta("Pass", position.currentPlayer, gameActive)
  <1>1. /\ next.hash \notin seenHashes
        /\ consecutivePasses' = consecutivePasses + 1 /\ consecutivePasses' # 2
        /\ gameActive' = gameActive
        /\ position' = next /\ seenHashes' = seenHashes \cup {next.hash}
        /\ deltas' = Append(deltas, delta)
        /\ Pop("Pass")
    BY DEF handlePass, CountPass
  <1>2. /\ eventQueue' \in Seq(Event) /\ NotOver /\ gameActive
        /\ gameThread = "running" /\ gameThread' = gameThread
    BY <1>1, PopFacts DEF IInv
  <1>3. position \in Position /\ position.hash = HashOf(position.board, position.currentPlayer)
    BY DEF IInv, TypeOK, HashMatchesSituation
  <1>4. /\ next \in Position /\ next.board = position.board
        /\ next.currentPlayer = opponent(position.currentPlayer)
        /\ next.moveId = position.moveId + 1
        /\ next.hash = HashOf(next.board, next.currentPlayer)
    BY <1>3, PassKeepsHash
  <1> HIDE DEF next
  <1>5. IsFiniteSet(seenHashes') /\ NoSituationTwice'
    BY <1>1, <1>3, <1>4, OneMoreSituation DEF IInv, Bookkeeping, NoSituationTwice
  <1>6. /\ delta \in Delta /\ delta.moveId = position.moveId + 1
        /\ delta.player = position.currentPlayer
        /\ delta.nextPlayer = opponent(position.currentPlayer)
        /\ delta.gameActive = gameActive
    BY TurnDeltaFacts DEF IInv, TypeOK
  <1> HIDE DEF delta
  <1>7. /\ deltas' \in Seq(Delta) /\ Len(deltas') = position.moveId + 1 /\ DeltasInOrder'
        /\ \A i \in 1 .. Len(deltas') : deltas'[i].gameActive
    BY <1>1, <1>2, <1>6, OneMoreDelta DEF IInv
  <1>8. TypeOK'
    <2>1. seenHashes' \in SUBSET Hash
      BY <1>1, <1>4 DEF IInv, TypeOK, Position
    <2>2. consecutivePasses' \in 0 .. 2
      BY <1>1, <1>2 DEF IInv, TypeOK, Bookkeeping
    <2>3. QED
      BY <1>1, <1>2, <1>4, <1>7, <2>1, <2>2 DEF IInv, TypeOK
  <1>9. Bookkeeping'
    <2>1. next.currentPlayer = IF next.moveId % 2 = 0 THEN "Black" ELSE "White"
      <3>1. position.moveId \in Nat
        BY <1>3 DEF Position
      <3>2. (position.moveId + 1) % 2 = 0 <=> position.moveId % 2 # 0
        BY <3>1
      <3>3. QED
        BY <1>4, <3>2 DEF IInv, Bookkeeping, opponent
    <2>2. QED
      BY <1>1, <1>2, <1>4, <1>5, <1>7, <2>1 DEF Bookkeeping, NotOver
  <1>10. GroupsBreathe'
    BY <1>1, <1>4 DEF IInv, GroupsBreathe
  <1>11. QED
    BY <1>1, <1>4, <1>5, <1>7, <1>8, <1>9, <1>10 DEF IInv, HashMatchesSituation

\* The events that end the game send at most one delta and keep the position.
LEMMA EndKeepsIInv ==
  ASSUME IInv, NEW type, Pop(type), gameActive' = FALSE,
         consecutivePasses' \in 0 .. 2,
         UNCHANGED <<position, seenHashes>>,
         \/ UNCHANGED deltas
         \/ \E action \in {"Pass", "Resign"} :
              deltas' = Append(deltas, TurnDelta(action, position.currentPlayer, FALSE))
  PROVE  IInv'
  <1>1. /\ eventQueue' \in Seq(Event) /\ NotOver /\ gameActive
        /\ gameThread = "running" /\ gameThread' = gameThread
    BY PopFacts DEF IInv
  <1>2. deltas' \in Seq(Delta) /\ DeltasInOrder'
    <2>1. CASE UNCHANGED deltas
      BY <2>1 DEF IInv, TypeOK, DeltasInOrder
    <2>2. CASE \E action \in {"Pass", "Resign"} :
                 deltas' = Append(deltas, TurnDelta(action, position.currentPlayer, FALSE))
      <3>1. PICK action \in {"Pass", "Resign"} :
              deltas' = Append(deltas, TurnDelta(action, position.currentPlayer, FALSE))
        BY <2>2
      <3> DEFINE delta == TurnDelta(action, position.currentPlayer, FALSE)
      <3>2. /\ delta \in Delta /\ delta.moveId = position.moveId + 1
            /\ delta.player = position.currentPlayer
            /\ delta.nextPlayer = opponent(position.currentPlayer)
        BY TurnDeltaFacts DEF IInv
      <3>3. deltas' = Append(deltas, delta)
        BY <3>1
      <3> HIDE DEF delta
      <3>4. QED
        BY <1>1, <3>2, <3>3, OneMoreDelta DEF IInv
    <2>3. QED
      BY <2>1, <2>2
  <1>3. TypeOK'
    BY <1>1, <1>2 DEF IInv, TypeOK
  <1>4. Bookkeeping'
    BY <1>1 DEF IInv, Bookkeeping, NotOver
  <1>5. QED
    BY <1>2, <1>3, <1>4 DEF IInv, HashMatchesSituation, NoSituationTwice, GroupsBreathe

LEMMA StepKeepsIInv == IInv /\ [Next]_vars => IInv'
  <1> SUFFICES ASSUME IInv, [Next]_vars PROVE IInv'
    OBVIOUS
  <1> USE DEF IInv
  <1>1. ASSUME NEW event \in Event, pushEvent(event) PROVE IInv'
    <2>1. TypeOK'
      BY <1>1, AppendProperties DEF pushEvent, TypeOK
    <2>2. Bookkeeping'
      BY <1>1 DEF pushEvent, Bookkeeping, NotOver
    <2>3. QED
      BY <1>1, <2>1, <2>2
      DEF pushEvent, HashMatchesSituation, NoSituationTwice, GroupsBreathe, DeltasInOrder
  <1>2. CASE run
    <2>1. TypeOK'
      BY <1>2 DEF run, TypeOK
    <2>2. Bookkeeping'
      BY <1>2 DEF run, Bookkeeping, NotOver
    <2>3. QED
      BY <1>2, <2>1, <2>2
      DEF run, HashMatchesSituation, NoSituationTwice, GroupsBreathe, DeltasInOrder
  <1>3. CASE MoveOutOfTurn
    BY <1>3, DroppedEvent DEF MoveOutOfTurn
  <1>4. CASE handlePut
    BY <1>4, PutKeepsIInv
  <1>5. CASE refusePut
    BY <1>5, DroppedEvent DEF refusePut
  <1>6. CASE passEndsGame
    <2>1. /\ Pop("Pass") /\ gameActive' = FALSE /\ consecutivePasses' \in 0 .. 2
          /\ UNCHANGED <<position, seenHashes>>
          /\ deltas' = Append(deltas, TurnDelta("Pass", position.currentPlayer, FALSE))
      BY <1>6 DEF passEndsGame, CountPass
    <2>2. QED
      BY <2>1, EndKeepsIInv
  <1>7. CASE handlePass
    BY <1>7, PassKeepsIInv
  <1>8. CASE refusePass
    <2>1. /\ Pop("Pass") /\ consecutivePasses' = consecutivePasses + 1 /\ consecutivePasses' # 2
          /\ UNCHANGED <<gameActive, position, seenHashes, deltas>>
      BY <1>8 DEF refusePass, CountPass
    <2>2. TypeOK'
      BY <2>1, PopFacts DEF TypeOK, Bookkeeping
    <2>3. Bookkeeping'
      BY <2>1, PopFacts DEF Bookkeeping, NotOver
    <2>4. QED
      BY <2>1, <2>2, <2>3 DEF HashMatchesSituation, NoSituationTwice, GroupsBreathe, DeltasInOrder
  <1>9. CASE handleResign
    BY <1>9, EndKeepsIInv DEF handleResign, TypeOK
  <1>10. CASE handleShutdown
    BY <1>10, EndKeepsIInv DEF handleShutdown, TypeOK
  <1>11. CASE returnFromRun
    <2>1. TypeOK'
      BY <1>11 DEF returnFromRun, TypeOK
    <2>2. Bookkeeping'
      BY <1>11 DEF returnFromRun, Bookkeeping, NotOver
    <2>3. QED
      BY <1>11, <2>1, <2>2
      DEF returnFromRun, HashMatchesSituation, NoSituationTwice, GroupsBreathe, DeltasInOrder
  <1>12. CASE UNCHANGED vars
    BY <1>12 DEF vars, TypeOK, Bookkeeping, NotOver, HashMatchesSituation,
                 NoSituationTwice, GroupsBreathe, DeltasInOrder
  <1>13. QED
    BY <1>1, <1>2, <1>3, <1>4, <1>5, <1>6, <1>7, <1>8, <1>9, <1>10, <1>11, <1>12
    DEF Next, GameLoop, Terminated

THEOREM Invariance == Spec => []IInv
  BY InitEstablishesIInv, StepKeepsIInv, PTL DEF Spec

\* The state of the rules loop keeps its types.
THEOREM TypeCorrect == Spec => []TypeOK
  BY Invariance, PTL DEF IInv

\* The hash maintained move by move is the hash of the situation.
THEOREM HashCorrect == Spec => []HashMatchesSituation
  BY Invariance, PTL DEF IInv

\* Situational superko: no accepted move or pass repeats a situation.
THEOREM Superko == Spec => []NoSituationTwice
  BY Invariance, PTL DEF IInv

\* No stone without liberty is ever left on the board.
THEOREM GroupsAlwaysBreathe == Spec => []GroupsBreathe
  BY Invariance, PTL DEF IInv

\* Listeners get the deltas numbered from 1 without a gap, players alternating.
THEOREM DeltasAlwaysInOrder == Spec => []DeltasInOrder
  BY Invariance, PTL DEF IInv

\* When the game is over nothing of it changes any more.
THEOREM PositionIsFinal == Spec => FinalPosition
  <1>1. IInv /\ [Next]_vars =>
          [gameThread # "none" /\ ~ gameActive
             => UNCHANGED <<position, seenHashes, deltas, gameActive>>]_vars
    BY DEF Next, GameLoop, Terminated, vars, Pop, CountPass, run, pushEvent, MoveOutOfTurn,
           handlePut, refusePut, passEndsGame, handlePass, refusePass, handleResign,
           handleShutdown, returnFromRun
  <1>2. QED
    BY <1>1, Invariance, PTL DEF Spec, FinalPosition

-----------------------------------------------------------------------------
(* The deltas are all a listener needs.  ReplayedBoard is defined by        *)
(* recursion on the deltas; its value is followed along the steps, not by   *)
(* induction on their number: the boards along the deltas sent so far are   *)
(* those along the deltas before the step, and one more.                    *)

\* The boards along the deltas: board[n] is the one after n of them.
Boards(board, sent) ==
  board = [n \in 0 .. Len(sent) |->
             IF n = 0 THEN EmptyBoard ELSE Applied(board[n - 1], sent[n])]

\* There are boards along the deltas, and the last of them is the given one.
LeadTo(sent, last) ==
  /\ \E board : Boards(board, sent)
  /\ \A board : Boards(board, sent) => board[Len(sent)] = last

LEMMA NoDeltas == LeadTo(<<>>, EmptyBoard)
  <1> DEFINE start == [n \in 0 .. Len(<<>>) |-> EmptyBoard]
  <1>1. 0 .. Len(<<>>) = {0}
    OBVIOUS
  <1>2. Boards(start, <<>>)
    BY <1>1 DEF Boards
  <1>3. ASSUME NEW board, Boards(board, <<>>) PROVE board[Len(<<>>)] = EmptyBoard
    <2>1. board = [n \in {0} |-> IF n = 0 THEN EmptyBoard ELSE Applied(board[n - 1], <<>>[n])]
      BY <1>1, <1>3 DEF Boards
    <2>2. QED
      BY <2>1
  <1>4. QED
    <2> HIDE DEF start
    <2>1. QED
      BY <1>2, <1>3 DEF LeadTo

LEMMA OneDeltaMore ==
  ASSUME NEW sent \in Seq(Delta), NEW delta \in Delta, NEW last, LeadTo(sent, last),
         NEW more, more = Append(sent, delta)
  PROVE  LeadTo(more, Applied(last, delta))
  <1> DEFINE L == Len(sent)
  <1>1. /\ L \in Nat /\ Len(more) = L + 1 /\ more[L + 1] = delta
        /\ \A n \in 1 .. L : more[n] = sent[n]
    BY AppendProperties, LenProperties
  <1> HIDE DEF L
  <1>2. /\ \A n \in 0 .. L + 1 : n \in 0 .. L \/ n = L + 1
        /\ \A n \in 0 .. L : /\ n \in 0 .. L + 1 /\ n # L + 1
                             /\ n # 0 => n \in 1 .. L /\ n - 1 \in 0 .. L
        /\ L + 1 \in 0 .. L + 1 /\ L + 1 # 0 /\ (L + 1) - 1 = L /\ L \in 0 .. L
    BY <1>1
  <1>3. \E board : Boards(board, more)
    <2>1. PICK board : Boards(board, sent)
      BY DEF LeadTo
    <2> DEFINE next == [n \in 0 .. L + 1 |-> IF n = L + 1 THEN Applied(board[L], delta) ELSE board[n]]
               step == [n \in 0 .. L + 1 |-> IF n = 0 THEN EmptyBoard ELSE Applied(next[n - 1], more[n])]
    <2>2. ASSUME NEW n \in 0 .. L PROVE next[n] = step[n]
      <3>1. next[n] = board[n] /\ board[n] = IF n = 0 THEN EmptyBoard ELSE Applied(board[n - 1], sent[n])
        BY <1>2, <2>1 DEF Boards, L
      <3>2. step[n] = IF n = 0 THEN EmptyBoard ELSE Applied(next[n - 1], more[n])
        BY <1>2
      <3>3. n # 0 => next[n - 1] = board[n - 1] /\ more[n] = sent[n]
        BY <1>1, <1>2
      <3> HIDE DEF next, step
      <3>4. QED
        BY <3>1, <3>2, <3>3
    <2>3. next[L + 1] = step[L + 1]
      <3>1. next[L + 1] = Applied(board[L], delta) /\ next[L] = board[L]
        BY <1>2
      <3>2. step[L + 1] = Applied(next[(L + 1) - 1], more[L + 1])
        BY <1>2
      <3> HIDE DEF next, step
      <3>3. QED
        BY <1>1, <1>2, <3>1, <3>2
    <2>4. next = step
      <3>1. \A n \in 0 .. L + 1 : next[n] = step[n]
        BY <1>2, <2>2, <2>3
      <3>2. QED
        BY <3>1
    <2>5. Boards(next, more)
      <3> HIDE DEF next
      <3>1. QED
        BY <1>1, <2>4 DEF Boards
    <2>6. QED
      BY <2>5
  <1>4. ASSUME NEW board, Boards(board, more) PROVE board[Len(more)] = Applied(last, delta)
    <2>1. /\ \A n \in 0 .. L + 1 :
               board[n] = IF n = 0 THEN EmptyBoard ELSE Applied(board[n - 1], more[n])
      BY <1>1, <1>4 DEF Boards
    <2> DEFINE before == [n \in 0 .. L |-> board[n]]
               step == [n \in 0 .. L |-> IF n = 0 THEN EmptyBoard ELSE Applied(before[n - 1], sent[n])]
    <2>2. ASSUME NEW n \in 0 .. L PROVE before[n] = step[n]
      <3>1. before[n] = IF n = 0 THEN EmptyBoard ELSE Applied(board[n - 1], more[n])
        BY <1>2, <2>1
      <3>2. step[n] = IF n = 0 THEN EmptyBoard ELSE Applied(before[n - 1], sent[n])
        OBVIOUS
      <3>3. n # 0 => before[n - 1] = board[n - 1] /\ more[n] = sent[n]
        BY <1>1, <1>2
      <3> HIDE DEF before, step
      <3>4. QED
        BY <3>1, <3>2, <3>3
    <2>3. before = step
      BY <2>2
    <2>4. before[L] = last
      <3>1. Boards(before, sent)
        <4> HIDE DEF before
        <4>1. QED
          BY <2>3 DEF Boards, L
      <3> HIDE DEF before
      <3>2. QED
        BY <3>1 DEF LeadTo, L
    <2>5. board[L] = last
      BY <1>2, <2>4
    <2>6. board[L + 1] = Applied(board[(L + 1) - 1], more[L + 1])
      BY <1>2, <2>1
    <2>7. QED
      BY <1>1, <1>2, <2>5, <2>6
  <1>5. QED
    BY <1>3, <1>4 DEF LeadTo

\* Each delta makes of the board before its step the board after it.
LEMMA DeltaTellsStep ==
  ASSUME IInv, [Next]_vars
  PROVE  \/ UNCHANGED <<deltas, position>>
         \/ \E delta \in Delta : /\ deltas' = Append(deltas, delta)
                                 /\ position'.board = Applied(position.board, delta)
  <1>1. CASE handlePut
    <2> DEFINE event == Head(eventQueue)
               p     == position.currentPlayer
    <2>1. PICK next : next = simulatePosition(position, event.c, event.player)
      OBVIOUS
    <2>2. PICK K : K = CapturedBy(position.board, event.c, p)
      OBVIOUS
    <2>3. /\ event.player = p /\ isValidMove(position.board, p, event.c)
          /\ position' = next /\ deltas' = Append(deltas, PlaceDelta(event, next))
      BY <1>1, <2>1 DEF handlePut, isNextPositionLegal
    <2>4. /\ position \in Position /\ p \in Player /\ event.c \in Coord /\ gameActive \in BOOLEAN
          /\ position.board[event.c] = Empty
      BY <2>3 DEF IInv, TypeOK, Position, isValidMove
    <2>5. next \in Position
      BY <2>1, <2>3, <2>4, SimulatedPosition
    <2>6. /\ next.board \in Board /\ K \in SUBSET Coord
          /\ \A d \in Coord : next.board[d] = IF d = event.c THEN p
                                             ELSE IF d \in K THEN Empty ELSE position.board[d]
      BY <2>1, <2>2, <2>3, <2>4, SimulatedBoard
    <2>7. PICK delta : delta = PlaceDelta(event, next)
      OBVIOUS
    <2>8. delta = [moveId |-> next.moveId, action |-> "Place", player |-> p,
                   coord |-> {event.c}, captures |-> K,
                   nextPlayer |-> next.currentPlayer, gameActive |-> gameActive]
      BY <2>2, <2>3, <2>7 DEF PlaceDelta
    <2> HIDE DEF event, p
    <2>9. delta \in Delta
      BY <2>4, <2>5, <2>6, <2>8 DEF Delta, Position
    <2>10. next.board = Applied(position.board, delta)
      BY <2>6, <2>8 DEF Applied, Board
    <2>11. QED
      BY <2>3, <2>7, <2>9, <2>10
  <1>2. ASSUME NEW action \in {"Pass", "Resign"}, NEW active \in BOOLEAN,
               deltas' = Append(deltas, TurnDelta(action, position.currentPlayer, active)),
               position'.board = position.board
        PROVE  \E delta \in Delta : /\ deltas' = Append(deltas, delta)
                                    /\ position'.board = Applied(position.board, delta)
    <2>1. PICK delta : delta = TurnDelta(action, position.currentPlayer, active)
      OBVIOUS
    <2>2. delta \in Delta
      BY <2>1, TurnDeltaFacts DEF IInv
    <2>3. delta.coord = {} /\ delta.captures = {}
      BY <2>1 DEF TurnDelta
    <2>4. position.board \in Board
      BY DEF IInv, TypeOK, Position
    <2>5. Applied(position.board, delta) = position.board
      BY <2>3, <2>4 DEF Applied, Board
    <2>6. QED
      BY <1>2, <2>1, <2>2, <2>5
  <1>3. CASE passEndsGame
    BY <1>2, <1>3 DEF passEndsGame
  <1>4. CASE handlePass
    <2>1. /\ gameActive \in BOOLEAN /\ position \in Position
          /\ position' = PassPosition(position)
          /\ deltas' = Append(deltas, TurnDelta("Pass", position.currentPlayer, gameActive))
      BY <1>4 DEF handlePass, IInv, TypeOK
    <2>2. position'.board = position.board
      BY <2>1 DEF PassPosition, Position
    <2>3. QED
      BY <1>2, <2>1, <2>2
  <1>5. CASE handleResign
    BY <1>2, <1>5 DEF handleResign
  <1>6. CASE ~ (handlePut \/ passEndsGame \/ handlePass \/ handleResign)
    BY <1>6 DEF Next, GameLoop, Terminated, vars, Pop, CountPass, run, pushEvent, MoveOutOfTurn,
                refusePut, refusePass, handleShutdown, returnFromRun
  <1>7. QED
    BY <1>1, <1>3, <1>4, <1>5, <1>6

\* A listener that applies the deltas in order has the board of the game, with
\* the captured stones gone, on every board and in every game.
THEOREM DeltasAlwaysRebuildBoard == Spec => []DeltasRebuildBoard
  <1> DEFINE Rebuilt == LeadTo(deltas, position.board)
  <1>1. Init => Rebuilt
    BY NoDeltas DEF Init, InitialPosition
  <1>2. IInv /\ Rebuilt /\ [Next]_vars => Rebuilt'
    <2> SUFFICES ASSUME IInv, Rebuilt, [Next]_vars PROVE Rebuilt'
      OBVIOUS
    <2>1. CASE UNCHANGED <<deltas, position>>
      BY <2>1
    <2>2. CASE \E delta \in Delta : /\ deltas' = Append(deltas, delta)
                                    /\ position'.board = Applied(position.board, delta)
      BY <2>2, OneDeltaMore DEF IInv, TypeOK
    <2>3. QED
      BY <2>1, <2>2, DeltaTellsStep
  <1>3. Rebuilt => DeltasRebuildBoard
    <2> SUFFICES ASSUME Rebuilt PROVE DeltasRebuildBoard
      OBVIOUS
    <2> DEFINE after == CHOOSE board : Boards(board, deltas)
    <2>1. Boards(after, deltas) /\ \A board : Boards(board, deltas) => board[Len(deltas)] = position.board
      BY DEF LeadTo
    <2>2. ReplayedBoard = after[Len(deltas)]
      BY DEF ReplayedBoard, Boards
    <2> HIDE DEF after
    <2>3. QED
      BY <2>1, <2>2 DEF DeltasRebuildBoard
  <1> HIDE DEF Rebuilt
  <1>4. QED
    BY <1>1, <1>2, <1>3, Invariance, PTL DEF Spec

-----------------------------------------------------------------------------
(* The game is a match, whatever the size of the board.  What a match      *)
(* derives from the number of deltas, the game keeps in the position: that *)
(* the two agree while the game is active is part of the bookkeeping.      *)

LEMMA SameSets == Played!Event = Event /\ Played!MoveEvent = MoveEvent
  BY DEF Played!Event, Played!MoveEvent, Played!Player, Event, MoveEvent, Player

\* While the game is active the position has the number and the player of the
\* next delta.
LEMMA NextDeltaAgrees ==
  ASSUME IInv, NotOver, NEW action, NEW coord, NEW captures, NEW active
  PROVE  Played!NextDelta(action, coord, captures, active) =
           [moveId |-> position.moveId + 1, action |-> action,
            player |-> position.currentPlayer, coord |-> coord, captures |-> captures,
            nextPlayer |-> opponent(position.currentPlayer), gameActive |-> active]
  <1>1. Len(deltas) = position.moveId
    BY DEF IInv, Bookkeeping
  <1>2. Played!toMove = position.currentPlayer
    BY <1>1 DEF IInv, Bookkeeping, Played!toMove
  <1>3. Played!opponent(position.currentPlayer) = opponent(position.currentPlayer)
    BY DEF Played!opponent, opponent, IInv, TypeOK, Position, Player
  <1>4. QED
    BY <1>1, <1>2, <1>3 DEF Played!NextDelta

LEMMA PopIsPop ==
  ASSUME NEW type, Pop(type)
  PROVE  Played!Pop(type)
  BY DEF Pop, Played!Pop

LEMMA PlayerToMove ==
  ASSUME IInv, NotOver
  PROVE  Played!toMove = position.currentPlayer
  BY DEF IInv, Bookkeeping, Played!toMove

LEMMA PutIsPlayed == IInv /\ handlePut => Played!putStone
  <1> SUFFICES ASSUME IInv, handlePut PROVE Played!putStone
    OBVIOUS
  <1> DEFINE event == Head(eventQueue)
             next  == simulatePosition(position, event.c, event.player)
             p     == position.currentPlayer
             taken == CapturedBy(position.board, event.c, p)
  <1>1. /\ event.player = p /\ isValidMove(position.board, p, event.c)
        /\ deltas' = Append(deltas, PlaceDelta(event, next))
        /\ gameActive' = gameActive
        /\ Pop("Put")
    BY DEF handlePut, isNextPositionLegal
  <1>2. NotOver /\ gameActive = TRUE
    <2>1. NotOver /\ gameActive /\ gameActive \in BOOLEAN
      BY <1>1, PopFacts DEF IInv, TypeOK
    <2>2. QED
      BY <2>1, Zenon
  <1>3. /\ position \in Position /\ p \in Player /\ event.c \in Coord
        /\ position.board[event.c] = Empty
    BY <1>1 DEF IInv, TypeOK, Position, isValidMove
  <1>4. next.currentPlayer = opponent(p) /\ next.moveId = position.moveId + 1
    BY <1>1, <1>3, SimulatedPosition
  <1>5. taken \in SUBSET Coord
    BY <1>3, SimulatedBoard
  <1> HIDE DEF next, taken
  <1>6. PlaceDelta(event, next) =
          [moveId |-> next.moveId, action |-> "Place", player |-> p, coord |-> {event.c},
           captures |-> taken, nextPlayer |-> next.currentPlayer, gameActive |-> gameActive]
    BY <1>1 DEF PlaceDelta, taken
  <1>7. PlaceDelta(event, next) = Played!NextDelta("Place", {event.c}, taken, gameActive)
    <2>1. NotOver
      BY <1>2
    <2>2. Played!NextDelta("Place", {event.c}, taken, gameActive) =
            [moveId |-> position.moveId + 1, action |-> "Place", player |-> p,
             coord |-> {event.c}, captures |-> taken, nextPlayer |-> opponent(p),
             gameActive |-> gameActive]
      BY <2>1, NextDeltaAgrees
    <2>3. QED
      BY <1>4, <1>6, <2>2
  <1>8. deltas' = Append(deltas, Played!NextDelta("Place", {event.c}, taken, TRUE))
    BY <1>1, <1>2, <1>7, Zenon
  <1>9. event.player = Played!toMove
    BY <1>1, <1>2, PlayerToMove
  <1>10. Played!Pop("Put")
    BY <1>1, PopIsPop
  <1>11. QED
    BY <1>1, <1>3, <1>5, <1>8, <1>9, <1>10 DEF Played!putStone

\* A delta without a stone is the one of a match.
LEMMA TurnIsPlayed ==
  ASSUME IInv, NotOver, NEW action, NEW active
  PROVE  TurnDelta(action, position.currentPlayer, active)
           = Played!NextDelta(action, {}, {}, active)
  BY NextDeltaAgrees DEF TurnDelta

LEMMA StepIsPlayed == IInv /\ [Next]_vars => [Played!Next]_(Played!matchVars)
  <1> SUFFICES ASSUME IInv, [Next]_vars PROVE [Played!Next]_(Played!matchVars)
    OBVIOUS
  <1>1. ASSUME NEW event \in Event, pushEvent(event) PROVE Played!Next
    <2>1. Played!pushEvent(event)
      BY <1>1 DEF pushEvent, Played!pushEvent
    <2>2. QED
      BY <2>1, SameSets DEF Played!Next
  <1>2. CASE run
    BY <1>2 DEF run, Played!run, Played!Next
  <1>3. ASSUME Pop("Put") \/ Pop("Pass"), UNCHANGED <<gameActive, deltas>>
        PROVE  Played!Next
    BY <1>3, PopIsPop DEF Played!refuseMove, Played!GameLoop, Played!Next
  <1>4. CASE MoveOutOfTurn
    <2>1. (Pop("Put") \/ Pop("Pass")) /\ UNCHANGED <<gameActive, deltas>>
      BY <1>4 DEF MoveOutOfTurn
    <2>2. QED
      BY <1>3, <2>1
  <1>5. CASE handlePut
    BY <1>5, PutIsPlayed DEF Played!GameLoop, Played!Next
  <1>6. CASE refusePut
    BY <1>3, <1>6 DEF refusePut
  <1>7. ASSUME NEW active \in BOOLEAN, CountPass, gameActive' = active,
               deltas' = Append(deltas, TurnDelta("Pass", position.currentPlayer, active))
        PROVE  Played!Next
    <2>1. Pop("Pass") /\ Head(eventQueue).player = position.currentPlayer
      BY <1>7 DEF CountPass
    <2>2. NotOver
      BY <2>1, PopFacts DEF IInv
    <2>3. /\ Played!Pop("Pass") /\ Head(eventQueue).player = Played!toMove
          /\ gameActive' \in BOOLEAN
          /\ deltas' = Append(deltas, Played!NextDelta("Pass", {}, {}, gameActive'))
      BY <1>7, <2>1, <2>2, PopIsPop, PlayerToMove, TurnIsPlayed
    <2>4. QED
      BY <2>3 DEF Played!pass, Played!GameLoop, Played!Next
  <1>8. CASE passEndsGame
    BY <1>7, <1>8 DEF passEndsGame
  <1>9. CASE handlePass
    <2>1. /\ CountPass /\ gameActive' = gameActive
          /\ deltas' = Append(deltas, TurnDelta("Pass", position.currentPlayer, gameActive))
      BY <1>9 DEF handlePass
    <2>2. gameActive \in BOOLEAN
      BY DEF IInv, TypeOK
    <2>3. QED
      BY <1>7, <2>1, <2>2
  <1>10. CASE refusePass
    BY <1>3, <1>10 DEF refusePass, CountPass
  <1>11. CASE handleResign
    <2>1. /\ Pop("Resign") /\ gameActive' = FALSE
          /\ deltas' = Append(deltas, TurnDelta("Resign", position.currentPlayer, FALSE))
      BY <1>11 DEF handleResign
    <2>2. NotOver
      BY <2>1, PopFacts DEF IInv
    <2>3. deltas' = Append(deltas, Played!NextDelta("Resign", {}, {}, FALSE))
      BY <2>1, <2>2, TurnIsPlayed
    <2>4. QED
      BY <2>1, <2>3, PopIsPop DEF Played!resign, Played!GameLoop, Played!Next
  <1>12. CASE handleShutdown
    BY <1>12, PopIsPop DEF handleShutdown, Played!shutdown, Played!GameLoop, Played!Next
  <1>13. CASE returnFromRun
    BY <1>13 DEF returnFromRun, Played!returnFromRun, Played!GameLoop, Played!Next
  <1>14. CASE UNCHANGED vars
    BY <1>14 DEF vars, Played!matchVars
  <1>15. QED
    BY <1>1, <1>2, <1>4, <1>5, <1>6, <1>8, <1>9, <1>10, <1>11, <1>12, <1>13, <1>14
    DEF Next, GameLoop, Terminated

\* A game on a board of any size is a match: the moves that its listeners hear
\* of are moves of the player to move, numbered without a gap, until the end.
\* (That the match goes on when it can is left to the model checker.)
THEOREM GameIsMatch == Spec => Played!Safety
  <1>1. Init => Played!Init
    BY DEF Init, Played!Init
  <1>2. QED
    BY <1>1, StepIsPlayed, Invariance, PTL DEF Spec, Played!Safety
=============================================================================
