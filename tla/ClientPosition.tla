---------------------------- MODULE ClientPosition ----------------------------
(***************************************************************************)
(* What the client keeps of the game: Position, which applies the numbered *)
(* deltas of the server, and the chat of the client's SessionManager.      *)
(*                                                                         *)
(* The games of a server are numbered, and a message carries the number of *)
(* its game.  The board stands for the moves applied to it, and boardOf is *)
(* the game whose configuration gave the board its size.                   *)
(***************************************************************************)
EXTENDS Naturals, Sequences

CONSTANTS
    MaxGames,       \* Bound: games, and connections of the client.
    MaxTurns,       \* Bound: moves of a game.
    MaxChats        \* Bound: chat messages of a game.

ASSUME PositionAssumption == MaxGames \in Nat \ {0} /\ MaxTurns \in Nat /\ MaxChats \in Nat

GameNumber == 1 .. MaxGames

ServerGameConfig == [type : {"config"}, game : GameNumber]

ServerDelta == [type : {"delta"}, game : GameNumber, turn : 1 .. MaxTurns, gameActive : BOOLEAN]

ServerChat == [type : {"chat"}, game : GameNumber, messageId : 1 .. MaxChats]

ServerEvent == ServerGameConfig \cup ServerDelta \cup ServerChat

-----------------------------------------------------------------------------
(* Position.                                                               *)

GameStatus == {"Idle", "Ready", "Active", "Done"}

Position == [moveId : 0 .. MaxTurns, status : GameStatus, boardOf : {0} \cup GameNumber,
             moves : Seq(ServerDelta)]

reset == [moveId |-> 0, status |-> "Idle", boardOf |-> 0, moves |-> <<>>]

setStatus(position, status) == [position EXCEPT !.status = status]

\* A configuration is refused during a game.
init(position, config) ==
    IF position.status = "Active" THEN position
    ELSE [moveId |-> 0, status |-> "Active", boardOf |-> config.game, moves |-> <<>>]

\* A mutation of isDeltaApplicable: a delta after a gap is applied.
ApplicableAfterGap(position, delta) ==
    /\ position.status = "Active"
    /\ delta.turn > position.moveId

\* Only the delta of the next move.
isDeltaApplicable(position, delta) ==
    /\ position.status = "Active"
    /\ delta.turn > position.moveId
    /\ delta.turn <= position.moveId + 1

apply(position, delta) ==
    IF ~ isDeltaApplicable(position, delta) THEN position
    ELSE [moveId  |-> delta.turn,
          status  |-> IF delta.gameActive THEN "Active" ELSE "Done",
          boardOf |-> position.boardOf,
          moves   |-> Append(position.moves, delta)]

-----------------------------------------------------------------------------
(* The chat.                                                               *)

Chat == [expectedMessageId : 1 .. MaxChats + 1, history : Seq(ServerChat),
         pending : SUBSET ServerChat]

clear == [expectedMessageId |-> 1, history |-> <<>>, pending |-> {}]

\* The pending message with a number, if there is one.
PendingWith(pending, id) == {e \in pending : e.messageId = id}

\* emplace: a number that is pending already keeps its message.
emplace(pending, event) ==
    IF PendingWith(pending, event.messageId) = {} THEN pending \cup {event} ELSE pending

\* A mutation of AppendNext: the pending messages that follow stay pending.
AppendOnlyFirst(chat) ==
    LET first == PendingWith(chat.pending, chat.expectedMessageId)
    IN  IF first = {} THEN chat
        ELSE [expectedMessageId |-> chat.expectedMessageId + 1,
              history |-> Append(chat.history, CHOOSE e \in first : TRUE),
              pending |-> chat.pending \ first]

\* The pending messages that are next move to the history, until one is missing.
AppendNext(chat) ==
    LET next    == chat.expectedMessageId
        missing == CHOOSE id \in next .. MaxChats + 1 :
                       /\ PendingWith(chat.pending, id) = {}
                       /\ \A k \in next .. id - 1 : PendingWith(chat.pending, k) # {}
    IN  [expectedMessageId |-> missing,
         history |-> chat.history \o
             [i \in 1 .. missing - next |->
                 CHOOSE e \in PendingWith(chat.pending, next + i - 1) : TRUE],
         pending |-> {e \in chat.pending : e.messageId \notin next .. missing - 1}]

\* A mutation of onChatMessage: the expected number is counted up each time.
CountEveryMessage(chat, event) ==
    [chat EXCEPT !.expectedMessageId = @ + 1,
                 !.history = IF event.messageId = chat.expectedMessageId
                             THEN Append(@, event) ELSE @]

\* A message that was seen is ignored; the expected one passes through the
\* pending ones, where its number is never taken.
onChatMessage(chat, event) ==
    AppendNext(IF event.messageId < chat.expectedMessageId THEN chat
               ELSE [chat EXCEPT !.pending = emplace(@, event)])

-----------------------------------------------------------------------------
(* Properties of the two, for the modules that use them.                   *)

\* The board shows the moves 1 to moveId, each once and in order, none of an
\* earlier game after one of a later game, and the game is over when the last
\* of them ended it.
ShowsMovesInOrder(position) ==
    /\ Len(position.moves) = position.moveId
    /\ \A i \in 1 .. Len(position.moves) :
           /\ position.moves[i].turn = i
           /\ \A j \in 1 .. i : position.moves[j].game <= position.moves[i].game
           /\ position.moves[i].gameActive <=> ~ (i = position.moveId /\ position.status = "Done")
    /\ position.status \in {"Idle", "Ready"} => position.moves = <<>>

\* The history has no gap, and what is pending waits for a message that is
\* missing.
NoGapInHistory(chat) ==
    /\ Len(chat.history) + 1 = chat.expectedMessageId
    /\ \A i \in 1 .. Len(chat.history) : chat.history[i].messageId = i
    /\ \A e \in chat.pending : e.messageId > chat.expectedMessageId
    /\ \A e, f \in chat.pending : e.messageId = f.messageId => e = f
=============================================================================
