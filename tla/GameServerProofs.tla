--------------------------- MODULE GameServerProofs ---------------------------
(***************************************************************************)
(* For any number of clients and any messages from them: what the game     *)
(* server's clients show is the game, and every move comes from the client *)
(* that has the seat.                                                      *)
(*                                                                         *)
(* That a client shows the moves up to the last one, or to the one before  *)
(* while it is yet to be visited, needs to know which event a broadcast    *)
(* under way sends, that it can be read back (the round trips of the       *)
(* messages, which come first), that a connected session with a seat is    *)
(* active, and that the listener is there while clients are.  That the     *)
(* configuration finds no game begun needs that no move waits while it is  *)
(* broadcast.  That a move has a call of its own needs the same of the     *)
(* moves in the queue of the game, with the calls in the order of both.    *)
(***************************************************************************)
EXTENDS GameServer, SequenceTheorems, WellFoundedInduction, TLAPS

-----------------------------------------------------------------------------
(***************************************************************************)
(* The messages.  What a peer writes the other one reads, for every event; *)
(* and what is read from any object at all is an event with fields that    *)
(* agree.                                                                  *)
(***************************************************************************)

EventOfClient ==
    {ClientPutStone(c) : c \in Point} \cup {ClientPass, ClientResign}
    \cup {ClientChat(text) : text \in Text}

-----------------------------------------------------------------------------
(* Numbers and keys.                                                       *)

\* An object has one type.
LEMMA OneType ==
    ASSUME NEW j, NEW type, HasType(j, type)
    PROVE  \A other : HasType(j, other) <=> other = type
  BY DEF HasType

\* A number that unsigned holds is read as it was written.
LEMMA NumberIsKept ==
    ASSUME NEW n \in UnsignedInt
    PROVE  n % UnsignedSize = n
  BY NwEventsAssumption DEF UnsignedInt

LEMMA PointIsKept ==
    ASSUME NEW c \in Point
    PROVE  /\ c[1] \in UnsignedInt /\ c[2] \in UnsignedInt
           /\ c = <<c[1], c[2]>>
           /\ c[1] % UnsignedSize = c[1] /\ c[2] % UnsignedSize = c[2]
  BY NumberIsKept DEF Point

-----------------------------------------------------------------------------
(* Events of a client.                                                     *)

LEMMA PutStoneRoundTrip ==
    ASSUME NEW c \in Point
    PROVE  fromClientMessage(toClientMessage(ClientPutStone(c))) = {ClientPutStone(c)}
  <1> DEFINE j == toClientMessage(ClientPutStone(c))
  <1>1. /\ j["type"] = String("put")
        /\ j["x"] = Unsigned(c[1])
        /\ j["y"] = Unsigned(c[2])
    BY DEF toClientMessage, ClientPutStone, Object, Key
  <1> HIDE DEF j
  <1>2. HasType(j, "put") /\ HasCoord(j)
    BY <1>1 DEF HasType, HasCoord, is_string, is_number_unsigned, String, Unsigned
  <1>3. ~ HasType(j, "pass") /\ ~ HasType(j, "resign") /\ ~ HasType(j, "chat")
    BY <1>2, OneType
  <1>4. get(j, "x") = c[1] /\ get(j, "y") = c[2]
    BY <1>1, PointIsKept DEF get, Unsigned
  <1>5. fromClientMessage(j) = {ClientPutStone(<<get(j, "x"), get(j, "y")>>)}
    BY <1>2, <1>3 DEF fromClientMessage
  <1> QED
    BY <1>4, <1>5, PointIsKept DEF j

LEMMA PlainRoundTrip ==
    ASSUME NEW event \in {ClientPass, ClientResign}
    PROVE  fromClientMessage(toClientMessage(event)) = {event}
  <1> DEFINE j == toClientMessage(event)
  <1>1. event = [type |-> event.type] /\ event.type \in {"pass", "resign"}
    BY DEF ClientPass, ClientResign
  <1>2. j["type"] = String(event.type)
    BY <1>1 DEF toClientMessage, Object, Key
  <1> HIDE DEF j
  <1>3. HasType(j, event.type)
    BY <1>2 DEF HasType, is_string, String
  <1>4. /\ HasType(j, "pass") <=> event.type = "pass"
        /\ HasType(j, "resign") <=> event.type = "resign"
        /\ ~ HasType(j, "put") /\ ~ HasType(j, "chat")
    BY <1>1, <1>3, OneType
  <1>5. fromClientMessage(j) = {event}
    BY <1>1, <1>4 DEF fromClientMessage, ClientPass, ClientResign
  <1> QED
    BY <1>5 DEF j

LEMMA ClientChatRoundTrip ==
    ASSUME NEW text \in Text
    PROVE  fromClientMessage(toClientMessage(ClientChat(text))) = {ClientChat(text)}
  <1> DEFINE j == toClientMessage(ClientChat(text))
  <1>1. j["type"] = String("chat") /\ j["message"] = String(text)
    BY DEF toClientMessage, ClientChat, Object, Key
  <1> HIDE DEF j
  <1>2. HasType(j, "chat") /\ is_string(j, "message") /\ j["message"].text = text
    BY <1>1 DEF HasType, is_string, String
  <1>3. ~ HasType(j, "put") /\ ~ HasType(j, "pass") /\ ~ HasType(j, "resign")
    BY <1>2, OneType
  <1> QED
    BY <1>2, <1>3 DEF fromClientMessage, j

\* The server reads the event that the client wrote, and no other.
THEOREM ClientRoundTrip ==
    ASSUME NEW event \in EventOfClient
    PROVE  fromClientMessage(toClientMessage(event)) = {event}
  BY PutStoneRoundTrip, PlainRoundTrip, ClientChatRoundTrip DEF EventOfClient

-----------------------------------------------------------------------------
(* Events of the server.                                                   *)

\* The numbers of the enumerations are different, and one byte holds them.
LEMMA CodesAreKept ==
    /\ \A n \in 0 .. 8 : (n % UnsignedSize) % EnumSize = n
    /\ \A s \in Player : Decoded(SeatCode, SeatCode[s]) = s /\ IsPlayerSeat(SeatCode[s])
    /\ \A a \in DOMAIN ServerActionCode :
           /\ Decoded(ServerActionCode, ServerActionCode[a]) = a
           /\ IsCode(ServerActionCode, ServerActionCode[a])
    /\ \A g \in DOMAIN GameStatusCode :
           /\ Decoded(GameStatusCode, GameStatusCode[g]) = g
           /\ IsCode(GameStatusCode, GameStatusCode[g])
  <1>1. \A n \in 0 .. 8 : (n % UnsignedSize) % EnumSize = n
    BY NwEventsAssumption DEF EnumSize
  <1>2. \A s \in Player : Decoded(SeatCode, SeatCode[s]) = s /\ IsPlayerSeat(SeatCode[s])
    BY DEF Player, Decoded, SeatCode, IsPlayerSeat
  <1>3. \A a \in DOMAIN ServerActionCode :
            /\ Decoded(ServerActionCode, ServerActionCode[a]) = a
            /\ IsCode(ServerActionCode, ServerActionCode[a])
    BY DEF Decoded, ServerActionCode, IsCode
  <1>4. \A g \in DOMAIN GameStatusCode :
            /\ Decoded(GameStatusCode, GameStatusCode[g]) = g
            /\ IsCode(GameStatusCode, GameStatusCode[g])
    BY DEF Decoded, GameStatusCode, IsCode
  <1> QED
    BY <1>1, <1>2, <1>3, <1>4

\* The point d in the array of captures.
CaptureItem(d) == <<Unsigned(d[1]), Unsigned(d[2])>>

LEMMA ItemIsKept ==
    ASSUME NEW d \in Point
    PROVE  /\ IsPoint(CaptureItem(d))
           /\ <<CaptureItem(d)[1].number % UnsignedSize,
                CaptureItem(d)[2].number % UnsignedSize>> = d
  <1>1. CaptureItem(d)[1] = Unsigned(d[1]) /\ CaptureItem(d)[2] = Unsigned(d[2])
    BY DEF CaptureItem
  <1>2. DOMAIN CaptureItem(d) = {1, 2}
    BY DEF CaptureItem
  <1>3. IsPoint(CaptureItem(d))
    BY <1>1, <1>2 DEF IsPoint, Unsigned
  <1> QED
    BY <1>1, <1>3, PointIsKept DEF Unsigned

\* What the message of a delta holds.
LEMMA DeltaFields ==
    ASSUME NEW delta \in ServerDelta
    PROVE  LET j == DeltaMessage(delta)
               isPlace == delta.action = "Place"
           IN  /\ j["type"] = String("delta")
               /\ j["turn"] = Unsigned(delta.turn)
               /\ j["seat"] = Unsigned(SeatCode[delta.seat])
               /\ j["action"] = Unsigned(ServerActionCode[delta.action])
               /\ j["next"] = Unsigned(SeatCode[delta.next])
               /\ j["status"] = Unsigned(GameStatusCode[delta.status])
               /\ isPlace => \E c \in Point : /\ delta.coord = {c}
                                              /\ j["x"] = Unsigned(c[1])
                                              /\ j["y"] = Unsigned(c[2])
               /\ ~ isPlace => j["x"] = Absent /\ j["y"] = Absent
               /\ j["captures"] = IF isPlace /\ delta.captures # {}
                                  THEN Array({CaptureItem(d) : d \in delta.captures})
                                  ELSE Absent
  <1> DEFINE j0 == [Object("delta") EXCEPT
                    !["turn"]   = Unsigned(delta.turn),
                    !["seat"]   = Unsigned(SeatCode[delta.seat]),
                    !["action"] = Unsigned(ServerActionCode[delta.action]),
                    !["next"]   = Unsigned(SeatCode[delta.next]),
                    !["status"] = Unsigned(GameStatusCode[delta.status])]
  <1>1. /\ DOMAIN j0 = Key
        /\ j0["type"] = String("delta")
        /\ j0["turn"] = Unsigned(delta.turn)
        /\ j0["seat"] = Unsigned(SeatCode[delta.seat])
        /\ j0["action"] = Unsigned(ServerActionCode[delta.action])
        /\ j0["next"] = Unsigned(SeatCode[delta.next])
        /\ j0["status"] = Unsigned(GameStatusCode[delta.status])
        /\ j0["x"] = Absent /\ j0["y"] = Absent /\ j0["captures"] = Absent
    BY DEF Object, Key
  <1> HIDE DEF j0
  <1>2. DeltaMessage(delta) = IF delta.action = "Place" THEN PlaceFields(j0, delta) ELSE j0
    BY DEF DeltaMessage, j0
  <1>3. CASE delta.action # "Place"
    BY <1>1, <1>2, <1>3
  <1>4. CASE delta.action = "Place"
    <2>1. PICK c \in Point : delta.coord = {c}
      BY <1>4 DEF ServerDelta
    <2>2. (CHOOSE d \in delta.coord : TRUE) = c
      BY <2>1
    <2>3. PlaceFields(j0, delta) =
              [j0 EXCEPT !["x"] = Unsigned(c[1]), !["y"] = Unsigned(c[2]),
                         !["captures"] = IF delta.captures = {} THEN Absent
                             ELSE Array({CaptureItem(d) : d \in delta.captures})]
      BY <2>2 DEF PlaceFields, CaptureItem
    <2> QED
      BY <1>1, <1>2, <1>4, <2>1, <2>3 DEF Key
  <1> QED
    BY <1>3, <1>4

LEMMA DeltaRoundTrip ==
    ASSUME NEW delta \in ServerDelta
    PROVE  fromServerDeltaMessage(DeltaMessage(delta)) = {delta}
  <1> DEFINE j == DeltaMessage(delta)
             isPlace == delta.action = "Place"
  <1>1. /\ j["turn"] = Unsigned(delta.turn)
        /\ j["seat"] = Unsigned(SeatCode[delta.seat])
        /\ j["action"] = Unsigned(ServerActionCode[delta.action])
        /\ j["next"] = Unsigned(SeatCode[delta.next])
        /\ j["status"] = Unsigned(GameStatusCode[delta.status])
        /\ isPlace => \E c \in Point : /\ delta.coord = {c}
                                       /\ j["x"] = Unsigned(c[1])
                                       /\ j["y"] = Unsigned(c[2])
        /\ ~ isPlace => j["x"] = Absent /\ j["y"] = Absent
        /\ j["captures"] = IF isPlace /\ delta.captures # {}
                           THEN Array({CaptureItem(d) : d \in delta.captures})
                           ELSE Absent
    BY DeltaFields
  <1> HIDE DEF j
  <1>2. /\ delta.turn \in UnsignedInt /\ delta.seat \in Player /\ delta.next \in Player
        /\ delta.action \in DOMAIN ServerActionCode /\ delta.status \in DOMAIN GameStatusCode
        /\ delta.captures \subseteq Point
        /\ ~ isPlace => delta.coord = {} /\ delta.captures = {}
        /\ delta = [type |-> "delta", turn |-> delta.turn, seat |-> delta.seat,
                    action |-> delta.action, coord |-> delta.coord,
                    captures |-> delta.captures, next |-> delta.next, status |-> delta.status]
    BY DEF ServerDelta
  <1>3. /\ get(j, "turn") = delta.turn
        /\ ToEnum(j, "seat") = SeatCode[delta.seat]
        /\ ToEnum(j, "next") = SeatCode[delta.next]
        /\ ToEnum(j, "action") = ServerActionCode[delta.action]
        /\ ToEnum(j, "status") = GameStatusCode[delta.status]
    <2>1. /\ SeatCode[delta.seat] \in 0 .. 8 /\ SeatCode[delta.next] \in 0 .. 8
          /\ ServerActionCode[delta.action] \in 0 .. 8
          /\ GameStatusCode[delta.status] \in 0 .. 8
      BY <1>2 DEF SeatCode, Player, ServerActionCode, GameStatusCode
    <2>2. get(j, "turn") = delta.turn
      BY <1>1, <1>2, NumberIsKept DEF get, Unsigned
    <2> QED
      BY <1>1, <2>1, <2>2, CodesAreKept DEF ToEnum, get, Unsigned
  <1>4. isPlace => HasCoord(j) /\ {<<get(j, "x"), get(j, "y")>>} = delta.coord
    <2>1. SUFFICES ASSUME NEW c \in Point, delta.coord = {c},
                          j["x"] = Unsigned(c[1]), j["y"] = Unsigned(c[2])
                   PROVE  HasCoord(j) /\ {<<get(j, "x"), get(j, "y")>>} = delta.coord
      BY <1>1
    <2> QED
      BY <2>1, PointIsKept DEF HasCoord, is_number_unsigned, get, Unsigned
  <1>5. ~ isPlace => /\ ~ contains(j, "x") /\ ~ contains(j, "y") /\ ~ contains(j, "captures")
                     /\ ~ HasCoord(j)
    BY <1>1, <1>2 DEF contains, Absent, HasCoord, is_number_unsigned
  <1>6. contains(j, "captures") => HasCaptures(j)
    BY <1>1, <1>2, ItemIsKept DEF contains, HasCaptures, is_array, Absent, Array
  <1>7. CapturesOf(j) = delta.captures
    <2>1. CASE delta.captures = {}
      BY <1>1, <2>1 DEF CapturesOf, contains, Absent
    <2>2. CASE delta.captures # {}
      <3>1. contains(j, "captures") /\ j["captures"].items = {CaptureItem(d) : d \in delta.captures}
        BY <1>1, <1>2, <2>2 DEF contains, Array
      <3>2. CapturesOf(j) = {<<item[1].number % UnsignedSize, item[2].number % UnsignedSize>> :
                                 item \in {CaptureItem(d) : d \in delta.captures}}
        BY <3>1 DEF CapturesOf
      <3> QED
        BY <1>2, <3>2, ItemIsKept
    <2> QED
      BY <2>1, <2>2
  <1>8. IsDelta(j)
    <2>1. \A key \in {"turn", "seat", "action", "next", "status"} : is_number_unsigned(j, key)
      BY <1>1 DEF is_number_unsigned, Unsigned
    <2>2. /\ IsCode(ServerActionCode, ToEnum(j, "action"))
          /\ IsCode(GameStatusCode, ToEnum(j, "status"))
          /\ IsPlayerSeat(ToEnum(j, "seat")) /\ IsPlayerSeat(ToEnum(j, "next"))
      BY <1>2, <1>3, CodesAreKept
    <2>3. ToEnum(j, "action") = ServerActionCode.Place <=> isPlace
      BY <1>2, <1>3 DEF ServerActionCode
    <2> QED
      BY <1>4, <1>5, <1>6, <2>1, <2>2, <2>3 DEF IsDelta
  <1>9. DeltaOf(j) = delta
    <2>1. /\ Decoded(SeatCode, ToEnum(j, "seat")) = delta.seat
          /\ Decoded(SeatCode, ToEnum(j, "next")) = delta.next
          /\ Decoded(ServerActionCode, ToEnum(j, "action")) = delta.action
          /\ Decoded(GameStatusCode, ToEnum(j, "status")) = delta.status
      BY <1>2, <1>3, CodesAreKept
    <2>2. (IF HasCoord(j) THEN {<<get(j, "x"), get(j, "y")>>} ELSE {}) = delta.coord
      BY <1>2, <1>4, <1>5
    <2> QED
      BY <1>2, <1>3, <1>7, <2>1, <2>2 DEF DeltaOf
  <1> QED
    BY <1>8, <1>9 DEF fromServerDeltaMessage, j

LEMMA SessionRoundTrip ==
    ASSUME NEW sessionId \in UnsignedInt
    PROVE  fromServerMessage(toServerMessage(ServerSessionAssign(sessionId)))
               = {ServerSessionAssign(sessionId)}
  <1> DEFINE j == toServerMessage(ServerSessionAssign(sessionId))
  <1>1. j["type"] = String("session") /\ j["sessionId"] = Unsigned(sessionId)
    BY DEF toServerMessage, ServerSessionAssign, Object, Key
  <1> HIDE DEF j
  <1>2. HasType(j, "session") /\ is_number_unsigned(j, "sessionId")
    BY <1>1 DEF HasType, is_string, String, is_number_unsigned, Unsigned
  <1>3. ~ HasType(j, "config") /\ ~ HasType(j, "delta") /\ ~ HasType(j, "chat")
    BY <1>2, OneType
  <1>4. get(j, "sessionId") = sessionId
    BY <1>1, NumberIsKept DEF get, Unsigned
  <1> QED
    BY <1>2, <1>3, <1>4 DEF fromServerMessage, j

LEMMA ConfigRoundTrip ==
    ASSUME NEW boardSize \in UnsignedInt
    PROVE  fromServerMessage(toServerMessage(ServerGameConfig(boardSize)))
               = {ServerGameConfig(boardSize)}
  <1> DEFINE j == toServerMessage(ServerGameConfig(boardSize))
  <1>1. /\ j["type"] = String("config") /\ j["boardSize"] = Unsigned(boardSize)
        /\ j["komi"] = Float(Komi) /\ j["time"] = Unsigned(0)
    BY DEF toServerMessage, ServerGameConfig, Object, Key
  <1> HIDE DEF j
  <1>2. HasType(j, "config") /\ IsConfig(j)
    BY <1>1 DEF HasType, is_string, String, IsConfig, is_number_unsigned, is_number,
                Unsigned, Float
  <1>3. ~ HasType(j, "session") /\ ~ HasType(j, "delta") /\ ~ HasType(j, "chat")
    BY <1>2, OneType
  <1>4. get(j, "boardSize") = boardSize
    BY <1>1, NumberIsKept DEF get, Unsigned
  <1> QED
    BY <1>2, <1>3, <1>4 DEF fromServerMessage, j

LEMMA ServerChatRoundTrip ==
    ASSUME NEW player \in Player, NEW messageId \in UnsignedInt, NEW text \in Text
    PROVE  fromServerMessage(toServerMessage(ServerChat(player, messageId, text)))
               = {ServerChat(player, messageId, text)}
  <1> DEFINE j == toServerMessage(ServerChat(player, messageId, text))
  <1>1. /\ j["type"] = String("chat") /\ j["player"] = Unsigned(PlayerCode[player])
        /\ j["messageId"] = Unsigned(messageId) /\ j["message"] = String(text)
    BY DEF toServerMessage, ServerChat, Object, Key
  <1> HIDE DEF j
  <1>2. /\ PlayerCode[player] % UnsignedSize = PlayerCode[player]
        /\ IsCode(PlayerCode, PlayerCode[player])
        /\ Decoded(PlayerCode, PlayerCode[player]) = player
    <2>1. PlayerCode[player] \in UnsignedInt
      BY NwEventsAssumption DEF UnsignedInt, PlayerCode, Player
    <2> QED
      BY <2>1, NumberIsKept DEF PlayerCode, Player, IsCode, Decoded
  <1>3. get(j, "player") = PlayerCode[player] /\ get(j, "messageId") = messageId
    BY <1>1, <1>2, NumberIsKept DEF get, Unsigned
  <1>4. HasType(j, "chat") /\ IsChat(j) /\ j["message"].text = text
    BY <1>1, <1>2, <1>3 DEF HasType, is_string, String, IsChat, is_number_unsigned, Unsigned
  <1>5. ~ HasType(j, "session") /\ ~ HasType(j, "delta") /\ ~ HasType(j, "config")
    BY <1>4, OneType
  <1>6. fromServerMessage(j) =
            {ServerChat(Decoded(PlayerCode, get(j, "player")), get(j, "messageId"),
                        j["message"].text)}
    BY <1>4, <1>5 DEF fromServerMessage
  <1> QED
    BY <1>2, <1>3, <1>4, <1>6 DEF j

EventOfServer ==
    {ServerSessionAssign(n) : n \in UnsignedInt} \cup {ServerGameConfig(n) : n \in UnsignedInt}
    \cup ServerDelta
    \cup {ServerChat(e.player, e.messageId, e.message) :
              e \in [player : Player, messageId : UnsignedInt, message : Text]}

\* The client reads the event that the server wrote, and no other.
THEOREM ServerRoundTrip ==
    ASSUME NEW event \in EventOfServer
    PROVE  fromServerMessage(toServerMessage(event)) = {event}
  <1>1. CASE event \in ServerDelta
    <2> DEFINE j == toServerMessage(event)
    <2>1. j = DeltaMessage(event)
      BY <1>1 DEF ServerDelta, toServerMessage
    <2>2. j["type"] = String("delta")
      BY <1>1, <2>1, DeltaFields
    <2> HIDE DEF j
    <2>3. HasType(j, "delta")
      BY <2>2 DEF HasType, is_string, String
    <2>4. ~ HasType(j, "session") /\ ~ HasType(j, "chat") /\ ~ HasType(j, "config")
      BY <2>3, OneType
    <2>5. fromServerMessage(j) = fromServerDeltaMessage(j)
      BY <2>3, <2>4 DEF fromServerMessage
    <2> QED
      BY <1>1, <2>1, <2>5, DeltaRoundTrip DEF j
  <1>2. CASE event \notin ServerDelta
    BY <1>2, SessionRoundTrip, ConfigRoundTrip, ServerChatRoundTrip DEF EventOfServer
  <1> QED
    BY <1>1, <1>2

-----------------------------------------------------------------------------
(* What is read from any object.                                           *)

\* The numbers of a JSON object that are unsigned.
HoldsNumbers(j) ==
    /\ \A key \in Key : j[key].kind = "unsigned" => j[key].number \in Nat
    /\ j["captures"].kind = "array" =>
           \A item \in j["captures"].items : \A i \in DOMAIN item :
               item[i].kind = "unsigned" => item[i].number \in Nat

\* Whatever object comes in, the delta that is read has the fields of its
\* action: a stone has a point, and only a stone captures.  The position of the
\* client applies it without looking again.
THEOREM DeltaIsWellFormed ==
    ASSUME NEW j, HoldsNumbers(j), NEW delta \in fromServerDeltaMessage(j)
    PROVE  delta \in ServerDelta
  <1>1. IsDelta(j) /\ delta = DeltaOf(j)
    BY DEF fromServerDeltaMessage
  <1>2. \A n \in Nat : n % UnsignedSize \in UnsignedInt
    BY NwEventsAssumption DEF UnsignedInt
  <1>3. get(j, "turn") \in UnsignedInt
    BY <1>1, <1>2 DEF IsDelta, HoldsNumbers, get, is_number_unsigned, Key
  <1>4. HasCoord(j) => <<get(j, "x"), get(j, "y")>> \in Point
    BY <1>2 DEF HasCoord, HoldsNumbers, get, is_number_unsigned, Key, Point
  <1>5. /\ \A n : IsPlayerSeat(n) => Decoded(SeatCode, n) \in Player
        /\ \A n : IsCode(ServerActionCode, n) =>
               /\ Decoded(ServerActionCode, n) \in DOMAIN ServerActionCode
               /\ Decoded(ServerActionCode, n) = "Place" <=> n = ServerActionCode.Place
        /\ \A n : IsCode(GameStatusCode, n) => Decoded(GameStatusCode, n) \in DOMAIN GameStatusCode
    <2>1. \A n : IsPlayerSeat(n) => Decoded(SeatCode, n) \in Player
      BY DEF IsPlayerSeat, Decoded, SeatCode, Player
    <2>2. ASSUME NEW n, IsCode(ServerActionCode, n)
          PROVE  /\ Decoded(ServerActionCode, n) \in DOMAIN ServerActionCode
                 /\ Decoded(ServerActionCode, n) = "Place" <=> n = ServerActionCode.Place
      BY <2>2 DEF IsCode, Decoded, ServerActionCode
    <2>3. ASSUME NEW n, IsCode(GameStatusCode, n)
          PROVE  Decoded(GameStatusCode, n) \in DOMAIN GameStatusCode
      BY <2>3 DEF IsCode, Decoded, GameStatusCode
    <2> QED
      BY <2>1, <2>2, <2>3
  <1>6. ASSUME contains(j, "captures"), HasCaptures(j)
        PROVE  CapturesOf(j) \subseteq Point
    <2>1. ASSUME NEW item \in j["captures"].items
          PROVE  <<item[1].number % UnsignedSize, item[2].number % UnsignedSize>> \in Point
      <3>1. item[1].number \in Nat /\ item[2].number \in Nat
        BY <1>6, <2>1 DEF HasCaptures, is_array, IsPoint, HoldsNumbers
      <3> QED
        BY <1>2, <3>1 DEF Point
    <2> QED
      BY <1>6, <2>1 DEF CapturesOf
  <1>7. /\ delta.action = "Place" <=> ToEnum(j, "action") = ServerActionCode.Place
        /\ delta.action \in DOMAIN ServerActionCode
        /\ delta.status \in DOMAIN GameStatusCode
        /\ delta.seat \in Player /\ delta.next \in Player
    BY <1>1, <1>5 DEF IsDelta, DeltaOf
  <1>8. CASE delta.action = "Place"
    <2>1. HasCoord(j) /\ (contains(j, "captures") => HasCaptures(j))
      BY <1>1, <1>7, <1>8 DEF IsDelta
    <2>2. CapturesOf(j) \subseteq Point
      BY <1>6, <2>1 DEF CapturesOf
    <2>3. delta.coord = {<<get(j, "x"), get(j, "y")>>} /\ delta.captures = CapturesOf(j)
      BY <1>1, <2>1 DEF DeltaOf
    <2> QED
      BY <1>1, <1>3, <1>4, <1>7, <1>8, <2>1, <2>2, <2>3 DEF DeltaOf, ServerDelta
  <1>9. CASE delta.action # "Place"
    <2>1. ~ contains(j, "x") /\ ~ contains(j, "captures")
      BY <1>1, <1>7, <1>9 DEF IsDelta
    <2>2. delta.coord = {} /\ delta.captures = {}
      BY <1>1, <2>1 DEF DeltaOf, CapturesOf, HasCoord, contains, is_number_unsigned
    <2> QED
      BY <1>1, <1>3, <1>7, <1>9, <2>2 DEF DeltaOf, ServerDelta
  <1> QED
    BY <1>8, <1>9

-----------------------------------------------------------------------------
(***************************************************************************)
(* The game server.                                                        *)
(***************************************************************************)

\* What the io thread puts in the queue of the session server.
QueueEvent ==
    [type : {"Shutdown"}]
    \cup [type : {"ClientConnected", "ClientDisconnected"}, session : SessionId]
    \cup [type : {"ClientMessage"}, session : SessionId, payload : Payload]

\* A call of the handler.
Call == [session : SessionId, event : UNION {fromClientMessage(payload) : payload \in Payload}]

Types ==
    /\ gameThread \in {"none", "running", "ended"}
    /\ gameActive \in BOOLEAN
    /\ eventQueue \in Seq(Game!Event)
    /\ deltas \in Seq(Game!Delta)
    /\ listening \in BOOLEAN /\ joinable \in BOOLEAN /\ sawGameThread \in BOOLEAN
    /\ players \in [Player -> {0} \cup SessionId]
    /\ chatHistory \in Seq([player : Player, message : Text])
    /\ ownerPc \in {"start", "stop", "server", "network", "joinServer",
                    "unsubscribe", "joinGame", "done"}
    /\ isRunning \in BOOLEAN
    /\ serverQueue \in Seq(QueueEvent)
    /\ serverPc \in {"none", "pop", "broadcast", "ended"}
    /\ open \subseteq SessionId /\ active \subseteq SessionId
    /\ nextSession \in 1 .. MaxSessions + 1
    /\ seats \in [SessionId -> Seat]
    /\ sending \in [Thread -> SUBSET SessionId]
    /\ message = [t \in Thread |-> message[t]]
    /\ sent \in 0 .. MaxReceived
    /\ handled \in Seq(Call)
    /\ shown = [s \in SessionId |-> [position |-> shown[s].position, chat |-> shown[s].chat]]

\* A game begins after both players came and its thread was made, and stop ends
\* the server thread, the connections and the broadcasts before it is done.
Phases ==
    /\ ownerPc = "start" => serverPc = "none"
    /\ ownerPc \in {"unsubscribe", "joinGame", "done"} => serverPc \in {"none", "ended"}
    /\ ownerPc \in {"joinServer", "unsubscribe", "joinGame", "done"} => open = {}
    /\ ownerPc \in {"joinGame", "done"} => sending["game"] = {} /\ ~ listening
    /\ ~ listening => serverPc = "none" \/ ownerPc \in {"joinGame", "done"}
    /\ serverPc = "none" => ~ joinable /\ Sessions = {}
    /\ ~ joinable /\ ownerPc # "done" => gameThread = "none" /\ eventQueue = <<>>
    /\ gameThread = "none" => ~ gameActive /\ deltas = <<>>
    /\ joinable \/ gameThread # "none" => Sessions # {}

\* A session that has a seat is active until its connection is closed.
Connections ==
    /\ \A s \in SessionId :
           /\ s \in open \/ seats[s] # "None" => s < nextSession
           /\ s \in open /\ seats[s] # "None" => s \in active
    /\ \A i \in 1 .. Len(serverQueue) :
           /\ serverQueue[i].type = "ClientConnected" =>
                  seats[serverQueue[i].session] = "None" /\ serverQueue[i].session < nextSession
           /\ serverQueue[i].type = "ClientDisconnected" =>
                  serverQueue[i].session \notin open /\ serverQueue[i].session < nextSession
    /\ \A i, j \in 1 .. Len(serverQueue) :
           /\ i < j
           /\ serverQueue[i].type = "ClientConnected" /\ serverQueue[j].type = "ClientConnected"
           => serverQueue[i].session # serverQueue[j].session

\* The deltas are numbered, only the last one ends the game, and only a stone
\* has a coordinate.
DeltasAreMoves ==
    \A i \in 1 .. Len(deltas) :
        /\ deltas[i].moveId = i
        /\ i < Len(deltas) \/ gameActive => deltas[i].gameActive
        /\ IF deltas[i].action = "Place" THEN \E c \in Coord : deltas[i].coord = {c}
           ELSE deltas[i].coord = {} /\ deltas[i].captures = {}

\* Where the moves are in the queue of the game.
Moves == {i \in 1 .. Len(eventQueue) : eventQueue[i].type # "Shutdown"}

\* The chat message with the number i.
ChatEvent(i) == ServerChat(chatHistory[i].player, i, chatHistory[i].message)

\* A broadcast goes to sessions, and it sends the configuration before the first
\* move, or the last chat message, or the last delta.
Broadcasts ==
    /\ \A t \in Thread : sending[t] \subseteq Sessions /\ (sending[t] = {} => message[t] = <<>>)
    /\ serverPc = "broadcast" <=> sending["server"] # {}
    /\ sending["server"] # {} =>
           \/ message["server"] = ServerGameConfig(BoardSize) /\ deltas = <<>> /\ Moves = {}
           \/ chatHistory # <<>> /\ message["server"] = ChatEvent(Len(chatHistory))
    /\ sending["game"] # {} => deltas # <<>> /\ message["game"] = DeltaEvent(deltas[Len(deltas)])

\* The position of a client after n deltas.
MoveShown(delta) ==
    [turn |-> delta.moveId, gameActive |-> delta.gameActive, event |-> DeltaEvent(delta)]

PositionAfter(n) ==
    [moveId  |-> n,
     status  |-> IF n > 0 /\ ~ deltas[n].gameActive THEN "Done" ELSE "Active",
     boardOf |-> 1,
     moves   |-> [i \in 1 .. n |-> MoveShown(deltas[i])]]

\* A client shows nothing or the game up to some move: if it is connected, up to
\* the last one, or to the one before when it is yet to be visited.
PositionFollows(s) ==
    \/ shown[s].position = Client!reset
    \/ /\ seats[s] # "None"
       /\ \E n \in 0 .. Len(deltas) :
              /\ shown[s].position = PositionAfter(n)
              /\ s \in open => n = IF s \in sending["game"] THEN Len(deltas) - 1 ELSE Len(deltas)

PositionsFollow == \A s \in SessionId : PositionFollows(s)

\* A client shows the first messages of the chat, and keeps some later ones.
ChatAfter(n, pending) ==
    [expectedMessageId |-> n + 1, history |-> [i \in 1 .. n |-> ChatEvent(i)],
     pending |-> pending]

ChatFollows(s) ==
    \E n \in 0 .. Len(chatHistory) :
        \E pending \in SUBSET {ChatEvent(i) : i \in 1 .. Len(chatHistory)} :
            shown[s].chat = ChatAfter(n, pending)

ChatsFollow == \A s \in SessionId : ChatFollows(s)

\* A call that asks for the event of the game.
Asks(call, event) ==
    CASE event.type = "Put"    -> /\ call.event.type = "put"
                                  /\ event.c = call.event.c
                                  /\ seats[call.session] = event.player
      [] event.type = "Pass"   -> /\ call.event.type = "pass"
                                  /\ seats[call.session] = event.player
      [] event.type = "Resign" -> call.event.type = "resign"

\* Calls that led to the moves of the game, and calls that asked for those that
\* wait, in the order of the moves.
Causes(cause, origin) ==
    /\ \A i \in 1 .. Len(deltas) : LedTo(handled[cause[i]], deltas[i]) /\ i <= cause[i]
    /\ \A i, j \in 1 .. Len(deltas) : i < j => cause[i] < cause[j]
    /\ \A i \in Moves : Asks(handled[origin[i]], eventQueue[i])
    /\ \A i, j \in Moves : i < j => origin[i] < origin[j]
    /\ \A i \in 1 .. Len(deltas), j \in Moves : cause[i] < origin[j]

CausesInOrder ==
    \E cause \in [1 .. Len(deltas) -> 1 .. Len(handled)], origin \in [Moves -> 1 .. Len(handled)] :
        Causes(cause, origin)

\* Where the messages of clients are in the queue of the session server.
Waiting == {i \in 1 .. Len(serverQueue) : serverQueue[i].type = "ClientMessage"}

\* The messages that wait are some of those sent that no call was made for.
Counted ==
    /\ Len(chatHistory) <= Len(handled) /\ Len(handled) <= sent
    /\ \E number \in [Waiting -> Len(handled) + 1 .. sent] :
           \A i, j \in Waiting : i < j => number[i] < number[j]

IInv ==
    /\ Types /\ Phases /\ Connections /\ DeltasAreMoves /\ Broadcasts
    /\ PositionsFollow /\ ChatsFollow /\ CausesInOrder /\ Counted

-----------------------------------------------------------------------------
(* Queues, events and messages.                                            *)

LEMMA Popped ==
    ASSUME NEW S, NEW q \in Seq(S), q # <<>>
    PROVE  /\ Len(q) \in Nat /\ 1 \in 1 .. Len(q)
           /\ Head(q) = q[1] /\ Head(q) \in S
           /\ Tail(q) \in Seq(S) /\ Len(Tail(q)) = Len(q) - 1
           /\ \A i \in 1 .. Len(q) - 1 :
                  Tail(q)[i] = q[i + 1] /\ i + 1 \in 1 .. Len(q) /\ 1 < i + 1
  <1>1. Len(q) \in Nat /\ Len(q) # 0
    BY EmptySeq, LenProperties
  <1>2. /\ Head(q) \in S /\ Tail(q) \in Seq(S) /\ Len(Tail(q)) = Len(q) - 1
        /\ \A i \in 1 .. Len(Tail(q)) : Tail(q)[i] = q[i + 1]
    BY HeadTailProperties
  <1>3. \A n \in Nat : n # 0 =>
            1 \in 1 .. n /\ \A i \in 1 .. n - 1 : i + 1 \in 1 .. n /\ 1 < i + 1
    OBVIOUS
  <1>4. Head(q) = q[1]
    OBVIOUS
  <1> QED
    BY <1>1, <1>2, <1>3, <1>4

LEMMA Pushed ==
    ASSUME NEW S, NEW q \in Seq(S), NEW e \in S
    PROVE  /\ Len(q) \in Nat
           /\ Append(q, e) \in Seq(S) /\ Len(Append(q, e)) = Len(q) + 1
           /\ \A i \in 1 .. Len(q) : Append(q, e)[i] = q[i] /\ i \in 1 .. Len(q) + 1
           /\ Append(q, e)[Len(q) + 1] = e /\ Len(q) + 1 \in 1 .. Len(q) + 1
           /\ \A i \in 1 .. Len(q) + 1 : i \in 1 .. Len(q) \/ i = Len(q) + 1
           /\ Append(q, e) # q
  <1>1. Len(q) \in Nat
    BY LenProperties
  <1>2. /\ Append(q, e) \in Seq(S) /\ Len(Append(q, e)) = Len(q) + 1
        /\ \A i \in 1 .. Len(q) : Append(q, e)[i] = q[i]
        /\ Append(q, e)[Len(q) + 1] = e
    BY AppendProperties
  <1>3. \A n \in Nat : /\ \A i \in 1 .. n : i \in 1 .. n + 1
                       /\ n + 1 \in 1 .. n + 1 /\ n + 1 # n
                       /\ \A i \in 1 .. n + 1 : i \in 1 .. n \/ i = n + 1
    OBVIOUS
  <1> QED
    BY <1>1, <1>2, <1>3

\* What the io thread queued, by its type.
LEMMA QueueShape ==
    ASSUME NEW e \in QueueEvent
    PROVE  /\ e.type \in {"Shutdown", "ClientConnected", "ClientDisconnected", "ClientMessage"}
           /\ e.type # "Shutdown" => e.session \in SessionId
           /\ e.type = "ClientMessage" => e.payload \in Payload
BY DEF QueueEvent

\* What the server thread takes from the queue.
LEMMA PopFacts ==
    ASSUME Types, NEW type, Pop(type)
    PROVE  /\ serverPc = "pop" /\ serverQueue # <<>> /\ serverQueue' = Tail(serverQueue)
           /\ Len(serverQueue) \in Nat /\ 1 \in 1 .. Len(serverQueue)
           /\ Head(serverQueue) = serverQueue[1] /\ Head(serverQueue) \in QueueEvent
           /\ Head(serverQueue).type = type
           /\ serverQueue' \in Seq(QueueEvent) /\ Len(serverQueue') = Len(serverQueue) - 1
           /\ \A i \in 1 .. Len(serverQueue) - 1 :
                  /\ serverQueue'[i] = serverQueue[i + 1]
                  /\ i + 1 \in 1 .. Len(serverQueue) /\ 1 < i + 1
           /\ UNCHANGED <<listening, ownerPc, sawGameThread, open, nextSession, sent>>
  <1>1. /\ serverPc = "pop" /\ serverQueue # <<>> /\ serverQueue' = Tail(serverQueue)
        /\ Head(serverQueue).type = type
        /\ UNCHANGED <<listening, ownerPc, sawGameThread, open, nextSession, sent>>
    BY DEF Pop, networkVars
  <1>2. serverQueue \in Seq(QueueEvent)
    BY DEF Types
  <1> QED
    BY <1>1, <1>2, Popped

\* What a message asks for.
LEMMA IntentFacts ==
    ASSUME Types, NEW e \in QueueEvent, e.type = "ClientMessage", NEW c \in Intents(e)
    PROVE  /\ e.session \in SessionId /\ seats[e.session] \in Player
           /\ PlayerOf(seats[e.session]) = seats[e.session]
           /\ [session |-> e.session, event |-> c] \in Call
           /\ c.type \in {"put", "pass", "resign", "chat"}
           /\ c.type = "put" => c.c \in EventCoord
           /\ c.type = "chat" => c.message \in Text
  <1>1. e.session \in SessionId /\ e.payload \in Payload
    BY QueueShape
  <1>2. seats[e.session] \in Player /\ c \in fromClientMessage(e.payload)
    BY DEF Intents, isPlayer
  <1>3. c.type \in {"put", "pass", "resign", "chat"}
    BY <1>2 DEF fromClientMessage, ClientPutStone, ClientPass, ClientResign, ClientChat
  <1>4. PlayerOf(seats[e.session]) = seats[e.session]
    BY <1>2 DEF Player, PlayerOf
  <1> QED
    BY <1>1, <1>2, <1>3, <1>4, PayloadAssumption DEF Call

\* The deltas of the game can be written and read back.
LEMMA DeltaIsWritten ==
    ASSUME NEW delta \in Game!Delta, delta.moveId \in 1 .. MaxReceived,
           IF delta.action = "Place" THEN \E c \in Coord : delta.coord = {c}
           ELSE delta.coord = {} /\ delta.captures = {}
    PROVE  DeltaEvent(delta) \in ServerDelta /\ DeltaEvent(delta) \in ServerEvent
  <1> DEFINE e == DeltaEvent(delta)
  <1>1. /\ delta.action \in {"Place", "Pass", "Resign"}
        /\ delta.player \in Player /\ delta.nextPlayer \in Player
        /\ delta.coord \subseteq Coord /\ delta.captures \subseteq Coord
        /\ delta.gameActive \in BOOLEAN
    BY DEF Game!Delta, Game!Player, Player
  <1>2. delta.moveId \in UnsignedInt /\ Coord \subseteq Point
    BY GameServerAssumption, NwEventsAssumption DEF UnsignedInt
  <1>3. e = [type |-> "delta", turn |-> delta.moveId, seat |-> delta.player,
             action |-> delta.action, coord |-> delta.coord, captures |-> delta.captures,
             next |-> delta.nextPlayer, status |-> IF delta.gameActive THEN "Active" ELSE "Draw"]
    BY DEF DeltaEvent
  <1>4. e \in [type : {"delta"}, turn : UnsignedInt, seat : Player,
                action : DOMAIN ServerActionCode, coord : SUBSET Point,
                captures : SUBSET Point, next : Player, status : DOMAIN GameStatusCode]
    BY <1>1, <1>2, <1>3 DEF ServerActionCode, GameStatusCode
  <1>5. IF e.action = "Place" THEN \E c \in Point : e.coord = {c}
        ELSE e.coord = {} /\ e.captures = {}
    BY <1>2, <1>3
  <1>6. e \in ServerDelta
    BY <1>4, <1>5 DEF ServerDelta
  <1>7. e \in ServerEvent
    BY <1>1, <1>3 DEF ServerEvent
  <1> QED
    BY <1>6, <1>7

\* A client that is connected acts on the event that was sent.
LEMMA EventIsRead ==
    ASSUME NEW s \in SessionId, NEW e \in EventOfServer
    PROVE  SentTo(s, e) = IF s \in open THEN [shown EXCEPT ![s] = ShownAfter(@, e)] ELSE shown
  <1>1. fromServerMessage(toServerMessage(e)) = {e}
    BY ServerRoundTrip
  <1>2. (CHOOSE r \in {e} : TRUE) = e
    OBVIOUS
  <1> QED
    BY <1>1, <1>2 DEF SentTo

-----------------------------------------------------------------------------
(* What the steps do.                                                      *)

\* The message that is taken from the queue makes a call with the event c.
Calls(c) ==
    /\ Pop("ClientMessage")
    /\ c \in Intents(Head(serverQueue))
    /\ handled' = Append(handled, [session |-> Head(serverQueue).session, event |-> c])
    /\ UNCHANGED <<joinable, players, isRunning, seats, active, shown>>

\* The seat of the session that sent it.
Sender == seats[Head(serverQueue).session]

LEMMA MoveFacts ==
    ASSUME handleMove
    PROVE  /\ gameActive /\ Loop
           /\ \E c : /\ Calls(c) /\ c.type # "chat"
                     /\ eventQueue' = Append(eventQueue, GameEvent(PlayerOf(Sender), c))
           /\ UNCHANGED <<gameThread, gameActive, deltas, chatHistory, sending, message>>
BY DEF handleMove, Handle, sessionVars, Calls, Sender, Game!pushEvent

LEMMA RejectFacts ==
    ASSUME rejectMove
    PROVE  /\ Loop /\ (\E c : Calls(c))
           /\ UNCHANGED <<gameThread, gameActive, eventQueue, deltas, chatHistory, sending, message>>
BY DEF rejectMove, Handle, sessionVars, Calls, gameVars

LEMMA ChatFacts ==
    ASSUME handleChat
    PROVE  /\ serverPc' = "broadcast"
           /\ \E c : /\ Calls(c) /\ c.type = "chat"
                     /\ chatHistory' = Append(chatHistory, [player |-> PlayerOf(Sender),
                                                            message |-> c.message])
                     /\ broadcast("server", ServerChat(PlayerOf(Sender), Len(chatHistory) + 1,
                                                       c.message))
           /\ UNCHANGED <<gameThread, gameActive, eventQueue, deltas>>
BY DEF handleChat, Handle, sessionVars, Calls, Sender, gameVars

\* A new session has a number that no session had, and a seat.
LEMMA NewSessionFacts ==
    ASSUME Types, Connections, connect \/ connectStartsGame
    PROVE  LET s == Head(serverQueue).session
           IN  /\ Pop("ClientConnected")
               /\ s \in SessionId /\ seats[s] = "None" /\ s < nextSession
               /\ freeSeat \in {"Black", "White", "Observer"}
               /\ seats' = [seats EXCEPT ![s] = freeSeat]
               /\ active' = active \cup {s}
               /\ shown' = shown
               /\ \/ sending'["game"] = sending["game"]
                  \/ sending["game"] # {} /\ sending'["game"] = sending["game"] \cup {s}
               /\ UNCHANGED <<gameVars, chatHistory, isRunning, handled>>
  <1> DEFINE s == Head(serverQueue).session
  <1>1. /\ Pop("ClientConnected") /\ newSession(s, freeSeat)
        /\ \E sessions \in Met(s) : sending'["game"] = sessions
    BY DEF connect, connectStartsGame, Types, Thread
  <1>2. /\ 1 \in 1 .. Len(serverQueue)
        /\ Head(serverQueue) = serverQueue[1] /\ Head(serverQueue) \in QueueEvent
        /\ Head(serverQueue).type = "ClientConnected"
    BY <1>1, PopFacts
  <1>3. s \in SessionId /\ seats[s] = "None" /\ s < nextSession
    BY <1>2, QueueShape DEF Connections
  <1>4. /\ seats' = [seats EXCEPT ![s] = freeSeat] /\ active' = active \cup {s}
        /\ shown' = SentTo(s, ServerSessionAssign(s))
        /\ UNCHANGED <<gameVars, chatHistory, isRunning, handled>>
    BY <1>1 DEF newSession
  <1>5. ServerSessionAssign(s) \in EventOfServer
    BY <1>3, GameServerAssumption, NwEventsAssumption DEF EventOfServer, UnsignedInt, SessionId
  <1>6. shown' = shown
    <2> DEFINE e == ServerSessionAssign(s)
    <2>1. shown' = IF s \in open THEN [shown EXCEPT ![s] = ShownAfter(@, e)] ELSE shown
      BY <1>3, <1>4, <1>5, EventIsRead
    <2>2. ShownAfter(shown[s], e) = shown[s]
      BY DEF ShownAfter, ServerSessionAssign
    <2>3. [shown EXCEPT ![s] = shown[s]] = shown
      BY <1>3 DEF Types
    <2> QED
      BY <2>1, <2>2, <2>3
  <1>7. freeSeat \in {"Black", "White", "Observer"}
    BY DEF freeSeat
  <1>8. \/ sending'["game"] = sending["game"]
        \/ sending["game"] # {} /\ sending'["game"] = sending["game"] \cup {s}
    BY <1>1 DEF Met
  <1> QED
    BY <1>1, <1>3, <1>4, <1>6, <1>7, <1>8

\* The second player's session starts the game, and the configuration goes out.
LEMMA StartFacts ==
    ASSUME Types, connectStartsGame
    PROVE  LET s == Head(serverQueue).session
           IN  /\ ~ joinable /\ joinable' = TRUE
               /\ sending'["server"] = Sessions \cup {s}
               /\ message' = [message EXCEPT !["server"] = ServerGameConfig(BoardSize)]
               /\ serverPc' = "broadcast"
BY DEF connectStartsGame, Types, Thread

LEMMA ConnectFacts ==
    ASSUME Types, connect
    PROVE  sending'["server"] = sending["server"] /\ Loop /\ UNCHANGED <<joinable, message>>
BY DEF connect, Types, Thread

\* The delta d of a move that was asked for by the event.
Answers(d, event) ==
    CASE d.action = "Place"  -> /\ event.type = "Put" /\ d.coord = {event.c}
                                /\ event.player = d.player
      [] d.action = "Pass"   -> event.type = "Pass" /\ event.player = d.player
      [] d.action = "Resign" -> event.type = "Resign"

\* The match takes the first event from its queue.
Takes == eventQueue # <<>> /\ eventQueue' = Tail(eventQueue)

\* The match makes a move, and whoever listens is told.
Delivers(d) ==
    /\ Takes /\ gameActive
    /\ d \in Game!Delta /\ Answers(d, Head(eventQueue))
    /\ d.moveId = Len(deltas) + 1 /\ d.gameActive = gameActive'
    /\ IF d.action = "Place" THEN \E c \in Coord : d.coord = {c}
       ELSE d.coord = {} /\ d.captures = {}
    /\ deltas' = Append(deltas, d)
    /\ gameThread' = gameThread
    /\ IF listening THEN broadcast("game", DeltaEvent(d)) ELSE UNCHANGED <<sending, message>>

\* It makes none.
PlaysNothing ==
    /\ deltas' = deltas
    /\ Takes \/ eventQueue' = eventQueue
    /\ gameActive' \in {gameActive, FALSE} /\ gameThread' \in {"running", "ended"}
    /\ UNCHANGED <<sending, message>>

LEMMA PlayFacts ==
    ASSUME Types, play
    PROVE  /\ gameThread = "running" /\ sending["game"] = {}
           /\ PlaysNothing \/ \E d : Delivers(d)
           /\ UNCHANGED <<handlerVars, ownerVars, networkVars, sessionVars, shown, serverQueue,
                          serverPc, handled>>
  <1>1. /\ sending["game"] = {} /\ Game!GameLoop
        /\ IF deltas' # deltas /\ listening
           THEN broadcast("game", DeltaEvent(deltas'[Len(deltas')]))
           ELSE UNCHANGED <<sending, message>>
        /\ UNCHANGED <<handlerVars, ownerVars, networkVars, sessionVars, shown, serverQueue,
                       serverPc, handled>>
    BY DEF play
  <1>2. deltas \in Seq(Game!Delta) /\ eventQueue \in Seq(Game!Event) /\ Len(deltas) \in Nat
    BY LenProperties DEF Types
  <1>3. ASSUME NEW d, d \in Game!Delta, deltas' = Append(deltas, d), d.moveId = Len(deltas) + 1
        PROVE  IF listening THEN broadcast("game", DeltaEvent(d)) ELSE UNCHANGED <<sending, message>>
    <2>1. deltas' # deltas /\ deltas'[Len(deltas')] = d
      BY <1>2, <1>3, Pushed
    <2> QED
      BY <1>1, <2>1
  <1>4. /\ Game!toMove \in Player /\ Game!opponent(Game!toMove) \in Player
        /\ Len(deltas) + 1 \in Nat
    BY <1>2 DEF Game!toMove, Game!opponent, Player
  <1>5. ASSUME NEW type, Game!Pop(type)
        PROVE  /\ gameThread = "running" /\ gameActive /\ Takes /\ gameThread' = gameThread
               /\ Head(eventQueue).type = type /\ Head(eventQueue) \in Game!Event
    BY <1>2, <1>5, Popped DEF Game!Pop, Takes
  <1>6. CASE Game!refuseMove \/ Game!shutdown \/ Game!returnFromRun
    <2>1. deltas' = deltas /\ gameThread = "running"
      BY <1>6 DEF Game!refuseMove, Game!shutdown, Game!returnFromRun, Game!Pop
    <2>2. /\ Takes \/ eventQueue' = eventQueue
          /\ gameActive' \in {gameActive, FALSE} /\ gameThread' \in {"running", "ended"}
      BY <1>6 DEF Game!refuseMove, Game!shutdown, Game!returnFromRun, Game!Pop, Takes
    <2> QED
      BY <1>1, <2>1, <2>2 DEF PlaysNothing
  <1>7. CASE Game!putStone
    <2> DEFINE event == Head(eventQueue)
    <2>1. /\ Game!Pop("Put") /\ event.player = Game!toMove /\ event.c \in Coord
          /\ UNCHANGED gameActive
      BY <1>7 DEF Game!putStone
    <2>2. PICK captures \in SUBSET Coord :
              deltas' = Append(deltas, Game!NextDelta("Place", {event.c}, captures, TRUE))
      BY <1>7 DEF Game!putStone
    <2> DEFINE d == Game!NextDelta("Place", {event.c}, captures, TRUE)
    <2>3. /\ d.moveId = Len(deltas) + 1 /\ d.action = "Place" /\ d.coord = {event.c}
          /\ d.player = Game!toMove /\ d.gameActive = TRUE
      BY DEF Game!NextDelta
    <2>4. d \in Game!Delta
      BY <1>4, <2>1 DEF Game!NextDelta, Game!Delta, Game!Player, Player
    <2>5. deltas' = Append(deltas, d)
      BY <2>2
    <2> HIDE DEF d
    <2>6. IF listening THEN broadcast("game", DeltaEvent(d)) ELSE UNCHANGED <<sending, message>>
      BY <1>3, <2>3, <2>4, <2>5
    <2>7. Delivers(d)
      BY <1>5, <2>1, <2>3, <2>4, <2>5, <2>6 DEF Delivers, Answers
    <2> QED
      BY <1>1, <1>5, <2>1, <2>7
  <1>8. CASE Game!pass
    <2> DEFINE d == Game!NextDelta("Pass", {}, {}, gameActive')
    <2>1. /\ Game!Pop("Pass") /\ Head(eventQueue).player = Game!toMove
          /\ gameActive' \in BOOLEAN /\ deltas' = Append(deltas, d)
      BY <1>8 DEF Game!pass
    <2>2. /\ d.moveId = Len(deltas) + 1 /\ d.action = "Pass" /\ d.coord = {} /\ d.captures = {}
          /\ d.player = Game!toMove /\ d.gameActive = gameActive'
      BY DEF Game!NextDelta
    <2>3. d \in Game!Delta
      BY <1>4, <2>1 DEF Game!NextDelta, Game!Delta, Game!Player, Player
    <2> HIDE DEF d
    <2>4. IF listening THEN broadcast("game", DeltaEvent(d)) ELSE UNCHANGED <<sending, message>>
      BY <1>3, <2>1, <2>2, <2>3
    <2>5. Delivers(d)
      BY <1>5, <2>1, <2>2, <2>3, <2>4 DEF Delivers, Answers
    <2> QED
      BY <1>1, <1>5, <2>1, <2>5
  <1>9. CASE Game!resign
    <2> DEFINE d == Game!NextDelta("Resign", {}, {}, FALSE)
    <2>1. Game!Pop("Resign") /\ gameActive' = FALSE /\ deltas' = Append(deltas, d)
      BY <1>9 DEF Game!resign
    <2>2. /\ d.moveId = Len(deltas) + 1 /\ d.action = "Resign" /\ d.coord = {} /\ d.captures = {}
          /\ d.gameActive = FALSE
      BY DEF Game!NextDelta
    <2>3. d \in Game!Delta
      BY <1>4 DEF Game!NextDelta, Game!Delta, Game!Player, Player
    <2> HIDE DEF d
    <2>4. IF listening THEN broadcast("game", DeltaEvent(d)) ELSE UNCHANGED <<sending, message>>
      BY <1>3, <2>1, <2>2, <2>3
    <2>5. Delivers(d)
      BY <1>5, <2>1, <2>2, <2>3, <2>4 DEF Delivers, Answers
    <2> QED
      BY <1>1, <1>5, <2>1, <2>5
  <1> QED
    BY <1>1, <1>6, <1>7, <1>8, <1>9 DEF Game!GameLoop

\* The events of the game that stay in its queue.
LEMMA TakesFacts ==
    ASSUME Types, Takes
    PROVE  /\ Len(eventQueue) \in Nat /\ 1 \in 1 .. Len(eventQueue)
           /\ Head(eventQueue) = eventQueue[1] /\ Head(eventQueue) \in Game!Event
           /\ eventQueue' \in Seq(Game!Event) /\ Len(eventQueue') = Len(eventQueue) - 1
           /\ \A i \in 1 .. Len(eventQueue) - 1 :
                  /\ eventQueue'[i] = eventQueue[i + 1]
                  /\ i + 1 \in 1 .. Len(eventQueue) /\ 1 < i + 1
  <1>1. eventQueue \in Seq(Game!Event) /\ eventQueue # <<>> /\ eventQueue' = Tail(eventQueue)
    BY DEF Types, Takes
  <1> QED
    BY <1>1, Popped

-----------------------------------------------------------------------------
(* What a client shows after an event.                                     *)

\* The chat events there are.
ChatEvents == {ChatEvent(i) : i \in 1 .. Len(chatHistory)}

LEMMA ChatEventFacts ==
    ASSUME Types
    PROVE  /\ Len(chatHistory) \in Nat
           /\ \A i \in 1 .. Len(chatHistory) :
                  /\ ChatEvent(i).type = "chat" /\ ChatEvent(i).messageId = i
                  /\ ChatEvent(i).player \in Player /\ ChatEvent(i).message \in Text
                  /\ ChatEvent(i) = ServerChat(ChatEvent(i).player, i, ChatEvent(i).message)
  <1>1. chatHistory \in Seq([player : Player, message : Text])
    BY DEF Types
  <1>2. \A i \in 1 .. Len(chatHistory) : chatHistory[i] \in [player : Player, message : Text]
    BY <1>1, ElementOfSeq
  <1> QED
    BY <1>1, <1>2, LenProperties DEF ChatEvent, ServerChat

\* The number at which the pending messages end.
Missing(pending, next) ==
    CHOOSE id \in next .. MaxReceived + 1 :
        /\ Client!PendingWith(pending, id) = {}
        /\ \A k \in next .. id - 1 : Client!PendingWith(pending, k) # {}

LEMMA MissingExists ==
    ASSUME NEW next \in 1 .. MaxReceived + 1, NEW pending,
           \A e \in pending : e.messageId \in 1 .. MaxReceived
    PROVE  /\ Missing(pending, next) \in next .. MaxReceived + 1
           /\ Client!PendingWith(pending, Missing(pending, next)) = {}
           /\ \A k \in next .. Missing(pending, next) - 1 : Client!PendingWith(pending, k) # {}
  <1> USE GameServerAssumption
  <1> DEFINE T == {id \in next .. MaxReceived + 1 : Client!PendingWith(pending, id) = {}}
  <1>1. T \subseteq Nat
    OBVIOUS
  <1>2. MaxReceived + 1 \in T
    BY DEF Client!PendingWith
  <1>3. \E id \in T : \A k \in T : ~ (<<k, id>> \in OpToRel(<, Nat))
    <2> HIDE DEF T
    <2>1. IsWellFoundedOn(OpToRel(<, Nat), Nat)
      BY NatLessThanWellFounded
    <2>2. T # {}
      BY <1>2
    <2> QED
      BY <1>1, <2>1, <2>2, WFMin
  <1>4. PICK id \in T : \A k \in T : ~ (k < id)
    <2>1. PICK id \in T : \A k \in T : ~ (<<k, id>> \in OpToRel(<, Nat))
      BY <1>3
    <2>2. \A k \in T : ~ (k < id)
      BY <1>1, <2>1 DEF OpToRel
    <2> QED
      BY <2>2
  <1>5. \A k \in next .. id - 1 : Client!PendingWith(pending, k) # {}
    BY <1>4
  <1> QED
    BY <1>4, <1>5 DEF Missing

\* Whatever is pending: the chat goes on with the messages that follow.
LEMMA AppendNextFollows ==
    ASSUME Types, Len(chatHistory) <= MaxReceived,
           NEW n \in 0 .. Len(chatHistory), NEW pending \in SUBSET ChatEvents
    PROVE  \E m \in 0 .. Len(chatHistory), rest \in SUBSET ChatEvents :
               Client!AppendNext(ChatAfter(n, pending)) = ChatAfter(m, rest)
  <1> DEFINE L == Len(chatHistory)
             missing == Missing(pending, n + 1)
             found(k) == CHOOSE e \in Client!PendingWith(pending, k) : TRUE
             rest == {e \in pending : e.messageId \notin n + 1 .. missing - 1}
             history == [i \in 1 .. n |-> ChatEvent(i)]
             new == [i \in 1 .. missing - (n + 1) |-> found(n + 1 + i - 1)]
             all == [i \in 1 .. missing - 1 |-> ChatEvent(i)]
  <1> USE GameServerAssumption
  <1>1. /\ L \in Nat
        /\ \A i \in 1 .. L : ChatEvent(i).messageId = i
    BY ChatEventFacts
  <1>2. \A e \in pending : e.messageId \in 1 .. L /\ e = ChatEvent(e.messageId)
    BY <1>1 DEF ChatEvents
  <1> HIDE DEF L
  <1>3. /\ missing \in n + 1 .. MaxReceived + 1
        /\ \A k \in n + 1 .. missing - 1 : Client!PendingWith(pending, k) # {}
    <2>1. n + 1 \in 1 .. MaxReceived + 1 /\ \A e \in pending : e.messageId \in 1 .. MaxReceived
      BY <1>1, <1>2 DEF L
    <2> QED
      BY <2>1, MissingExists
  <1>4. Client!AppendNext(ChatAfter(n, pending))
            = [expectedMessageId |-> missing, history |-> history \o new, pending |-> rest]
    <2> DEFINE c == ChatAfter(n, pending)
    <2>1. c.expectedMessageId = n + 1 /\ c.history = history /\ c.pending = pending
      BY DEF ChatAfter
    <2> HIDE DEF c, missing, history, found
    <2>2. Client!AppendNext(c) =
              LET gone == Missing(c.pending, c.expectedMessageId)
              IN  [expectedMessageId |-> gone,
                   history |-> c.history \o
                       [i \in 1 .. gone - c.expectedMessageId |->
                           CHOOSE e \in Client!PendingWith(c.pending, c.expectedMessageId + i - 1) : TRUE],
                   pending |-> {e \in c.pending : e.messageId \notin c.expectedMessageId .. gone - 1}]
      BY Zenon DEF Client!AppendNext, Missing
    <2>3. Client!AppendNext(c) =
              LET gone == Missing(pending, n + 1)
              IN  [expectedMessageId |-> gone,
                   history |-> history \o
                       [i \in 1 .. gone - (n + 1) |->
                           CHOOSE e \in Client!PendingWith(pending, n + 1 + i - 1) : TRUE],
                   pending |-> {e \in pending : e.messageId \notin n + 1 .. gone - 1}]
      BY <2>1, <2>2
    <2> QED
      BY Zenon, <2>3 DEF c, missing, found
  <1> HIDE DEF missing
  <1>5. \A k \in n + 1 .. missing - 1 : found(k) = ChatEvent(k) /\ k \in 1 .. L
    BY <1>2, <1>3 DEF Client!PendingWith
  <1>6. missing - 1 \in 0 .. L
    <2>1. CASE missing = n + 1
      BY <1>1, <2>1 DEF L
    <2>2. CASE missing # n + 1
      BY <1>1, <1>3, <1>5, <2>2
    <2> QED
      BY <2>1, <2>2
  <1>7. history \o new = all
    <2>1. history \in Seq(ChatEvents) /\ Len(history) = n
      <3>1. \A i \in 1 .. n : ChatEvent(i) \in ChatEvents
        BY <1>1 DEF ChatEvents, L
      <3>2. history \in [1 .. n -> ChatEvents] /\ n \in Nat
        BY <1>1, <3>1 DEF L
      <3> QED
        BY <3>2
    <2>2. new \in Seq(ChatEvents) /\ Len(new) = missing - (n + 1)
          /\ \A i \in 1 .. missing - (n + 1) : new[i] = ChatEvent(n + i)
      <3> HIDE DEF found
      <3>1. missing - (n + 1) \in Nat /\ n \in Nat
        BY <1>1, <1>3
      <3>2. \A i \in 1 .. missing - (n + 1) :
                n + 1 + i - 1 \in n + 1 .. missing - 1 /\ n + 1 + i - 1 = n + i
        BY <1>3, <3>1
      <3>3. \A i \in 1 .. missing - (n + 1) : new[i] = ChatEvent(n + i) /\ n + i \in 1 .. L
        BY <1>5, <3>2
      <3>4. new \in [1 .. missing - (n + 1) -> ChatEvents]
        BY <3>3 DEF ChatEvents, L
      <3> HIDE DEF new
      <3>5. new \in Seq(ChatEvents) /\ DOMAIN new = 1 .. missing - (n + 1)
        BY <3>1, <3>4
      <3>6. Len(new) = missing - (n + 1)
        BY <3>1, <3>5, LenProperties
      <3> QED
        BY <3>3, <3>5, <3>6
    <2>3. /\ DOMAIN (history \o new) = 1 .. Len(history) + Len(new)
          /\ \A i \in 1 .. Len(history) + Len(new) :
                 (history \o new)[i] = IF i <= Len(history) THEN history[i]
                                       ELSE new[i - Len(history)]
      <3> HIDE DEF history, new
      <3>1. /\ history \o new \in Seq(ChatEvents)
            /\ Len(history \o new) = Len(history) + Len(new)
            /\ \A i \in 1 .. Len(history) + Len(new) :
                   (history \o new)[i] = IF i <= Len(history) THEN history[i]
                                         ELSE new[i - Len(history)]
        BY <2>1, <2>2, ConcatProperties
      <3>2. DOMAIN (history \o new) = 1 .. Len(history \o new)
        BY <3>1, LenProperties
      <3> QED
        BY <3>1, <3>2
    <2>4. n \in Nat /\ missing \in Nat /\ n + (missing - (n + 1)) = missing - 1
      BY <1>1, <1>3
    <2>5. ASSUME NEW i \in 1 .. missing - 1
          PROVE  (history \o new)[i] = ChatEvent(i)
      <3>1. CASE i <= n
        <4>1. i \in 1 .. n /\ i \in 1 .. Len(history) + Len(new)
          <5> HIDE DEF history, new
          <5>1. i \in 1 .. n /\ i \in 1 .. n + (missing - (n + 1))
            BY <2>4, <2>5, <3>1
          <5> QED
            BY <2>1, <2>2, <5>1
        <4>2. (history \o new)[i] = history[i]
          BY <2>1, <2>3, <3>1, <4>1
        <4> QED
          BY <4>1, <4>2
      <3>2. CASE ~ (i <= n)
        <4>1. /\ i - n \in 1 .. missing - (n + 1) /\ n + (i - n) = i
              /\ i \in 1 .. Len(history) + Len(new)
          <5> HIDE DEF history, new
          <5>1. /\ i - n \in 1 .. missing - (n + 1) /\ n + (i - n) = i
                /\ i \in 1 .. n + (missing - (n + 1))
            BY <2>4, <2>5, <3>2
          <5> QED
            BY <2>1, <2>2, <5>1
        <4>2. (history \o new)[i] = new[i - n]
          BY <2>1, <2>3, <3>2, <4>1
        <4> QED
          BY <2>2, <4>1, <4>2
      <3> QED
        BY <3>1, <3>2
    <2>6. DOMAIN (history \o new) = 1 .. missing - 1
      BY <2>1, <2>2, <2>3, <2>4
    <2>7. history \o new = [i \in 1 .. missing - 1 |-> (history \o new)[i]]
      <3>1. history \o new \in Seq(ChatEvents)
        <4> HIDE DEF history, new
        <4> QED
          BY <2>1, <2>2, ConcatProperties
      <3> HIDE DEF history, new
      <3>2. history \o new \in [1 .. Len(history \o new) -> ChatEvents]
        BY <3>1, LenProperties
      <3> QED
        BY <2>6, <3>2
    <2> QED
      BY <2>5, <2>7
  <1>8. rest \in SUBSET ChatEvents
    OBVIOUS
  <1>9. ChatAfter(missing - 1, rest) = [expectedMessageId |-> missing, history |-> all,
                                         pending |-> rest]
    <2>1. (missing - 1) + 1 = missing
      BY <1>3, <1>1 DEF L
    <2> HIDE DEF rest
    <2> QED
      BY <2>1 DEF ChatAfter
  <1> HIDE DEF rest, history, new, all
  <1>10. Client!AppendNext(ChatAfter(n, pending)) = ChatAfter(missing - 1, rest)
    BY <1>4, <1>7, <1>9
  <1> QED
    BY <1>6, <1>8, <1>10 DEF L

LEMMA ChatMessageFollows ==
    ASSUME Types, Len(chatHistory) <= MaxReceived,
           NEW n \in 0 .. Len(chatHistory), NEW pending \in SUBSET ChatEvents,
           NEW e \in ChatEvents
    PROVE  \E m \in 0 .. Len(chatHistory), rest \in SUBSET ChatEvents :
               Client!onChatMessage(ChatAfter(n, pending), e) = ChatAfter(m, rest)
  <1>1. \E more \in SUBSET ChatEvents :
            Client!onChatMessage(ChatAfter(n, pending), e) = Client!AppendNext(ChatAfter(n, more))
    <2>1. PICK c : c = ChatAfter(n, pending)
      OBVIOUS
    <2>2. PICK more : more = Client!emplace(c.pending, e)
      OBVIOUS
    <2>3. c.pending = pending
      BY <2>1 DEF ChatAfter
    <2>4. more \in SUBSET ChatEvents
      BY <2>2, <2>3 DEF Client!emplace
    <2>5. [c EXCEPT !.pending = more] = ChatAfter(n, more)
      BY <2>1 DEF ChatAfter
    <2>6. Client!onChatMessage(c, e) \in {Client!AppendNext(c), Client!AppendNext(ChatAfter(n, more))}
      BY <2>2, <2>5 DEF Client!onChatMessage
    <2> QED
      BY <2>1, <2>4, <2>6
  <1> QED
    BY <1>1, AppendNextFollows

\* No more moves, calls and messages than clients sent.
LEMMA Counts ==
    ASSUME Types, CausesInOrder, Counted
    PROVE  /\ Len(deltas) \in Nat /\ Len(handled) \in Nat /\ Len(chatHistory) \in Nat
           /\ Len(deltas) <= Len(handled) /\ Len(chatHistory) <= Len(handled)
           /\ Len(handled) <= sent /\ sent <= MaxReceived /\ sent \in Nat
           /\ Len(deltas) <= MaxReceived /\ Len(chatHistory) <= MaxReceived
  <1>1. /\ Len(deltas) \in Nat /\ Len(handled) \in Nat /\ Len(chatHistory) \in Nat
        /\ sent \in Nat /\ sent <= MaxReceived
    BY LenProperties, GameServerAssumption DEF Types
  <1>2. Len(chatHistory) <= Len(handled) /\ Len(handled) <= sent
    BY DEF Counted
  <1>3. PICK cause \in [1 .. Len(deltas) -> 1 .. Len(handled)] :
            \A i \in 1 .. Len(deltas) : i <= cause[i]
    BY DEF CausesInOrder, Causes
  <1>4. Len(deltas) <= Len(handled)
    <2>1. CASE Len(deltas) = 0
      BY <1>1, <2>1
    <2>2. CASE Len(deltas) # 0
      <3>1. Len(deltas) \in 1 .. Len(deltas)
        BY <1>1, <2>2
      <3>2. Len(deltas) <= cause[Len(deltas)] /\ cause[Len(deltas)] \in 1 .. Len(handled)
        BY <1>3, <3>1
      <3> QED
        BY <1>1, <3>2
    <2> QED
      BY <2>1, <2>2
  <1> QED
    BY <1>1, <1>2, <1>4, GameServerAssumption

\* The deltas and what clients get of them.
LEMMA DeltaFacts ==
    ASSUME Types, DeltasAreMoves, CausesInOrder, Counted, NEW i \in 1 .. Len(deltas)
    PROVE  /\ deltas[i] \in Game!Delta /\ deltas[i].moveId = i /\ i \in Nat
           /\ deltas[i].gameActive \in BOOLEAN
           /\ i < Len(deltas) => deltas[i].gameActive
           /\ DeltaEvent(deltas[i]) \in EventOfServer
           /\ DeltaEvent(deltas[i]) \in ServerEvent
  <1>1. Len(deltas) \in Nat /\ Len(deltas) <= MaxReceived /\ MaxReceived \in Nat
    BY Counts, GameServerAssumption
  <1>2. deltas[i] \in Game!Delta
    BY ElementOfSeq DEF Types
  <1>3. /\ deltas[i].moveId = i
        /\ i < Len(deltas) => deltas[i].gameActive
        /\ IF deltas[i].action = "Place" THEN \E c \in Coord : deltas[i].coord = {c}
           ELSE deltas[i].coord = {} /\ deltas[i].captures = {}
    BY DEF DeltasAreMoves
  <1>4. i \in 1 .. MaxReceived
    BY <1>1
  <1>5. DeltaEvent(deltas[i]) \in ServerDelta /\ DeltaEvent(deltas[i]) \in ServerEvent
    BY <1>2, <1>3, <1>4, DeltaIsWritten
  <1> QED
    BY <1>2, <1>3, <1>4, <1>5 DEF EventOfServer, Game!Delta

\* What is broadcast can be read.
LEMMA MessageIsEvent ==
    ASSUME IInv, NEW t \in Thread, sending[t] # {}
    PROVE  message[t] \in EventOfServer /\ message[t] \in ServerEvent
  <1>1. Types /\ DeltasAreMoves /\ Broadcasts /\ CausesInOrder /\ Counted
    BY DEF IInv
  <1>2. ServerGameConfig(BoardSize) \in EventOfServer /\ ServerGameConfig(BoardSize) \in ServerEvent
    BY GameServerAssumption DEF EventOfServer, ServerEvent, ServerGameConfig
  <1>3. ASSUME chatHistory # <<>>
        PROVE  /\ ChatEvent(Len(chatHistory)) \in EventOfServer
               /\ ChatEvent(Len(chatHistory)) \in ServerEvent
    <2> DEFINE L == Len(chatHistory)
    <2>1. L \in 1 .. L /\ L \in 1 .. MaxReceived /\ L \in UnsignedInt
      <3>1. L \in Nat /\ L # 0 /\ L <= MaxReceived
        BY <1>1, <1>3, Counts, EmptySeq DEF Types
      <3> QED
        BY <3>1, GameServerAssumption, NwEventsAssumption DEF UnsignedInt
    <2>2. PICK e : e = ChatEvent(L)
      OBVIOUS
    <2>3. /\ e.player \in Player /\ e.message \in Text
          /\ e = ServerChat(e.player, L, e.message)
      BY <1>1, <2>1, <2>2, ChatEventFacts
    <2> HIDE DEF L
    <2>4. e \in ServerEvent
      BY <2>1, <2>3 DEF ServerEvent, ServerChat
    <2>5. e \in EventOfServer
      <3>1. PICK r : r = [player |-> e.player, messageId |-> L, message |-> e.message]
        OBVIOUS
      <3>2. r \in [player : Player, messageId : UnsignedInt, message : Text]
        BY <2>1, <2>3, <3>1
      <3>3. e = ServerChat(r.player, r.messageId, r.message)
        BY <2>3, <3>1
      <3>4. e \in {ServerChat(q.player, q.messageId, q.message) :
                       q \in [player : Player, messageId : UnsignedInt, message : Text]}
        BY <3>2, <3>3
      <3> QED
        BY <3>4 DEF EventOfServer
    <2> QED
      BY <2>2, <2>4, <2>5 DEF L
  <1>4. ASSUME deltas # <<>>
        PROVE  Len(deltas) \in 1 .. Len(deltas)
    <2>1. Len(deltas) \in Nat /\ Len(deltas) # 0
      BY <1>1, <1>4, EmptySeq, LenProperties DEF Types
    <2> QED
      BY <2>1
  <1>5. CASE t = "server"
    BY <1>1, <1>2, <1>3, <1>5 DEF Broadcasts
  <1>6. CASE t = "game"
    BY <1>1, <1>4, <1>6, DeltaFacts DEF Broadcasts
  <1> QED
    BY <1>5, <1>6 DEF Thread

\* A session that is visited reads the message if it is connected.
LEMMA VisitFacts ==
    ASSUME IInv, NEW t \in Thread, NEW s \in SessionId, visit(t, s)
    PROVE  /\ s \in sending[t] /\ seats[s] # "None"
           /\ sending' = [sending EXCEPT ![t] = @ \ {s}]
           /\ message' = [message EXCEPT ![t] = IF sending[t] = {s} THEN <<>> ELSE @]
           /\ shown' = IF s \in open THEN [shown EXCEPT ![s] = ShownAfter(@, message[t])] ELSE shown
           /\ serverPc' = IF t = "game" \/ sending[t] # {s} THEN serverPc
                          ELSE IF isRunning THEN "pop" ELSE "ended"
           /\ UNCHANGED <<gameVars, handlerVars, ownerVars, networkVars, sessionVars, serverQueue,
                          handled>>
  <1>1. /\ s \in sending[t]
        /\ sending' = [sending EXCEPT ![t] = @ \ {s}]
        /\ message' = [message EXCEPT ![t] = IF sending[t] = {s} THEN <<>> ELSE @]
        /\ shown' = IF s \in active THEN SentTo(s, message[t]) ELSE shown
        /\ serverPc' = IF t = "game" \/ sending[t] # {s} THEN serverPc
                       ELSE IF isRunning THEN "pop" ELSE "ended"
        /\ UNCHANGED <<gameVars, handlerVars, ownerVars, networkVars, sessionVars, serverQueue,
                       handled>>
    BY DEF visit
  <1>2. seats[s] # "None"
    BY <1>1 DEF IInv, Broadcasts, Sessions
  <1>3. s \in open => s \in active
    BY <1>2 DEF IInv, Connections
  <1>4. message[t] \in EventOfServer
    BY <1>1, MessageIsEvent
  <1>5. SentTo(s, message[t]) = IF s \in open THEN [shown EXCEPT ![s] = ShownAfter(@, message[t])]
                                ELSE shown
    BY <1>4, EventIsRead
  <1> QED
    BY <1>1, <1>2, <1>3, <1>5

\* One more move behind the first n.
LEMMA AppendMove ==
    ASSUME NEW n \in Nat, NEW f, NEW moves, moves = [i \in 1 .. n |-> f[i]]
    PROVE  Append(moves, f[n + 1]) = [i \in 1 .. n + 1 |-> f[i]]
  <1> DEFINE S == {f[i] : i \in 1 .. n + 1}
  <1>1. moves \in Seq(S) /\ Len(moves) = n
    <2>1. moves \in [1 .. n -> S]
      OBVIOUS
    <2> HIDE DEF S
    <2>2. moves \in Seq(S) /\ DOMAIN moves = 1 .. n
      BY <2>1
    <2> QED
      BY <2>2, LenProperties
  <1>2. f[n + 1] \in S
    OBVIOUS
  <1> HIDE DEF S
  <1>3. PICK more : more = Append(moves, f[n + 1])
    OBVIOUS
  <1>4. /\ more \in Seq(S) /\ Len(more) = n + 1
        /\ \A i \in 1 .. n : more[i] = moves[i]
        /\ more[n + 1] = f[n + 1]
        /\ \A i \in 1 .. n + 1 : i \in 1 .. n \/ i = n + 1
    BY <1>1, <1>2, <1>3, Pushed
  <1>5. more \in [1 .. n + 1 -> S]
    BY <1>4, LenProperties
  <1>6. \A i \in 1 .. n + 1 : more[i] = f[i]
    BY <1>4
  <1> QED
    BY <1>3, <1>5, <1>6

\* The next delta is applied.
LEMMA DeltaIsApplied ==
    ASSUME Types, DeltasAreMoves, CausesInOrder, Counted,
           NEW n \in 0 .. Len(deltas) - 1, NEW before, before.position = PositionAfter(n)
    PROVE  Client!apply(before.position,
               [turn |-> DeltaEvent(deltas[n + 1]).turn,
                gameActive |-> DeltaEvent(deltas[n + 1]).status = "Active",
                event |-> DeltaEvent(deltas[n + 1])])
           = PositionAfter(n + 1)
  <1>1. Len(deltas) \in Nat
    BY Counts
  <1>2. n \in Nat /\ n + 1 \in 1 .. Len(deltas) /\ (n > 0 => n \in 1 .. Len(deltas) /\ n < Len(deltas))
    BY <1>1
  <1>3. PICK d : d = deltas[n + 1]
    OBVIOUS
  <1>4. d.moveId = n + 1 /\ d.gameActive \in BOOLEAN
    BY <1>2, <1>3, DeltaFacts
  <1>5. n > 0 => deltas[n].gameActive
    BY <1>2, DeltaFacts
  <1>6. PICK move : move = MoveShown(d)
    OBVIOUS
  <1>7. [turn |-> DeltaEvent(d).turn, gameActive |-> DeltaEvent(d).status = "Active",
         event |-> DeltaEvent(d)] = move
    <2>1. DeltaEvent(d).turn = d.moveId /\ (DeltaEvent(d).status = "Active") = d.gameActive
      BY <1>4 DEF DeltaEvent
    <2> QED
      BY <1>6, <2>1 DEF MoveShown
  <1>8. move.turn = n + 1 /\ move.gameActive = d.gameActive
    BY <1>4, <1>6 DEF MoveShown
  <1>9. PICK moves : moves = [i \in 1 .. n |-> MoveShown(deltas[i])]
    OBVIOUS
  <1>10. before.position = [moveId |-> n, status |-> "Active", boardOf |-> 1, moves |-> moves]
    BY <1>5, <1>9 DEF PositionAfter
  <1>11. Append(moves, move) = [i \in 1 .. n + 1 |-> MoveShown(deltas[i])]
    <2> DEFINE f == [i \in 1 .. n + 1 |-> MoveShown(deltas[i])]
    <2>1. moves = [i \in 1 .. n |-> f[i]] /\ f[n + 1] = move
      BY <1>2, <1>3, <1>6, <1>9
    <2>2. f = [i \in 1 .. n + 1 |-> f[i]]
      OBVIOUS
    <2> HIDE DEF f
    <2>3. Append(moves, f[n + 1]) = [i \in 1 .. n + 1 |-> f[i]]
      BY <1>2, <2>1, AppendMove
    <2>4. Append(moves, move) = f
      BY <2>1, <2>2, <2>3
    <2> QED
      BY <2>4 DEF f
  <1>12. Client!isDeltaApplicable(before.position, move)
    BY <1>2, <1>8, <1>10 DEF Client!isDeltaApplicable
  <1>13. Client!apply(before.position, move) =
             [moveId |-> n + 1, status |-> IF d.gameActive THEN "Active" ELSE "Done",
              boardOf |-> 1, moves |-> Append(moves, move)]
    BY <1>8, <1>10, <1>12 DEF Client!apply
  <1>14. PositionAfter(n + 1) =
             [moveId |-> n + 1, status |-> IF d.gameActive THEN "Active" ELSE "Done",
              boardOf |-> 1, moves |-> Append(moves, move)]
    BY <1>2, <1>3, <1>11 DEF PositionAfter
  <1> QED
    BY <1>3, <1>7, <1>13, <1>14

-----------------------------------------------------------------------------
(* The types.                                                              *)

LEMMA TypesStep ==
    ASSUME IInv, [Next]_vars
    PROVE  Types'
  <1> USE DEF vars, gameVars, handlerVars, ownerVars, networkVars, sessionVars, wireVars
  <1>1. Types /\ Connections
    BY DEF IInv
  <1>2. /\ serverQueue \in Seq(QueueEvent) /\ eventQueue \in Seq(Game!Event)
        /\ deltas \in Seq(Game!Delta) /\ handled \in Seq(Call)
        /\ chatHistory \in Seq([player : Player, message : Text])
        /\ seats \in [SessionId -> Seat]
    BY <1>1 DEF Types
  <1>3. CASE start
    BY <1>1, <1>3 DEF Types, start
  <1>4. CASE stop
    <2>1. eventQueue' \in Seq(Game!Event)
      <3>1. [type |-> "Shutdown"] \in Game!Event
        BY DEF Game!Event
      <3> QED
        <4>1. \/ eventQueue' = Append(eventQueue, [type |-> "Shutdown"])
              \/ eventQueue' = eventQueue
          BY <1>4 DEF stop, Game!pushEvent
        <4>2. Append(eventQueue, [type |-> "Shutdown"]) \in Seq(Game!Event)
          BY <1>2, <3>1, Pushed
        <4> QED
          BY <1>2, <4>1, <4>2
    <2>2. UNCHANGED <<gameThread, gameActive, deltas>>
      BY <1>4 DEF stop, Game!pushEvent
    <2> QED
      BY <1>1, <1>4, <2>1, <2>2 DEF Types, stop
  <1>5. CASE stopServer
    <2>1. serverQueue' \in Seq(QueueEvent)
      <3>1. [type |-> "Shutdown"] \in QueueEvent
        BY DEF QueueEvent
      <3> QED
        BY <1>2, <1>5, <3>1, Pushed DEF stopServer
    <2> QED
      BY <1>1, <1>5, <2>1 DEF Types, stopServer
  <1>6. CASE stopNetwork \/ joinServer \/ unsubscribeState \/ joinGame
    <2>1. CASE stopNetwork
      BY <1>1, <2>1 DEF Types, stopNetwork
    <2>2. CASE joinServer
      BY <1>1, <2>2 DEF Types, joinServer
    <2>3. CASE unsubscribeState
      BY <1>1, <2>3 DEF Types, unsubscribeState
    <2>4. CASE joinGame
      <3>1. players' \in [Player -> {0} \cup SessionId]
        BY <2>4 DEF joinGame
      <3> QED
        BY <1>1, <2>4, <3>1 DEF Types, joinGame
    <2> QED
      BY <1>6, <2>1, <2>2, <2>3, <2>4
  <1>7. ASSUME NEW e \in QueueEvent, Queue(e),
               open' \subseteq SessionId, nextSession' \in 1 .. MaxSessions + 1,
               sent' \in 0 .. MaxReceived
        PROVE  Types'
    <2>1. serverQueue' \in Seq(QueueEvent)
      BY <1>2, <1>7, Pushed DEF Queue
    <2> QED
      BY <1>1, <1>7, <2>1 DEF Types, Queue
  <1>8. CASE clientConnects
    <2>1. nextSession \in SessionId /\ nextSession + 1 \in 1 .. MaxSessions + 1
      BY <1>1, <1>8, GameServerAssumption DEF Types, clientConnects, SessionId
    <2>2. [type |-> "ClientConnected", session |-> nextSession] \in QueueEvent
      BY <2>1 DEF QueueEvent
    <2> QED
      BY <1>1, <1>7, <1>8, <2>1, <2>2 DEF clientConnects, Types
  <1>9. ASSUME NEW s \in SessionId, clientLeaves(s)
        PROVE  Types'
    <2>1. [type |-> "ClientDisconnected", session |-> s] \in QueueEvent
      BY DEF QueueEvent
    <2> QED
      BY <1>1, <1>7, <1>9, <2>1 DEF clientLeaves, Types
  <1>10. ASSUME NEW s \in SessionId, NEW payload \in Payload, clientSends(s, payload)
         PROVE  Types'
    <2>1. [type |-> "ClientMessage", session |-> s, payload |-> payload] \in QueueEvent
      BY DEF QueueEvent
    <2>2. sent' \in 0 .. MaxReceived
      BY <1>1, <1>10, GameServerAssumption DEF clientSends, Types
    <2> QED
      BY <1>1, <1>7, <1>10, <2>1, <2>2 DEF clientSends, Types
  <1>11. CASE connect \/ connectStartsGame
    <2> DEFINE s == Head(serverQueue).session
    <2>1. /\ Pop("ClientConnected") /\ s \in SessionId
          /\ freeSeat \in {"Black", "White", "Observer"}
          /\ seats' = [seats EXCEPT ![s] = freeSeat]
          /\ active' = active \cup {s}
          /\ shown' = shown
          /\ UNCHANGED <<gameVars, chatHistory, isRunning, handled>>
      BY <1>1, <1>11, NewSessionFacts
    <2>2. /\ serverQueue' \in Seq(QueueEvent)
          /\ UNCHANGED <<listening, ownerPc, sawGameThread, open, nextSession, sent>>
      BY <1>1, <2>1, PopFacts
    <2>3. seats' \in [SessionId -> Seat]
      BY <1>2, <2>1 DEF Seat, Player
    <2>4. /\ sending' \in [Thread -> SUBSET SessionId]
          /\ message' = [t \in Thread |-> message'[t]]
          /\ players' \in [Player -> {0} \cup SessionId]
          /\ joinable' \in BOOLEAN
          /\ serverPc' \in {"none", "pop", "broadcast", "ended"}
      <3>1. \A sessions \in Met(s) : sessions \subseteq SessionId
        BY <1>1, <2>1 DEF Met, Types, Thread
      <3>2. Sessions \subseteq SessionId
        BY DEF Sessions
      <3>3. CASE connect
        BY <1>1, <2>1, <3>1, <3>3 DEF connect, Types, Loop
      <3>4. CASE connectStartsGame
        <4>1. PICK sessions \in Met(s) :
                  sending' = [server |-> Sessions \cup {s}, game |-> sessions]
          BY <3>4 DEF connectStartsGame
        <4>2. sending' \in [Thread -> SUBSET SessionId]
          BY <2>1, <3>1, <3>2, <4>1 DEF Thread
        <4> QED
          BY <1>1, <2>1, <3>4, <4>2 DEF connectStartsGame, Types
      <3> QED
        BY <1>11, <3>3, <3>4
    <2> QED
      BY <1>1, <2>1, <2>2, <2>3, <2>4 DEF Types
  <1>12. CASE disconnect \/ dropMessage \/ shutdown
    <2>1. /\ serverQueue' \in Seq(QueueEvent)
          /\ UNCHANGED <<listening, ownerPc, sawGameThread, open, nextSession, sent>>
      BY <1>1, <1>12, PopFacts DEF disconnect, dropMessage, shutdown
    <2>2. CASE disconnect
      BY <1>1, <2>1, <2>2 DEF Types, disconnect, Loop
    <2>3. CASE dropMessage
      BY <1>1, <2>1, <2>3 DEF Types, dropMessage, Loop
    <2>4. CASE shutdown
      BY <1>1, <2>1, <2>4 DEF Types, shutdown
    <2> QED
      BY <1>12, <2>2, <2>3, <2>4
  <1>13. ASSUME NEW c, Calls(c)
         PROVE  /\ serverQueue' \in Seq(QueueEvent) /\ handled' \in Seq(Call)
                /\ UNCHANGED <<listening, ownerPc, sawGameThread, open, nextSession, sent,
                               joinable, players, isRunning, seats, active, shown>>
                /\ Sender \in Player /\ PlayerOf(Sender) = Sender
                /\ c.type \in {"put", "pass", "resign", "chat"}
                /\ c.type = "put" => c.c \in EventCoord
                /\ c.type = "chat" => c.message \in Text
    <2>1. /\ Pop("ClientMessage") /\ c \in Intents(Head(serverQueue))
          /\ handled' = Append(handled, [session |-> Head(serverQueue).session, event |-> c])
      BY <1>13 DEF Calls
    <2>2. /\ serverQueue' \in Seq(QueueEvent)
          /\ Head(serverQueue) \in QueueEvent /\ Head(serverQueue).type = "ClientMessage"
          /\ UNCHANGED <<listening, ownerPc, sawGameThread, open, nextSession, sent>>
      BY <1>1, <2>1, PopFacts
    <2>3. [session |-> Head(serverQueue).session, event |-> c] \in Call
      BY <1>1, <2>1, <2>2, IntentFacts
    <2>4. handled' \in Seq(Call)
      BY <1>2, <2>1, <2>3, Pushed
    <2>5. /\ Sender \in Player /\ PlayerOf(Sender) = Sender
          /\ c.type \in {"put", "pass", "resign", "chat"}
          /\ c.type = "put" => c.c \in EventCoord
          /\ c.type = "chat" => c.message \in Text
      BY <1>1, <2>1, <2>2, IntentFacts DEF Sender
    <2> QED
      BY <1>13, <2>2, <2>4, <2>5 DEF Calls
  <1>14. CASE handleMove
    <2>1. PICK c : /\ Calls(c) /\ c.type # "chat"
                   /\ eventQueue' = Append(eventQueue, GameEvent(PlayerOf(Sender), c))
      BY <1>14, MoveFacts
    <2>2. GameEvent(PlayerOf(Sender), c) \in Game!Event
      BY <1>13, <2>1 DEF GameEvent, Game!Event, Game!MoveEvent, Game!Player, Player
    <2>3. eventQueue' \in Seq(Game!Event)
      BY <1>2, <2>1, <2>2, Pushed
    <2>4. Loop /\ UNCHANGED <<gameThread, gameActive, deltas, chatHistory, sending, message>>
      BY <1>14, MoveFacts
    <2> QED
      BY <1>1, <1>13, <2>1, <2>3, <2>4 DEF Types, Loop
  <1>15. CASE rejectMove
    <2>1. /\ Loop /\ (\E c : Calls(c))
          /\ UNCHANGED <<gameThread, gameActive, eventQueue, deltas, chatHistory, sending, message>>
      BY <1>15, RejectFacts
    <2> QED
      BY <1>1, <1>13, <2>1 DEF Types, Loop
  <1>16. CASE handleChat
    <2>1. PICK c : /\ Calls(c) /\ c.type = "chat"
                   /\ chatHistory' = Append(chatHistory, [player |-> PlayerOf(Sender),
                                                          message |-> c.message])
                   /\ broadcast("server", ServerChat(PlayerOf(Sender), Len(chatHistory) + 1,
                                                     c.message))
      BY <1>16, ChatFacts
    <2>2. chatHistory' \in Seq([player : Player, message : Text])
      <3>1. [player |-> PlayerOf(Sender), message |-> c.message] \in [player : Player, message : Text]
        BY <1>13, <2>1
      <3> QED
        BY <1>2, <2>1, <3>1, Pushed
    <2>3. serverPc' = "broadcast" /\ UNCHANGED <<gameThread, gameActive, eventQueue, deltas>>
      BY <1>16, ChatFacts
    <2>4. sending' \in [Thread -> SUBSET SessionId] /\ message' = [t \in Thread |-> message'[t]]
      BY <1>1, <2>1 DEF broadcast, Types, Sessions
    <2> QED
      BY <1>1, <1>13, <2>1, <2>2, <2>3, <2>4 DEF Types
  <1>17. ASSUME NEW t \in Thread, NEW s \in SessionId, visit(t, s)
         PROVE  Types'
    <2>1. /\ sending' = [sending EXCEPT ![t] = @ \ {s}]
          /\ message' = [message EXCEPT ![t] = IF sending[t] = {s} THEN <<>> ELSE @]
          /\ shown' = IF s \in open THEN [shown EXCEPT ![s] = ShownAfter(@, message[t])] ELSE shown
          /\ serverPc' = IF t = "game" \/ sending[t] # {s} THEN serverPc
                         ELSE IF isRunning THEN "pop" ELSE "ended"
          /\ UNCHANGED <<gameVars, handlerVars, ownerVars, networkVars, sessionVars, serverQueue,
                         handled>>
      BY <1>17, VisitFacts
    <2>2. shown' = [r \in SessionId |-> [position |-> shown'[r].position, chat |-> shown'[r].chat]]
      <3>1. PICK x : x = ShownAfter(shown[s], message[t])
        OBVIOUS
      <3>2. shown[s] = [position |-> shown[s].position, chat |-> shown[s].chat]
        BY <1>1 DEF Types
      <3>3. x = [position |-> x.position, chat |-> x.chat]
        BY <3>1, <3>2 DEF ShownAfter
      <3>4. shown' = [shown EXCEPT ![s] = x] \/ shown' = shown
        BY <2>1, <3>1
      <3> QED
        BY <1>1, <3>3, <3>4 DEF Types
    <2>3. sending' \in [Thread -> SUBSET SessionId] /\ message' = [r \in Thread |-> message'[r]]
      BY <1>1, <2>1 DEF Types
    <2> QED
      BY <1>1, <2>1, <2>2, <2>3 DEF Types
  <1>18. CASE run
    BY <1>1, <1>18 DEF Types, run, Game!run
  <1>19. CASE play
    <2>1. /\ gameThread = "running"
          /\ PlaysNothing \/ \E d : Delivers(d)
          /\ UNCHANGED <<handlerVars, ownerVars, networkVars, sessionVars, shown, serverQueue,
                         serverPc, handled>>
      BY <1>1, <1>19, PlayFacts
    <2>2. CASE PlaysNothing
      <3>1. eventQueue' \in Seq(Game!Event)
        BY <1>1, <1>2, <2>2, TakesFacts DEF PlaysNothing
      <3>2. /\ deltas' = deltas /\ gameActive' \in BOOLEAN
            /\ gameThread' \in {"none", "running", "ended"}
            /\ UNCHANGED <<sending, message>>
        BY <1>1, <2>2 DEF Types, PlaysNothing
      <3> QED
        BY <1>1, <2>1, <3>1, <3>2 DEF Types
    <2>3. ASSUME NEW d, Delivers(d)
          PROVE  Types'
      <3>1. eventQueue' \in Seq(Game!Event)
        BY <1>1, <2>3, TakesFacts DEF Delivers
      <3>2. deltas' \in Seq(Game!Delta) /\ gameActive' \in BOOLEAN
        BY <1>2, <2>3, Pushed DEF Delivers, Game!Delta
      <3>3. sending' \in [Thread -> SUBSET SessionId] /\ message' = [r \in Thread |-> message'[r]]
        <4>1. \/ UNCHANGED <<sending, message>>
              \/ broadcast("game", DeltaEvent(d))
          BY <2>3 DEF Delivers
        <4> QED
          BY <1>1, <4>1 DEF Types, broadcast, Sessions
      <3> QED
        BY <1>1, <2>1, <2>3, <3>1, <3>2, <3>3 DEF Types, Delivers
    <2> QED
      BY <2>1, <2>2, <2>3
  <1>20. CASE UNCHANGED vars
    BY <1>1, <1>20 DEF Types
  <1> QED
    BY <1>3, <1>4, <1>5, <1>6, <1>8, <1>9, <1>10, <1>11, <1>12, <1>14, <1>15, <1>16, <1>17,
       <1>18, <1>19, <1>20
    DEF Next, Stopping, Network, ServerThread, GameThread, stopHangs, Terminated, Thread

-----------------------------------------------------------------------------
(* Who runs when, and the connections.                                     *)

LEMMA PhasesStep ==
    ASSUME IInv, [Next]_vars
    PROVE  Phases'
  <1> USE DEF vars, gameVars, handlerVars, ownerVars, networkVars, sessionVars, wireVars, Sessions
  <1>1. Types /\ Phases /\ Connections /\ Broadcasts
    BY DEF IInv
  <1>2. CASE start
    BY <1>1, <1>2 DEF Phases, start
  <1>3. CASE stop
    <2>1. /\ ownerPc \in {"start", "stop"} /\ ownerPc' = "server"
          /\ UNCHANGED <<gameThread, gameActive, deltas, joinable, listening, sending, seats, serverPc, open>>
          /\ ~ joinable => eventQueue' = eventQueue
      BY <1>3 DEF stop, Game!pushEvent
    <2> QED
      BY <1>1, <2>1 DEF Phases
  <1>4. CASE stopServer \/ stopNetwork \/ joinServer \/ unsubscribeState
    BY <1>1, <1>4 DEF Phases, stopServer, stopNetwork, joinServer, unsubscribeState
  <1>5. CASE joinGame
    BY <1>1, <1>5 DEF Phases, joinGame
  <1>6. CASE clientConnects
    BY <1>1, <1>6 DEF Phases, clientConnects, Queue
  <1>7. ASSUME NEW s \in SessionId, NEW payload,
               clientLeaves(s) \/ clientSends(s, payload)
        PROVE  Phases'
    BY <1>1, <1>7 DEF Phases, clientLeaves, clientSends, Queue
  <1>8. CASE connect \/ connectStartsGame
    <2> DEFINE s == Head(serverQueue).session
    <2>1. /\ Pop("ClientConnected") /\ s \in SessionId
          /\ freeSeat \in {"Black", "White", "Observer"}
          /\ seats' = [seats EXCEPT ![s] = freeSeat]
          /\ UNCHANGED <<gameThread, gameActive, eventQueue, deltas>>
      BY <1>1, <1>8, NewSessionFacts
    <2>2. serverPc = "pop" /\ UNCHANGED <<listening, ownerPc, open>>
      BY <1>1, <2>1, PopFacts
    <2>3. s \in Sessions' /\ serverPc' # "none"
      <3>1. seats'[s] # "None" /\ s \in SessionId
        BY <1>1, <2>1 DEF Types
      <3>2. serverPc' # "none"
        BY <1>1, <1>8, ConnectFacts, StartFacts DEF Loop
      <3> QED
        BY <3>1, <3>2
    <2>4. ownerPc \notin {"start", "unsubscribe", "joinGame", "done"} /\ listening
      BY <1>1, <2>2 DEF Phases
    <2>5. joinable' = joinable \/ joinable' = TRUE
      BY <1>1, <1>8, ConnectFacts, StartFacts
    <2> QED
      BY <1>1, <2>1, <2>2, <2>3, <2>4, <2>5 DEF Phases
  <1>9. CASE disconnect \/ dropMessage \/ shutdown
    <2>1. /\ serverPc = "pop" /\ serverPc' # "none"
          /\ UNCHANGED <<listening, ownerPc, open, gameThread, gameActive, eventQueue, deltas,
                         joinable, seats, sending>>
      BY <1>9 DEF disconnect, dropMessage, shutdown, Pop, Loop
    <2> QED
      BY <1>1, <2>1 DEF Phases
  <1>10. CASE handleMove \/ rejectMove \/ handleChat
    <2>1. PICK c : Calls(c)
      BY <1>10, MoveFacts, RejectFacts, ChatFacts
    <2>2. serverPc = "pop" /\ UNCHANGED <<listening, ownerPc, open, joinable, seats>>
      BY <2>1 DEF Calls, Pop
    <2>3. /\ serverPc' # "none" /\ UNCHANGED <<gameThread, gameActive, deltas>>
          /\ gameActive \/ eventQueue' = eventQueue
      BY <1>10, MoveFacts, RejectFacts, ChatFacts DEF Loop
    <2>4. ownerPc \notin {"start", "unsubscribe", "joinGame", "done"}
      BY <1>1, <2>2 DEF Phases
    <2> QED
      BY <1>1, <2>2, <2>3, <2>4 DEF Phases
  <1>11. ASSUME NEW t \in Thread, NEW s \in SessionId, visit(t, s)
         PROVE  Phases'
    <2>1. /\ s \in sending[t] /\ sending' = [sending EXCEPT ![t] = @ \ {s}]
          /\ serverPc' = IF t = "game" \/ sending[t] # {s} THEN serverPc
                         ELSE IF isRunning THEN "pop" ELSE "ended"
          /\ UNCHANGED <<gameVars, handlerVars, ownerVars, networkVars, sessionVars>>
      BY <1>11, VisitFacts
    <2>2. sending'["game"] \subseteq sending["game"]
      BY <1>1, <2>1 DEF Types, Thread
    <2>3. serverPc' = serverPc \/ (serverPc = "broadcast" /\ serverPc' \in {"pop", "ended"})
      <3>1. CASE t = "game"
        BY <2>1, <3>1
      <3>2. CASE t = "server"
        <4>1. sending["server"] # {}
          BY <2>1, <3>2
        <4>2. serverPc = "broadcast"
          BY <1>1, <4>1 DEF Broadcasts
        <4> QED
          BY <2>1, <4>2
      <3> QED
        BY <3>1, <3>2 DEF Thread
    <2> QED
      BY <1>1, <2>1, <2>2, <2>3 DEF Phases
  <1>12. CASE run
    BY <1>1, <1>12 DEF Phases, run, Game!run
  <1>13. CASE play
    <2>1. /\ gameThread = "running"
          /\ PlaysNothing \/ \E d : Delivers(d)
          /\ UNCHANGED <<handlerVars, ownerVars, networkVars, sessionVars, serverPc>>
      BY <1>1, <1>13, PlayFacts
    <2>2. gameThread' \in {"running", "ended"} /\ (~ listening => UNCHANGED sending)
      BY <2>1 DEF PlaysNothing, Delivers
    <2> QED
      BY <1>1, <2>1, <2>2 DEF Phases
  <1>14. CASE UNCHANGED vars
    BY <1>1, <1>14 DEF Phases
  <1> QED
    BY <1>2, <1>3, <1>4, <1>5, <1>6, <1>7, <1>8, <1>9, <1>10, <1>11, <1>12, <1>13, <1>14
    DEF Next, Stopping, Network, ServerThread, GameThread, stopHangs, Terminated, Thread

\* A connection that is new is not in the queue, and its event is the last one.
LEMMA QueuedConnections ==
    ASSUME Types, Connections, NEW e \in QueueEvent, serverQueue' = Append(serverQueue, e),
           UNCHANGED <<seats, active>>, nextSession <= nextSession', open' \subseteq open \cup {nextSession},
           nextSession' \in Nat,
           \A s \in SessionId : s \in open' => s < nextSession' /\ (seats[s] # "None" => s \in active),
           e.type = "ClientConnected" =>
               e.session = nextSession /\ e.session < nextSession' /\ seats[e.session] = "None",
           e.type = "ClientDisconnected" => e.session \notin open' /\ e.session < nextSession,
           \A i \in 1 .. Len(serverQueue) :
               serverQueue[i].type = "ClientDisconnected" => serverQueue[i].session \notin open'
    PROVE  Connections'
  <1> DEFINE L == Len(serverQueue)
  <1>1. /\ L \in Nat /\ Len(serverQueue') = L + 1
        /\ \A i \in 1 .. L : serverQueue'[i] = serverQueue[i]
        /\ serverQueue'[L + 1] = e
        /\ \A i \in 1 .. L + 1 : i \in 1 .. L \/ i = L + 1
    BY Pushed DEF Types
  <1>2. nextSession \in Nat
    BY GameServerAssumption DEF Types
  <1>3. \A i \in 1 .. L : serverQueue[i] \in QueueEvent
    BY ElementOfSeq DEF Types
  <1> HIDE DEF L
  <1>4. ASSUME NEW s \in SessionId
        PROVE  /\ s \in open' \/ seats'[s] # "None" => s < nextSession'
               /\ s \in open' /\ seats'[s] # "None" => s \in active'
    <2>1. seats[s] # "None" => s < nextSession
      BY DEF Connections
    <2>2. s \in Nat
      BY GameServerAssumption DEF SessionId
    <2> QED
      BY <1>2, <2>1, <2>2
  <1>5. ASSUME NEW i \in 1 .. L
        PROVE  /\ serverQueue'[i].type = "ClientConnected" =>
                      /\ seats'[serverQueue'[i].session] = "None"
                      /\ serverQueue'[i].session < nextSession
                      /\ serverQueue'[i].session < nextSession'
               /\ serverQueue'[i].type = "ClientDisconnected" =>
                      /\ serverQueue'[i].session \notin open'
                      /\ serverQueue'[i].session < nextSession'
    <2>1. PICK o : o = serverQueue[i] /\ serverQueue'[i] = o
      BY <1>1
    <2>2. o \in QueueEvent
      BY <1>3, <2>1
    <2>3. /\ o.type = "ClientConnected" =>
                 seats[o.session] = "None" /\ o.session < nextSession /\ o.session \in SessionId
          /\ o.type = "ClientDisconnected" => o.session < nextSession /\ o.session \in SessionId
      BY <2>1, <2>2, QueueShape DEF Connections, L
    <2>4. \A s \in SessionId : s < nextSession => s < nextSession'
      <3>1. \A s \in SessionId : s \in Nat
        BY GameServerAssumption DEF SessionId
      <3> QED
        BY <1>2, <3>1
    <2>5. o.type = "ClientDisconnected" => o.session \notin open'
      BY <2>1 DEF L
    <2> QED
      BY <2>1, <2>3, <2>4, <2>5
  <1>6. ASSUME NEW i \in 1 .. L + 1, NEW j \in 1 .. L + 1, i < j,
               serverQueue'[i].type = "ClientConnected", serverQueue'[j].type = "ClientConnected"
        PROVE  serverQueue'[i].session # serverQueue'[j].session
    <2>1. i \in 1 .. L
      BY <1>1, <1>6
    <2>2. CASE j \in 1 .. L
      BY <1>1, <1>6, <2>1, <2>2 DEF Connections, L
    <2>3. CASE j = L + 1
      <3>1. serverQueue'[i].session < nextSession /\ serverQueue'[i].session \in Nat
        <4>1. PICK o : o = serverQueue[i] /\ serverQueue'[i] = o
          BY <1>1, <2>1
        <4>2. o \in QueueEvent
          BY <1>3, <2>1, <4>1
        <4>3. o.session \in Nat
          BY <1>6, <4>1, <4>2, QueueShape, GameServerAssumption DEF SessionId
        <4> QED
          BY <1>5, <1>6, <2>1, <4>1, <4>3
      <3>2. serverQueue'[j].session = nextSession
        BY <1>1, <1>6, <2>3
      <3>3. PICK r : r = serverQueue'[i].session
        OBVIOUS
      <3>4. r < nextSession /\ r \in Nat
        BY <3>1, <3>3
      <3>5. r # nextSession
        BY <1>2, <3>4
      <3> QED
        BY <3>2, <3>3, <3>5
    <2> QED
      BY <1>1, <2>2, <2>3
  <1>7. ASSUME NEW i \in 1 .. L + 1
        PROVE  /\ serverQueue'[i].type = "ClientConnected" =>
                      /\ seats'[serverQueue'[i].session] = "None"
                      /\ serverQueue'[i].session < nextSession'
               /\ serverQueue'[i].type = "ClientDisconnected" =>
                      /\ serverQueue'[i].session \notin open'
                      /\ serverQueue'[i].session < nextSession'
    <2>1. CASE i \in 1 .. L
      BY <1>5, <2>1
    <2>2. CASE i = L + 1
      <3>1. serverQueue'[i] = e /\ seats' = seats
        BY <1>1, <2>2
      <3>2. e.type = "ClientDisconnected" => e.session < nextSession'
        <4>1. e.type = "ClientDisconnected" => e.session \in Nat
          BY QueueShape, GameServerAssumption DEF SessionId
        <4> QED
          BY <1>2, <4>1
      <3> QED
        BY <3>1, <3>2
    <2> QED
      BY <1>1, <2>1, <2>2
  <1>8. \A i \in 1 .. Len(serverQueue') : i \in 1 .. L + 1
    BY <1>1
  <1>9. /\ \A s \in SessionId :
               /\ s \in open' \/ seats'[s] # "None" => s < nextSession'
               /\ s \in open' /\ seats'[s] # "None" => s \in active'
        /\ \A i \in 1 .. Len(serverQueue') :
               /\ serverQueue'[i].type = "ClientConnected" =>
                      /\ seats'[serverQueue'[i].session] = "None"
                      /\ serverQueue'[i].session < nextSession'
               /\ serverQueue'[i].type = "ClientDisconnected" =>
                      /\ serverQueue'[i].session \notin open'
                      /\ serverQueue'[i].session < nextSession'
        /\ \A i, j \in 1 .. Len(serverQueue') :
               /\ i < j
               /\ serverQueue'[i].type = "ClientConnected" /\ serverQueue'[j].type = "ClientConnected"
               => serverQueue'[i].session # serverQueue'[j].session
    BY <1>4, <1>6, <1>7, <1>8
  <1> QED
    BY <1>9 DEF Connections

\* A connection may close and an event may be taken, and all the others stay.
LEMMA TakenConnections ==
    ASSUME Types, Connections, UNCHANGED nextSession, open' \subseteq open,
           \A s \in SessionId : s \in open => (s \in active => s \in active'),
           \/ serverQueue' = serverQueue
           \/ serverQueue # <<>> /\ serverQueue' = Tail(serverQueue),
           seats' = seats
    PROVE  Connections'
  <1> DEFINE L == Len(serverQueue)
  <1>1. CASE serverQueue' = serverQueue
    BY <1>1 DEF Connections
  <1>2. CASE serverQueue # <<>> /\ serverQueue' = Tail(serverQueue)
    <2>1. /\ L \in Nat /\ Len(serverQueue') = L - 1
          /\ \A i \in 1 .. L - 1 : serverQueue'[i] = serverQueue[i + 1] /\ i + 1 \in 1 .. L
      BY <1>2, Popped DEF Types
    <2>2. \A i, j \in 1 .. L - 1 : i < j => i + 1 < j + 1
      BY <2>1
    <2>3. \A s \in SessionId :
              /\ s \in open' \/ seats'[s] # "None" => s < nextSession'
              /\ s \in open' /\ seats'[s] # "None" => s \in active'
      BY DEF Connections
    <2>4. ASSUME NEW i \in 1 .. L - 1
          PROVE  /\ serverQueue'[i].type = "ClientConnected" =>
                        /\ seats'[serverQueue'[i].session] = "None"
                        /\ serverQueue'[i].session < nextSession'
                 /\ serverQueue'[i].type = "ClientDisconnected" =>
                        /\ serverQueue'[i].session \notin open'
                        /\ serverQueue'[i].session < nextSession'
      <3>1. PICK o : o = serverQueue[i + 1] /\ serverQueue'[i] = o
        BY <2>1
      <3>2. /\ o.type = "ClientConnected" => seats[o.session] = "None" /\ o.session < nextSession
            /\ o.type = "ClientDisconnected" => o.session \notin open /\ o.session < nextSession
        BY <2>1, <3>1 DEF Connections
      <3> QED
        BY <3>1, <3>2
    <2>5. ASSUME NEW i \in 1 .. L - 1, NEW j \in 1 .. L - 1, i < j,
                 serverQueue'[i].type = "ClientConnected", serverQueue'[j].type = "ClientConnected"
          PROVE  serverQueue'[i].session # serverQueue'[j].session
      <3>1. /\ serverQueue'[i] = serverQueue[i + 1] /\ i + 1 \in 1 .. L
            /\ serverQueue'[j] = serverQueue[j + 1] /\ j + 1 \in 1 .. L
            /\ i + 1 < j + 1
        BY <2>1, <2>2, <2>5
      <3>2. serverQueue[i + 1].type = "ClientConnected" /\ serverQueue[j + 1].type = "ClientConnected"
        BY <2>5, <3>1
      <3>3. serverQueue[i + 1].session # serverQueue[j + 1].session
        BY <3>1, <3>2 DEF Connections
      <3> QED
        BY <3>1, <3>3
    <2> QED
      BY <2>1, <2>3, <2>4, <2>5 DEF Connections
  <1> QED
    BY <1>1, <1>2

LEMMA ConnectionsStep ==
    ASSUME IInv, [Next]_vars
    PROVE  Connections'
  <1> USE DEF vars, gameVars, handlerVars, ownerVars, networkVars, sessionVars, wireVars
  <1>1. Types /\ Phases /\ Connections /\ nextSession \in Nat
    BY GameServerAssumption DEF IInv, Types
  <1>2. CASE UNCHANGED <<open, nextSession, seats, active, serverQueue>>
    BY <1>2, <1>1, TakenConnections
  <1>3. CASE start \/ stop \/ joinServer \/ unsubscribeState \/ joinGame
    BY <1>2, <1>3 DEF start, stop, joinServer, unsubscribeState, joinGame
  <1>4. CASE stopServer
    <2>1. CASE isRunning
      <3>1. serverQueue' = Append(serverQueue, [type |-> "Shutdown"])
            /\ UNCHANGED <<open, nextSession, seats, active>>
        BY <1>4, <2>1 DEF stopServer
      <3>2. PICK e : e = [type |-> "Shutdown"]
        OBVIOUS
      <3>3. e \in QueueEvent /\ e.type = "Shutdown"
        BY <3>2 DEF QueueEvent
      <3> QED
        BY <1>1, <3>1, <3>2, <3>3, QueuedConnections DEF Connections
    <2>2. CASE ~ isRunning
      BY <1>2, <1>4, <2>2 DEF stopServer
    <2> QED
      BY <2>1, <2>2
  <1>5. CASE stopNetwork
    BY <1>1, <1>5, TakenConnections DEF stopNetwork
  <1>6. CASE clientConnects
    <2>1. PICK e : e = [type |-> "ClientConnected", session |-> nextSession]
      OBVIOUS
    <2>2. /\ nextSession \in SessionId /\ nextSession < nextSession + 1
          /\ open' = open \cup {nextSession} /\ nextSession' = nextSession + 1
          /\ serverQueue' = Append(serverQueue, e) /\ UNCHANGED <<seats, active>>
      BY <1>1, <1>6, <2>1, GameServerAssumption DEF clientConnects, Queue, SessionId, Types
    <2>3. e \in QueueEvent /\ e.type = "ClientConnected" /\ e.session = nextSession
      BY <2>1, <2>2 DEF QueueEvent
    <2>4. seats[nextSession] = "None" /\ nextSession \notin open
      BY <1>1, <2>2 DEF Connections
    <2>5. \A s \in SessionId : s \in open' => s < nextSession' /\ (seats[s] # "None" => s \in active)
      <3>1. \A s \in SessionId : s \in Nat
        BY GameServerAssumption DEF SessionId
      <3> QED
        BY <1>1, <2>2, <2>4, <3>1 DEF Connections
    <2>6. ASSUME NEW i \in 1 .. Len(serverQueue), serverQueue[i].type = "ClientDisconnected"
          PROVE  serverQueue[i].session \notin open'
      <3>1. serverQueue[i].session < nextSession /\ serverQueue[i].session \notin open
        BY <1>1, <2>6 DEF Connections
      <3> QED
        BY <1>1, <2>2, <3>1
    <2> QED
      BY <1>1, <2>2, <2>3, <2>4, <2>5, <2>6, QueuedConnections
  <1>7. ASSUME NEW s \in SessionId, clientLeaves(s)
        PROVE  Connections'
    <2>1. PICK e : e = [type |-> "ClientDisconnected", session |-> s]
      OBVIOUS
    <2>2. /\ s \in open /\ open' = open \ {s} /\ nextSession' = nextSession
          /\ serverQueue' = Append(serverQueue, e) /\ UNCHANGED <<seats, active>>
      BY <1>7, <2>1 DEF clientLeaves, Queue
    <2>3. e \in QueueEvent /\ e.type = "ClientDisconnected" /\ e.session = s /\ s < nextSession
      BY <1>1, <2>1, <2>2 DEF QueueEvent, Connections
    <2> QED
      BY <1>1, <2>2, <2>3, QueuedConnections DEF Connections
  <1>8. ASSUME NEW s \in SessionId, NEW payload \in Payload, clientSends(s, payload)
        PROVE  Connections'
    <2>1. PICK e : e = [type |-> "ClientMessage", session |-> s, payload |-> payload]
      OBVIOUS
    <2>2. serverQueue' = Append(serverQueue, e) /\ UNCHANGED <<open, nextSession, seats, active>>
      BY <1>8, <2>1 DEF clientSends, Queue
    <2>3. e \in QueueEvent /\ e.type = "ClientMessage"
      BY <2>1 DEF QueueEvent
    <2> QED
      BY <1>1, <2>2, <2>3, QueuedConnections DEF Connections
  <1>9. CASE connect \/ connectStartsGame
    <2> DEFINE s == Head(serverQueue).session
               L == Len(serverQueue)
    <2>1. /\ Pop("ClientConnected") /\ s \in SessionId /\ s < nextSession
          /\ seats' = [seats EXCEPT ![s] = freeSeat]
          /\ active' = active \cup {s}
      BY <1>1, <1>9, NewSessionFacts
    <2>2. /\ L \in Nat /\ 1 \in 1 .. L /\ Len(serverQueue') = L - 1
          /\ serverQueue[1].type = "ClientConnected" /\ serverQueue[1].session = s
          /\ \A i \in 1 .. L - 1 : serverQueue'[i] = serverQueue[i + 1] /\ i + 1 \in 1 .. L /\ 1 < i + 1
          /\ UNCHANGED <<open, nextSession>>
      BY <1>1, <2>1, PopFacts
    <2>3. \A r \in SessionId : r # s => seats'[r] = seats[r]
      BY <1>1, <2>1 DEF Types
    <2>4. \A r \in SessionId :
              /\ r \in open' \/ seats'[r] # "None" => r < nextSession'
              /\ r \in open' /\ seats'[r] # "None" => r \in active'
      BY <1>1, <2>1, <2>2, <2>3 DEF Connections
    <2>5. \A i \in 1 .. L : serverQueue[i] \in QueueEvent
      BY <1>1, ElementOfSeq DEF Types
    <2>6. ASSUME NEW i \in 1 .. L - 1
          PROVE  /\ serverQueue'[i].type = "ClientConnected" =>
                        /\ seats'[serverQueue'[i].session] = "None"
                        /\ serverQueue'[i].session < nextSession'
                 /\ serverQueue'[i].type = "ClientDisconnected" =>
                        /\ serverQueue'[i].session \notin open'
                        /\ serverQueue'[i].session < nextSession'
      <3>1. /\ serverQueue'[i] = serverQueue[i + 1] /\ i + 1 \in 1 .. L /\ 1 < i + 1
            /\ serverQueue[i + 1] \in QueueEvent
        BY <2>2, <2>5
      <3>2. PICK e : e = serverQueue[i + 1]
        OBVIOUS
      <3>3. e.type = "ClientConnected" => /\ seats[e.session] = "None" /\ e.session < nextSession
                                          /\ e.session \in SessionId
        BY <1>1, <3>1, <3>2, QueueShape DEF Connections
      <3>4. e.type = "ClientConnected" => e.session # s
        BY <1>1, <2>2, <3>1, <3>2 DEF Connections
      <3>5. e.type = "ClientDisconnected" => e.session \notin open /\ e.session < nextSession
        BY <1>1, <3>1, <3>2 DEF Connections
      <3> QED
        BY <2>2, <2>3, <3>1, <3>2, <3>3, <3>4, <3>5
    <2>7. ASSUME NEW i \in 1 .. L - 1, NEW j \in 1 .. L - 1, i < j,
                 serverQueue'[i].type = "ClientConnected", serverQueue'[j].type = "ClientConnected"
          PROVE  serverQueue'[i].session # serverQueue'[j].session
      <3>1. /\ serverQueue'[i] = serverQueue[i + 1] /\ i + 1 \in 1 .. L
            /\ serverQueue'[j] = serverQueue[j + 1] /\ j + 1 \in 1 .. L
        BY <2>2
      <3>2. i + 1 < j + 1
        BY <2>7
      <3> QED
        BY <1>1, <2>7, <3>1, <3>2 DEF Connections
    <2> HIDE DEF s, L
    <2> QED
      BY <2>2, <2>4, <2>6, <2>7 DEF Connections
  <1>10. CASE disconnect
    <2>1. /\ Pop("ClientDisconnected") /\ active' = active \ {Head(serverQueue).session}
          /\ seats' = seats
      BY <1>10 DEF disconnect
    <2>2. /\ serverQueue # <<>> /\ serverQueue' = Tail(serverQueue)
          /\ UNCHANGED <<open, nextSession>>
          /\ 1 \in 1 .. Len(serverQueue) /\ Head(serverQueue) = serverQueue[1]
          /\ Head(serverQueue).type = "ClientDisconnected"
      BY <1>1, <2>1, PopFacts
    <2>3. Head(serverQueue).session \notin open
      BY <1>1, <2>2 DEF Connections
    <2> QED
      BY <1>1, <2>1, <2>2, <2>3, TakenConnections
  <1>11. CASE dropMessage \/ shutdown
    <2>1. /\ serverQueue # <<>> /\ serverQueue' = Tail(serverQueue)
          /\ UNCHANGED <<open, nextSession, seats, active>>
      BY <1>11 DEF dropMessage, shutdown, Pop
    <2> QED
      BY <1>1, <2>1, TakenConnections
  <1>12. CASE handleMove \/ rejectMove \/ handleChat
    <2>1. PICK c : Calls(c)
      BY <1>12, MoveFacts, RejectFacts, ChatFacts
    <2>2. /\ serverQueue # <<>> /\ serverQueue' = Tail(serverQueue)
          /\ UNCHANGED <<open, nextSession, seats, active>>
      BY <2>1 DEF Calls, Pop
    <2> QED
      BY <1>1, <2>2, TakenConnections
  <1>13. ASSUME NEW t \in Thread, NEW s \in SessionId, visit(t, s)
         PROVE  Connections'
    BY <1>2, <1>13 DEF visit
  <1>14. CASE run \/ play \/ UNCHANGED vars
    BY <1>2, <1>14 DEF run, play
  <1> QED
    BY <1>3, <1>4, <1>5, <1>6, <1>7, <1>8, <1>9, <1>10, <1>11, <1>12, <1>13, <1>14
    DEF Next, Stopping, Network, ServerThread, GameThread, stopHangs, Terminated, Thread

-----------------------------------------------------------------------------
(* The deltas and the broadcasts.                                          *)

\* Only the game thread changes the deltas and what isActive returns.
LEMMA GameStays ==
    ASSUME [Next]_vars
    PROVE  run \/ play \/ UNCHANGED <<gameThread, gameActive, deltas>>
  <1> USE DEF vars, gameVars, handlerVars, ownerVars, networkVars, sessionVars, wireVars
  <1>1. CASE start \/ Stopping
    BY <1>1 DEF start, Stopping, stopServer, stopNetwork, joinServer, unsubscribeState, joinGame
  <1>2. CASE stop
    BY <1>2 DEF stop, Game!pushEvent
  <1>3. CASE Network
    BY <1>3 DEF Network, clientConnects, clientLeaves, clientSends, Queue
  <1>4. CASE connect \/ connectStartsGame \/ disconnect
    BY <1>4 DEF connect, connectStartsGame, newSession, disconnect
  <1>5. CASE dropMessage \/ rejectMove \/ handleChat \/ shutdown
    BY <1>5 DEF dropMessage, rejectMove, handleChat, shutdown
  <1>6. CASE handleMove
    BY <1>6 DEF handleMove, Game!pushEvent
  <1>7. ASSUME NEW t \in Thread, NEW s \in SessionId, visit(t, s)
        PROVE  UNCHANGED <<gameThread, gameActive, deltas>>
    BY <1>7 DEF visit
  <1>8. CASE UNCHANGED vars
    BY <1>8
  <1> QED
    BY <1>1, <1>2, <1>3, <1>4, <1>5, <1>6, <1>7, <1>8
    DEF Next, ServerThread, GameThread, stopHangs, Terminated, Thread

LEMMA DeltasAreMovesStep ==
    ASSUME IInv, [Next]_vars
    PROVE  DeltasAreMoves'
  <1>1. Types /\ Phases /\ DeltasAreMoves
    BY DEF IInv
  <1>2. CASE UNCHANGED <<deltas, gameActive>>
    BY <1>1, <1>2 DEF DeltasAreMoves
  <1>3. CASE run
    <2>1. gameThread = "none" /\ deltas' = deltas
      BY <1>3 DEF run, Game!run
    <2>2. deltas' = <<>>
      BY <1>1, <2>1 DEF Phases
    <2>3. Len(deltas') = 0
      BY <2>2, EmptySeq
    <2> QED
      BY <2>3 DEF DeltasAreMoves
  <1>4. CASE play
    <2>1. CASE PlaysNothing
      <3>1. deltas' = deltas
        BY <2>1 DEF PlaysNothing
      <3>2. gameActive' => gameActive
        BY <2>1 DEF PlaysNothing
      <3> QED
        BY <1>1, <3>1, <3>2 DEF DeltasAreMoves
    <2>2. ASSUME NEW d, Delivers(d)
          PROVE  DeltasAreMoves'
      <3> DEFINE L == Len(deltas)
      <3>1. /\ gameActive /\ d \in Game!Delta /\ d.moveId = L + 1 /\ d.gameActive = gameActive'
            /\ IF d.action = "Place" THEN \E c \in Coord : d.coord = {c}
               ELSE d.coord = {} /\ d.captures = {}
            /\ deltas' = Append(deltas, d)
        BY <2>2 DEF Delivers
      <3>2. /\ L \in Nat /\ Len(deltas') = L + 1 /\ deltas'[L + 1] = d
            /\ \A i \in 1 .. L : deltas'[i] = deltas[i]
            /\ \A i \in 1 .. L + 1 : i \in 1 .. L \/ i = L + 1
        BY <1>1, <3>1, Pushed DEF Types
      <3>3. \A i \in 1 .. L : /\ deltas[i].moveId = i /\ deltas[i].gameActive
                              /\ IF deltas[i].action = "Place" THEN \E c \in Coord : deltas[i].coord = {c}
                                 ELSE deltas[i].coord = {} /\ deltas[i].captures = {}
        BY <1>1, <3>1 DEF DeltasAreMoves
      <3> HIDE DEF L
      <3>4. ASSUME NEW i \in 1 .. L + 1
            PROVE  /\ deltas'[i].moveId = i
                   /\ i < L + 1 \/ gameActive' => deltas'[i].gameActive
                   /\ IF deltas'[i].action = "Place" THEN \E c \in Coord : deltas'[i].coord = {c}
                      ELSE deltas'[i].coord = {} /\ deltas'[i].captures = {}
        <4>1. CASE i \in 1 .. L
          <5>1. deltas'[i] = deltas[i]
            BY <3>2, <4>1
          <5> QED
            BY <3>3, <4>1, <5>1
        <4>2. CASE i = L + 1
          <5>1. ~ (i < L + 1) /\ deltas'[i] = d
            BY <3>2, <4>2
          <5> QED
            BY <3>1, <4>2, <5>1 DEF L
        <4> QED
          BY <3>2, <4>1, <4>2
      <3> QED
        BY <3>2, <3>4 DEF DeltasAreMoves
    <2> QED
      BY <1>1, <1>4, <2>1, <2>2, PlayFacts
  <1> QED
    BY <1>2, <1>3, <1>4, GameStays

\* The moves that wait when an event was taken, and when one was pushed.
LEMMA MovesTaken ==
    ASSUME Types, Takes
    PROVE  /\ 1 \in 1 .. Len(eventQueue) /\ Head(eventQueue) = eventQueue[1]
           /\ Head(eventQueue).type # "Shutdown" => 1 \in Moves
           /\ \A i \in Moves' : /\ i \in Nat /\ i + 1 \in Nat /\ 1 < i + 1
                                /\ i + 1 \in Moves /\ eventQueue'[i] = eventQueue[i + 1]
  <1>1. /\ Len(eventQueue) \in Nat /\ 1 \in 1 .. Len(eventQueue)
        /\ Head(eventQueue) = eventQueue[1]
        /\ Len(eventQueue') = Len(eventQueue) - 1
        /\ \A i \in 1 .. Len(eventQueue) - 1 :
               /\ eventQueue'[i] = eventQueue[i + 1]
               /\ i + 1 \in 1 .. Len(eventQueue) /\ 1 < i + 1
    BY TakesFacts
  <1>2. ASSUME NEW i \in Moves'
        PROVE  /\ i \in Nat /\ i + 1 \in Nat /\ 1 < i + 1
               /\ i + 1 \in Moves /\ eventQueue'[i] = eventQueue[i + 1]
    <2>1. i \in 1 .. Len(eventQueue) - 1 /\ eventQueue'[i].type # "Shutdown"
      BY <1>1, <1>2 DEF Moves
    <2>2. i \in Nat /\ i + 1 \in Nat
      BY <1>1, <2>1
    <2> QED
      BY <1>1, <2>1, <2>2 DEF Moves
  <1> QED
    BY <1>1, <1>2 DEF Moves

LEMMA MovesPushed ==
    ASSUME Types, NEW e \in Game!Event, eventQueue' = Append(eventQueue, e)
    PROVE  /\ Len(eventQueue) \in Nat
           /\ \A i \in Moves' : \/ i \in Moves /\ eventQueue'[i] = eventQueue[i]
                                \/ /\ i = Len(eventQueue) + 1 /\ eventQueue'[i] = e
                                   /\ e.type # "Shutdown"
           /\ \A i \in Moves : i \in Nat /\ i < Len(eventQueue) + 1
  <1>1. /\ Len(eventQueue) \in Nat /\ Len(eventQueue') = Len(eventQueue) + 1
        /\ \A i \in 1 .. Len(eventQueue) : eventQueue'[i] = eventQueue[i]
        /\ eventQueue'[Len(eventQueue) + 1] = e
        /\ \A i \in 1 .. Len(eventQueue) + 1 : i \in 1 .. Len(eventQueue) \/ i = Len(eventQueue) + 1
    BY Pushed DEF Types
  <1>2. ASSUME NEW i \in Moves'
        PROVE  \/ i \in Moves /\ eventQueue'[i] = eventQueue[i]
               \/ i = Len(eventQueue) + 1 /\ eventQueue'[i] = e /\ e.type # "Shutdown"
    <2>1. i \in 1 .. Len(eventQueue) + 1 /\ eventQueue'[i].type # "Shutdown"
      BY <1>1, <1>2 DEF Moves
    <2>2. CASE i \in 1 .. Len(eventQueue)
      BY <1>1, <2>1, <2>2 DEF Moves
    <2>3. CASE i = Len(eventQueue) + 1
      BY <1>1, <2>1, <2>3
    <2> QED
      BY <1>1, <2>1, <2>2, <2>3
  <1>3. \A i \in Moves : i \in Nat /\ i < Len(eventQueue) + 1
    BY <1>1 DEF Moves
  <1> QED
    BY <1>1, <1>2, <1>3

\* A broadcast goes on while the game and the chat stay, and sessions stay.
LEMMA BroadcastsStay ==
    ASSUME Types, Broadcasts, Types', UNCHANGED <<sending, message, deltas, chatHistory>>,
           Sessions \subseteq Sessions', Moves = {} => Moves' = {},
           (serverPc' = "broadcast") <=> (serverPc = "broadcast")
    PROVE  Broadcasts'
  BY DEF Broadcasts, ChatEvent

\* The same when the server thread takes an event that it tells nobody of.
LEMMA BroadcastsStayQuiet ==
    ASSUME Types, Broadcasts, serverPc = "pop", serverPc' # "broadcast",
           UNCHANGED <<sending, message, deltas, seats>>
    PROVE  Broadcasts'
  BY DEF Broadcasts, Sessions

LEMMA BroadcastsStep ==
    ASSUME IInv, [Next]_vars
    PROVE  Broadcasts'
  <1> USE DEF vars, gameVars, handlerVars, ownerVars, networkVars, sessionVars, wireVars
  <1>1. Types /\ Phases /\ Connections /\ Broadcasts /\ Types'
    BY TypesStep DEF IInv
  <1>2. CASE UNCHANGED <<sending, message, deltas, chatHistory, seats, eventQueue, serverPc>>
    BY <1>1, <1>2, BroadcastsStay DEF Moves, Sessions
  <1>3. CASE start
    <2>1. serverPc = "none" /\ serverPc' = "pop"
      BY <1>1, <1>3 DEF start, Phases
    <2> QED
      BY <1>1, <1>3, <2>1, BroadcastsStay DEF start, Moves, Sessions
  <1>4. CASE stop
    <2>1. CASE eventQueue' = eventQueue
      BY <1>1, <1>4, <2>1, BroadcastsStay DEF stop, Game!pushEvent, Moves, Sessions
    <2>2. CASE eventQueue' = Append(eventQueue, [type |-> "Shutdown"])
      <3>1. PICK e : e = [type |-> "Shutdown"]
        OBVIOUS
      <3>2. e \in Game!Event /\ e.type = "Shutdown"
        BY <3>1 DEF Game!Event
      <3>3. Moves' \subseteq Moves
        BY <1>1, <2>2, <3>1, <3>2, MovesPushed
      <3> QED
        BY <1>1, <1>4, <3>3, BroadcastsStay DEF stop, Game!pushEvent, Sessions
    <2> QED
      BY <1>4, <2>1, <2>2 DEF stop, Game!pushEvent
  <1>5. CASE Stopping \/ Network
    BY <1>2, <1>5 DEF Stopping, stopServer, stopNetwork, joinServer, unsubscribeState, joinGame,
                      Network, clientConnects, clientLeaves, clientSends, Queue
  <1>6. CASE connect \/ connectStartsGame
    <2> DEFINE s == Head(serverQueue).session
    <2>1. /\ Pop("ClientConnected") /\ s \in SessionId
          /\ freeSeat \in {"Black", "White", "Observer"}
          /\ seats' = [seats EXCEPT ![s] = freeSeat]
          /\ \/ sending'["game"] = sending["game"]
             \/ sending["game"] # {} /\ sending'["game"] = sending["game"] \cup {s}
          /\ UNCHANGED <<gameThread, eventQueue, deltas, chatHistory>>
      BY <1>1, <1>6, NewSessionFacts
    <2>2. serverPc = "pop" /\ ownerPc' = ownerPc
      BY <1>1, <2>1, PopFacts
    <2>3. sending["server"] = {}
      BY <1>1, <2>2 DEF Broadcasts
    <2>4. Sessions \cup {s} \subseteq Sessions'
      BY <1>1, <2>1 DEF Sessions, Types
    <2>5. sending'["game"] \subseteq Sessions' /\ (sending'["game"] = {} <=> sending["game"] = {})
      BY <1>1, <2>1, <2>4 DEF Broadcasts, Thread
    <2>6. CASE connect
      <3>1. sending'["server"] = {} /\ serverPc' # "broadcast" /\ message' = message
        BY <1>1, <2>3, <2>6, ConnectFacts DEF Loop
      <3> QED
        BY <1>1, <2>1, <2>3, <2>5, <3>1 DEF Broadcasts, Thread
    <2>7. CASE connectStartsGame
      <3>1. /\ ~ joinable /\ sending'["server"] = Sessions \cup {s}
            /\ message' = [message EXCEPT !["server"] = ServerGameConfig(BoardSize)]
            /\ serverPc' = "broadcast"
        BY <1>1, <2>7, StartFacts
      <3>2. ownerPc # "done"
        BY <1>1, <2>2 DEF Phases
      <3>3. eventQueue' = <<>> /\ deltas' = <<>> /\ deltas = <<>>
        BY <1>1, <2>1, <3>1, <3>2 DEF Phases
      <3>4. Moves' = {}
        <4>1. Len(eventQueue') = 0
          BY <3>3, EmptySeq
        <4> QED
          BY <4>1 DEF Moves
      <3>5. /\ message'["server"] = ServerGameConfig(BoardSize) /\ message'["game"] = message["game"]
        BY <1>1, <3>1 DEF Types, Thread
      <3>6. sending["game"] = {} /\ sending'["game"] = {} /\ message["game"] = <<>>
        BY <1>1, <2>5, <3>3 DEF Broadcasts, Thread
      <3>7. sending'["server"] # {} /\ sending'["server"] \subseteq Sessions'
        BY <2>4, <3>1
      <3> HIDE DEF s
      <3> QED
        BY <3>1, <3>3, <3>4, <3>5, <3>6, <3>7 DEF Broadcasts, Thread
    <2> QED
      BY <1>6, <2>6, <2>7
  <1>7. CASE disconnect \/ dropMessage \/ shutdown
    <2>1. /\ serverPc = "pop" /\ serverPc' # "broadcast"
          /\ UNCHANGED <<sending, message, deltas, seats>>
      BY <1>7 DEF disconnect, dropMessage, shutdown, Pop, Loop
    <2> QED
      BY <1>1, <2>1, BroadcastsStayQuiet
  <1>8. CASE handleMove \/ rejectMove
    <2>1. PICK c : Calls(c)
      BY <1>8, MoveFacts, RejectFacts
    <2>2. serverPc = "pop" /\ UNCHANGED seats
      BY <2>1 DEF Calls, Pop
    <2>3. serverPc' # "broadcast" /\ UNCHANGED <<deltas, sending, message>>
      BY <1>8, MoveFacts, RejectFacts DEF Loop
    <2> QED
      BY <1>1, <2>2, <2>3, BroadcastsStayQuiet
  <1>9. CASE handleChat
    <2>1. /\ serverPc' = "broadcast" /\ UNCHANGED <<deltas, eventQueue>>
      BY <1>9, ChatFacts
    <2>2. PICK c : /\ Calls(c) /\ c.type = "chat"
                   /\ chatHistory' = Append(chatHistory, [player |-> PlayerOf(Sender),
                                                          message |-> c.message])
                   /\ broadcast("server", ServerChat(PlayerOf(Sender), Len(chatHistory) + 1,
                                                     c.message))
      BY <1>9, ChatFacts
    <2>3. PICK e : e = Head(serverQueue)
      OBVIOUS
    <2>4. e \in QueueEvent /\ e.type = "ClientMessage" /\ c \in Intents(e) /\ seats' = seats
      BY <1>1, <2>2, <2>3, PopFacts DEF Calls
    <2>5. /\ e.session \in SessionId /\ seats[e.session] \in Player
          /\ PlayerOf(seats[e.session]) = seats[e.session] /\ c.message \in Text
      BY <1>1, <2>2, <2>4, IntentFacts
    <2>6. Sessions # {} /\ Sessions' = Sessions
      BY <2>4, <2>5 DEF Sessions, Player
    <2>7. PICK m : m = [player |-> PlayerOf(Sender), message |-> c.message]
      OBVIOUS
    <2>8. m \in [player : Player, message : Text]
      BY <2>3, <2>5, <2>7 DEF Sender
    <2>9. /\ Len(chatHistory') = Len(chatHistory) + 1 /\ chatHistory'[Len(chatHistory) + 1] = m
          /\ chatHistory' # <<>>
      <3>1. /\ Append(chatHistory, m) \in Seq([player : Player, message : Text])
            /\ Len(Append(chatHistory, m)) = Len(chatHistory) + 1 /\ Len(chatHistory) \in Nat
            /\ Append(chatHistory, m)[Len(chatHistory) + 1] = m
        BY <1>1, <2>8, Pushed DEF Types
      <3>2. Len(<<>>) = 0
        BY EmptySeq
      <3> QED
        BY <2>2, <2>7, <3>1, <3>2
    <2>10. /\ sending'["server"] = Sessions /\ sending'["game"] = sending["game"]
           /\ message'["game"] = message["game"]
           /\ message'["server"] = ServerChat(m.player, Len(chatHistory) + 1, m.message)
      BY <1>1, <2>2, <2>7 DEF broadcast, Types, Thread
    <2>11. message'["server"] = ChatEvent(Len(chatHistory))'
      BY <2>9, <2>10 DEF ChatEvent
    <2> QED
      BY <1>1, <2>1, <2>6, <2>9, <2>10, <2>11 DEF Broadcasts, Thread
  <1>10. ASSUME NEW t \in Thread, NEW s \in SessionId, visit(t, s)
         PROVE  Broadcasts'
    <2>1. /\ s \in sending[t]
          /\ sending' = [sending EXCEPT ![t] = @ \ {s}]
          /\ message' = [message EXCEPT ![t] = IF sending[t] = {s} THEN <<>> ELSE @]
          /\ serverPc' = IF t = "game" \/ sending[t] # {s} THEN serverPc
                         ELSE IF isRunning THEN "pop" ELSE "ended"
          /\ UNCHANGED <<eventQueue, deltas, chatHistory, seats>>
      BY <1>10, VisitFacts
    <2>2. Sessions' = Sessions /\ Moves' = Moves
      BY <2>1 DEF Sessions, Moves
    <2>3. \A r \in Thread : /\ r # t => sending'[r] = sending[r] /\ message'[r] = message[r]
                            /\ r = t => /\ sending'[r] = sending[r] \ {s}
                                        /\ message'[r] = IF sending[r] = {s} THEN <<>> ELSE message[r]
      BY <1>1, <2>1 DEF Types
    <2>4. sending'[t] = {} <=> sending[t] = {s}
      BY <2>1, <2>3
    <2>5. \A r \in Thread : sending'[r] \subseteq Sessions' /\ (sending'[r] = {} => message'[r] = <<>>)
      BY <1>1, <2>2, <2>3, <2>4 DEF Broadcasts
    <2>6. \A r \in Thread : sending'[r] # {} => sending[r] # {} /\ message'[r] = message[r]
      BY <2>1, <2>3, <2>4
    <2>7. (serverPc' = "broadcast") <=> (sending'["server"] # {})
      <3>1. CASE t = "game"
        BY <1>1, <2>1, <2>3, <3>1 DEF Broadcasts, Thread
      <3>2. CASE t = "server"
        <4>1. serverPc = "broadcast"
          BY <1>1, <2>1, <3>2 DEF Broadcasts
        <4> QED
          BY <2>1, <2>4, <3>2, <4>1
      <3> QED
        BY <3>1, <3>2 DEF Thread
    <2>8. "server" \in Thread /\ "game" \in Thread
      BY DEF Thread
    <2>9. \A i : ChatEvent(i)' = ChatEvent(i)
      BY <2>1 DEF ChatEvent
    <2> QED
      BY <1>1, <2>1, <2>2, <2>5, <2>6, <2>7, <2>8, <2>9 DEF Broadcasts
  <1>11. CASE run
    BY <1>2, <1>11 DEF run, Game!run
  <1>12. CASE play
    <2>1. /\ gameThread = "running" /\ sending["game"] = {}
          /\ PlaysNothing \/ \E d : Delivers(d)
          /\ UNCHANGED <<chatHistory, seats, serverPc>>
      BY <1>1, <1>12, PlayFacts
    <2>2. Sessions # {} /\ Sessions' = Sessions
      BY <1>1, <2>1 DEF Phases, Sessions
    <2>3. CASE PlaysNothing
      <3>1. CASE eventQueue' = eventQueue
        BY <1>2, <2>1, <2>3, <3>1 DEF PlaysNothing
      <3>2. CASE Takes
        <4>1. Moves = {} => Moves' = {}
          BY <1>1, <3>2, MovesTaken
        <4> QED
          BY <1>1, <2>1, <2>2, <2>3, <4>1, BroadcastsStay DEF PlaysNothing
      <3> QED
        BY <2>3, <3>1, <3>2 DEF PlaysNothing
    <2>4. ASSUME NEW d, Delivers(d)
          PROVE  Broadcasts'
      <3>1. /\ Takes /\ d \in Game!Delta /\ Answers(d, Head(eventQueue))
            /\ deltas' = Append(deltas, d)
            /\ IF listening THEN broadcast("game", DeltaEvent(d)) ELSE UNCHANGED <<sending, message>>
        BY <2>4 DEF Delivers
      <3>2. Moves # {}
        <4>1. Head(eventQueue).type # "Shutdown"
          BY <3>1 DEF Answers, Game!Delta
        <4> QED
          BY <1>1, <3>1, <4>1, MovesTaken
      <3>3. deltas' # <<>> /\ deltas'[Len(deltas')] = d
        <4>1. /\ Len(deltas) \in Nat /\ Len(Append(deltas, d)) = Len(deltas) + 1
              /\ Append(deltas, d)[Len(deltas) + 1] = d
          BY <1>1, <3>1, Pushed DEF Types
        <4>2. Len(<<>>) = 0
          BY EmptySeq
        <4> QED
          BY <3>1, <4>1, <4>2
      <3>4. \A i : ChatEvent(i)' = ChatEvent(i)
        BY <2>1 DEF ChatEvent
      <3>5. sending["server"] # {} => chatHistory # <<>> /\ message["server"] = ChatEvent(Len(chatHistory))
        BY <1>1, <3>2 DEF Broadcasts
      <3>6. CASE listening
        <4>1. /\ sending'["game"] = Sessions /\ sending'["server"] = sending["server"]
              /\ message'["game"] = DeltaEvent(d) /\ message'["server"] = message["server"]
          BY <1>1, <3>1, <3>6 DEF broadcast, Types, Thread
        <4>2. DeltaEvent(deltas'[Len(deltas')]) = DeltaEvent(d)
          BY <3>3
        <4> QED
          BY <1>1, <2>1, <2>2, <3>3, <3>4, <3>5, <4>1, <4>2 DEF Broadcasts, Thread, DeltaEvent
      <3>7. CASE ~ listening
        <4>1. UNCHANGED <<sending, message>>
          BY <3>1, <3>7
        <4> QED
          BY <1>1, <2>1, <2>2, <3>4, <3>5, <4>1 DEF Broadcasts, Thread
      <3> QED
        BY <3>6, <3>7
    <2> QED
      BY <2>1, <2>3, <2>4
  <1>13. CASE UNCHANGED vars
    BY <1>2, <1>13
  <1> QED
    BY <1>3, <1>4, <1>5, <1>6, <1>7, <1>8, <1>9, <1>10, <1>11, <1>12, <1>13
    DEF Next, ServerThread, GameThread, stopHangs, Terminated, Thread

-----------------------------------------------------------------------------
(* What clients show of the game.                                          *)

\* A client that got nothing, and no delta that counts for it.
LEMMA PositionStays ==
    ASSUME NEW s \in SessionId, PositionFollows(s), deltas' = deltas,
           shown'[s].position = shown[s].position,
           seats[s] # "None" =>
               /\ seats'[s] # "None"
               /\ s \in open' => s \in open /\ (s \in sending'["game"] <=> s \in sending["game"])
    PROVE  PositionFollows(s)'
  <1>1. \A n : PositionAfter(n)' = PositionAfter(n)
    BY DEF PositionAfter, MoveShown, DeltaEvent
  <1> QED
    BY <1>1 DEF PositionFollows

\* The configuration begins a game, or finds it begun.
LEMMA ConfigIsApplied ==
    ASSUME NEW position, position \in {Client!reset, PositionAfter(0)}
    PROVE  Client!init(position, [game |-> 1]) = PositionAfter(0)
  <1>1. PositionAfter(0) = [moveId |-> 0, status |-> "Active", boardOf |-> 1, moves |-> <<>>]
    <2>1. [i \in 1 .. 0 |-> MoveShown(deltas[i])] = <<>>
      OBVIOUS
    <2> QED
      BY <2>1 DEF PositionAfter
  <1>2. [game |-> 1].game = 1
    OBVIOUS
  <1>3. CASE position.status = "Active"
    <2>1. position = PositionAfter(0)
      BY <1>3 DEF Client!reset
    <2> QED
      BY <1>3, <2>1 DEF Client!init
  <1>4. CASE position.status # "Active"
    BY <1>1, <1>2, <1>4 DEF Client!init
  <1> QED
    BY <1>3, <1>4

\* What is signalled is broadcast while a client is connected.
LEMMA SignalledMeansListening ==
    ASSUME Phases, gameThread = "running", open # {}
    PROVE  listening
  BY DEF Phases

\* The client of a session that is visited.
LEMMA PositionVisited ==
    ASSUME IInv, NEW t \in Thread, NEW s \in SessionId, visit(t, s), s \in open
    PROVE  PositionFollows(s)'
  <1>1. /\ Types /\ DeltasAreMoves /\ Broadcasts /\ PositionFollows(s)
        /\ CausesInOrder /\ Counted
    BY DEF IInv, PositionsFollow
  <1>2. /\ s \in sending[t] /\ seats[s] # "None"
        /\ sending' = [sending EXCEPT ![t] = @ \ {s}]
        /\ shown' = [shown EXCEPT ![s] = ShownAfter(@, message[t])]
        /\ UNCHANGED <<deltas, seats, open>>
    BY VisitFacts DEF gameVars, networkVars, sessionVars
  <1>3. Len(deltas) \in Nat
    BY <1>1, Counts
  <1>4. /\ shown'[s] = ShownAfter(shown[s], message[t])
        /\ \E before : shown[s] = before /\ before = [position |-> before.position, chat |-> before.chat]
    BY <1>1, <1>2 DEF Types
  <1>5. PICK before : /\ shown[s] = before
                      /\ before = [position |-> before.position, chat |-> before.chat]
    BY <1>4
  <1>6. \A n : PositionAfter(n)' = PositionAfter(n)
    BY <1>2 DEF PositionAfter, MoveShown, DeltaEvent
  <1>7. CASE t = "game"
    <2>1. sending["game"] # {} /\ s \in sending["game"] /\ s \notin sending'["game"]
      BY <1>1, <1>2, <1>7 DEF Types
    <2>2. deltas # <<>> /\ message["game"] = DeltaEvent(deltas[Len(deltas)])
      BY <1>1, <2>1 DEF Broadcasts
    <2> DEFINE e == DeltaEvent(deltas[Len(deltas)])
               move == [turn |-> e.turn, gameActive |-> e.status = "Active", event |-> e]
    <2>3. shown'[s].position = Client!apply(before.position, move)
      <3>1. e.type = "delta"
        BY DEF DeltaEvent
      <3> HIDE DEF e
      <3>2. ShownAfter(before, e) = [before EXCEPT !.position = Client!apply(@, move)]
        BY <3>1 DEF ShownAfter
      <3>3. ShownAfter(before, e).position = Client!apply(before.position, move)
        BY <1>5, <3>2
      <3>4. shown'[s] = ShownAfter(before, e)
        BY <1>4, <1>5, <1>7, <2>2 DEF e
      <3> QED
        BY <3>3, <3>4
    <2>4. CASE before.position = Client!reset
      <3>1. Client!apply(before.position, move) = before.position
        <4>1. before.position.status # "Active"
          BY <2>4 DEF Client!reset
        <4> HIDE DEF move
        <4> QED
          BY <4>1 DEF Client!apply, Client!isDeltaApplicable
      <3> HIDE DEF move
      <3> QED
        BY <2>3, <2>4, <3>1 DEF PositionFollows
    <2>5. CASE before.position # Client!reset
      <3>1. PICK n \in 0 .. Len(deltas) : before.position = PositionAfter(n) /\ n = Len(deltas) - 1
        BY <1>1, <1>5, <2>1, <2>5 DEF PositionFollows
      <3>2. n \in 0 .. Len(deltas) - 1 /\ n + 1 = Len(deltas)
        BY <1>3, <3>1
      <3>3. Client!apply(before.position, move) = PositionAfter(Len(deltas))
        BY <1>1, <3>1, <3>2, DeltaIsApplied
      <3> HIDE DEF move
      <3>4. PICK m : m = Len(deltas)
        OBVIOUS
      <3>5. shown'[s].position = PositionAfter(m)'
        BY <1>6, <2>3, <3>3, <3>4
      <3>6. m \in 0 .. Len(deltas') /\ m = Len(deltas')
        BY <1>2, <1>3, <3>4
      <3> QED
        BY <1>2, <2>1, <3>5, <3>6 DEF PositionFollows
    <2> QED
      BY <2>4, <2>5
  <1>8. CASE t = "server"
    <2>1. sending["server"] # {} /\ sending'["game"] = sending["game"]
      BY <1>1, <1>2, <1>8 DEF Types, Thread
    <2>2. CASE message["server"] = ServerGameConfig(BoardSize) /\ deltas = <<>>
      <3>1. shown'[s].position = Client!init(before.position, [game |-> 1])
        <4>1. message["server"].type = "config"
          BY <2>2 DEF ServerGameConfig
        <4>2. PICK e : e = message["server"]
          OBVIOUS
        <4>3. ShownAfter(before, e) = [before EXCEPT !.position = Client!init(@, [game |-> 1])]
          BY <4>1, <4>2 DEF ShownAfter
        <4>4. ShownAfter(before, e).position = Client!init(before.position, [game |-> 1])
          BY <1>5, <4>3
        <4>5. shown'[s] = ShownAfter(before, e)
          BY <1>4, <1>5, <1>8, <4>2
        <4> QED
          BY <4>4, <4>5
      <3>2. Len(deltas) = 0
        BY <2>2, EmptySeq
      <3>3. before.position \in {Client!reset, PositionAfter(0)}
        BY <1>1, <1>5, <3>2 DEF PositionFollows
      <3>4. shown'[s].position = PositionAfter(0)'
        BY <1>6, <3>1, <3>3, ConfigIsApplied
      <3>5. sending["game"] = {}
        BY <1>1, <2>2 DEF Broadcasts
      <3> QED
        BY <1>2, <2>1, <3>2, <3>4, <3>5 DEF PositionFollows
    <2>3. CASE chatHistory # <<>> /\ message["server"] = ChatEvent(Len(chatHistory))
      <3>1. shown'[s].position = shown[s].position
        <4>1. PICK e : e = message["server"]
          OBVIOUS
        <4>2. e.type = "chat"
          BY <2>3, <4>1 DEF ChatEvent, ServerChat
        <4>3. ShownAfter(before, e) = [before EXCEPT !.chat = Client!onChatMessage(@, e)]
          BY <4>2 DEF ShownAfter
        <4>4. ShownAfter(before, e).position = before.position
          BY <1>5, <4>3
        <4> QED
          BY <1>4, <1>5, <1>8, <4>1, <4>4
      <3> QED
        BY <1>1, <1>2, <2>1, <3>1, PositionStays
    <2> QED
      BY <1>1, <2>1, <2>2, <2>3 DEF Broadcasts
  <1> QED
    BY <1>7, <1>8 DEF Thread

\* A delta is on its way to every client that is connected.
LEMMA PositionDelivered ==
    ASSUME IInv, play, NEW d, Delivers(d), NEW s \in SessionId
    PROVE  PositionFollows(s)'
  <1>1. Types /\ Phases /\ Broadcasts /\ PositionFollows(s)
    BY DEF IInv, PositionsFollow
  <1>2. /\ gameThread = "running" /\ sending["game"] = {}
        /\ UNCHANGED <<shown, seats, open>>
    BY <1>1, PlayFacts DEF networkVars, sessionVars
  <1>3. /\ d \in Game!Delta /\ deltas' = Append(deltas, d)
        /\ IF listening THEN broadcast("game", DeltaEvent(d)) ELSE UNCHANGED <<sending, message>>
    BY DEF Delivers
  <1>4. /\ Len(deltas) \in Nat /\ Len(deltas') = Len(deltas) + 1
        /\ \A i \in 1 .. Len(deltas) : deltas'[i] = deltas[i]
    BY <1>1, <1>3, Pushed DEF Types
  <1>5. CASE shown[s].position = Client!reset
    BY <1>2, <1>5 DEF PositionFollows
  <1>6. ASSUME NEW n \in 0 .. Len(deltas), shown[s].position = PositionAfter(n), seats[s] # "None",
               s \in open => n = IF s \in sending["game"] THEN Len(deltas) - 1 ELSE Len(deltas)
        PROVE  PositionFollows(s)'
    <2>1. PositionAfter(n)' = PositionAfter(n)
      <3>1. n > 0 => n \in 1 .. Len(deltas)
        BY <1>4
      <3>2. \A i \in 1 .. n : deltas'[i] = deltas[i]
        BY <1>4
      <3>3. [i \in 1 .. n |-> MoveShown(deltas'[i])] = [i \in 1 .. n |-> MoveShown(deltas[i])]
        BY <3>2
      <3>4. n > 0 => deltas'[n] = deltas[n]
        BY <1>4, <3>1
      <3> QED
        BY <3>3, <3>4 DEF PositionAfter, MoveShown, DeltaEvent
    <2>2. n \in 0 .. Len(deltas')
      BY <1>4
    <2>3. s \in open => s \in sending'["game"]
      <3>1. s \in open => listening
        BY <1>1, <1>2, SignalledMeansListening
      <3>2. s \in Sessions
        BY <1>6 DEF Sessions
      <3> QED
        BY <1>1, <1>3, <3>1, <3>2 DEF broadcast, Types, Thread
    <2>4. s \in open => n = Len(deltas') - 1
      BY <1>2, <1>4, <1>6
    <2> QED
      BY <1>2, <1>6, <2>1, <2>2, <2>3, <2>4 DEF PositionFollows
  <1> QED
    BY <1>1, <1>5, <1>6 DEF PositionFollows

LEMMA PositionsFollowStep ==
    ASSUME IInv, [Next]_vars
    PROVE  PositionsFollow'
  <1> USE DEF vars, gameVars, handlerVars, ownerVars, networkVars, sessionVars, wireVars
  <1>1. /\ Types /\ Phases /\ Connections /\ Broadcasts /\ PositionsFollow
        /\ \A s \in SessionId : PositionFollows(s)
    BY DEF IInv, PositionsFollow
  <1>2. SUFFICES ASSUME NEW s \in SessionId
                 PROVE  PositionFollows(s)'
    BY DEF PositionsFollow
  <1>3. CASE UNCHANGED <<deltas, shown, seats, open, sending>>
    BY <1>1, <1>3, PositionStays
  <1>4. CASE start
    BY <1>3, <1>4 DEF start
  <1>5. CASE stop
    BY <1>3, <1>5 DEF stop, Game!pushEvent
  <1>6. CASE stopNetwork
    BY <1>1, <1>6, PositionStays DEF stopNetwork
  <1>7. CASE stopServer \/ joinServer \/ unsubscribeState \/ joinGame
    BY <1>3, <1>7 DEF stopServer, joinServer, unsubscribeState, joinGame
  <1>8. CASE clientConnects
    <2>1. open' = open \cup {nextSession} /\ UNCHANGED <<deltas, shown, seats, sending>>
      BY <1>8 DEF clientConnects, Queue
    <2>2. s = nextSession => seats[s] = "None"
      <3>1. nextSession \in Nat
        BY <1>1, GameServerAssumption DEF Types
      <3> QED
        BY <1>1, <3>1 DEF Connections
    <2> QED
      BY <1>1, <2>1, <2>2, PositionStays
  <1>9. ASSUME NEW r \in SessionId, clientLeaves(r)
        PROVE  PositionFollows(s)'
    <2>1. open' \subseteq open /\ UNCHANGED <<deltas, shown, seats, sending>>
      BY <1>9 DEF clientLeaves, Queue
    <2> QED
      BY <1>1, <2>1, PositionStays
  <1>10. ASSUME NEW r \in SessionId, NEW payload \in Payload, clientSends(r, payload)
         PROVE  PositionFollows(s)'
    BY <1>3, <1>10 DEF clientSends, Queue
  <1>11. CASE connect \/ connectStartsGame
    <2> DEFINE r == Head(serverQueue).session
    <2>1. /\ Pop("ClientConnected")
          /\ r \in SessionId /\ seats[r] = "None"
          /\ seats' = [seats EXCEPT ![r] = freeSeat]
          /\ shown' = shown /\ deltas' = deltas
          /\ \/ sending'["game"] = sending["game"]
             \/ sending["game"] # {} /\ sending'["game"] = sending["game"] \cup {r}
      BY <1>1, <1>11, NewSessionFacts
    <2>2. open' = open
      BY <1>1, <2>1, PopFacts
    <2>3. CASE s = r
      BY <1>1, <2>1, <2>2, <2>3, PositionStays
    <2>4. CASE s # r
      <3>1. seats'[s] = seats[s] /\ (s \in sending'["game"] <=> s \in sending["game"])
        BY <1>1, <2>1, <2>4 DEF Types
      <3> HIDE DEF r
      <3> QED
        BY <1>1, <2>1, <2>2, <3>1, PositionStays
    <2> QED
      BY <2>3, <2>4
  <1>12. CASE disconnect \/ dropMessage \/ shutdown
    BY <1>3, <1>12 DEF disconnect, dropMessage, shutdown, Pop
  <1>13. CASE handleMove \/ rejectMove \/ handleChat
    <2>1. PICK c : Calls(c)
      BY <1>13, MoveFacts, RejectFacts, ChatFacts
    <2>2. UNCHANGED <<shown, seats, open>>
      BY <2>1 DEF Calls, Pop
    <2>3. UNCHANGED deltas /\ sending'["game"] = sending["game"]
      <3>1. CASE handleMove \/ rejectMove
        BY <3>1, MoveFacts, RejectFacts
      <3>2. CASE handleChat
        BY <1>1, <3>2, ChatFacts DEF broadcast, Types, Thread
      <3> QED
        BY <1>13, <3>1, <3>2
    <2> QED
      BY <1>1, <2>2, <2>3, PositionStays
  <1>14. ASSUME NEW t \in Thread, NEW r \in SessionId, visit(t, r)
         PROVE  PositionFollows(s)'
    <2>1. /\ sending' = [sending EXCEPT ![t] = @ \ {r}]
          /\ shown' = IF r \in open THEN [shown EXCEPT ![r] = ShownAfter(@, message[t])] ELSE shown
          /\ UNCHANGED <<deltas, seats, open>>
      BY <1>14, VisitFacts
    <2>2. CASE s = r /\ r \in open
      BY <1>14, <2>2, PositionVisited
    <2>3. CASE ~ (s = r /\ r \in open)
      <3>1. shown'[s] = shown[s]
        BY <1>1, <2>1, <2>3 DEF Types
      <3>2. s \in open => (s \in sending'["game"] <=> s \in sending["game"])
        BY <1>1, <2>1, <2>3 DEF Types, Thread
      <3> QED
        BY <1>1, <2>1, <3>1, <3>2, PositionStays
    <2> QED
      BY <2>2, <2>3
  <1>15. CASE run
    BY <1>3, <1>15 DEF run, Game!run
  <1>16. CASE play
    <2>1. UNCHANGED <<shown, seats, open>> /\ (PlaysNothing \/ \E d : Delivers(d))
      BY <1>1, <1>16, PlayFacts
    <2>2. CASE PlaysNothing
      BY <1>3, <2>1, <2>2 DEF PlaysNothing
    <2>3. CASE \E d : Delivers(d)
      BY <1>16, <2>3, PositionDelivered
    <2> QED
      BY <2>1, <2>2, <2>3
  <1>17. CASE UNCHANGED vars
    BY <1>3, <1>17
  <1> QED
    BY <1>4, <1>5, <1>6, <1>7, <1>8, <1>9, <1>10, <1>11, <1>12, <1>13, <1>14, <1>15, <1>16, <1>17
    DEF Next, Stopping, Network, ServerThread, GameThread, stopHangs, Terminated, Thread

-----------------------------------------------------------------------------
(* What clients show of the chat.                                          *)

\* The chat of a client that got no message, while the history may grow.
LEMMA ChatStays ==
    ASSUME Types, NEW s \in SessionId, ChatFollows(s), shown'[s].chat = shown[s].chat,
           \/ chatHistory' = chatHistory
           \/ \E m \in [player : Player, message : Text] : chatHistory' = Append(chatHistory, m)
    PROVE  ChatFollows(s)'
  <1>1. CASE chatHistory' = chatHistory
    <2>1. \A i : ChatEvent(i)' = ChatEvent(i)
      BY <1>1 DEF ChatEvent
    <2>2. \A n, pending : ChatAfter(n, pending)' = ChatAfter(n, pending)
      BY <2>1 DEF ChatAfter
    <2> QED
      BY <1>1, <2>1, <2>2 DEF ChatFollows
  <1>2. ASSUME NEW m \in [player : Player, message : Text], chatHistory' = Append(chatHistory, m)
        PROVE  ChatFollows(s)'
    <2>1. /\ Len(chatHistory) \in Nat /\ Len(chatHistory') = Len(chatHistory) + 1
          /\ \A i \in 1 .. Len(chatHistory) :
                 chatHistory'[i] = chatHistory[i] /\ i \in 1 .. Len(chatHistory')
      BY <1>2, Pushed DEF Types
    <2>2. \A i \in 1 .. Len(chatHistory) : ChatEvent(i)' = ChatEvent(i)
      BY <2>1 DEF ChatEvent
    <2>3. PICK n \in 0 .. Len(chatHistory), pending \in SUBSET {ChatEvent(i) : i \in 1 .. Len(chatHistory)} :
              shown[s].chat = ChatAfter(n, pending)
      BY DEF ChatFollows
    <2>4. n \in 0 .. Len(chatHistory') /\ \A i \in 1 .. n : i \in 1 .. Len(chatHistory)
      BY <2>1
    <2>5. \A e \in pending : \E i \in 1 .. Len(chatHistory') : e = ChatEvent(i)'
      BY <2>1, <2>2
    <2>6. pending \in SUBSET {ChatEvent(i)' : i \in 1 .. Len(chatHistory')}
      BY <2>5
    <2>7. ChatAfter(n, pending)' = ChatAfter(n, pending)
      <3>1. [i \in 1 .. n |-> ChatEvent(i)'] = [i \in 1 .. n |-> ChatEvent(i)]
        BY <2>2, <2>4
      <3> QED
        BY <3>1 DEF ChatAfter
    <2> QED
      BY <2>3, <2>4, <2>6, <2>7 DEF ChatFollows
  <1> QED
    BY <1>1, <1>2

\* The client of a session that is visited.
LEMMA ChatVisited ==
    ASSUME IInv, NEW t \in Thread, NEW s \in SessionId, visit(t, s), s \in open
    PROVE  ChatFollows(s)'
  <1>1. Types /\ Broadcasts /\ ChatFollows(s) /\ CausesInOrder /\ Counted
    BY DEF IInv, ChatsFollow
  <1>2. /\ s \in sending[t]
        /\ shown' = [shown EXCEPT ![s] = ShownAfter(@, message[t])]
        /\ chatHistory' = chatHistory
    BY VisitFacts DEF handlerVars
  <1>3. \E before : shown[s] = before /\ before = [position |-> before.position, chat |-> before.chat]
    BY <1>1 DEF Types
  <1>4. PICK before : /\ shown[s] = before
                      /\ before = [position |-> before.position, chat |-> before.chat]
    BY <1>3
  <1>5. PICK e : e = message[t]
    OBVIOUS
  <1>6. shown'[s] = ShownAfter(before, e)
    BY <1>1, <1>2, <1>4, <1>5 DEF Types
  <1>7. CASE e.type \in {"config", "delta"}
    <2>1. ShownAfter(before, e).chat = before.chat
      <3>1. CASE e.type = "config"
        <4>1. ShownAfter(before, e) = [before EXCEPT !.position = Client!init(@, [game |-> 1])]
          BY <3>1 DEF ShownAfter
        <4> QED
          BY <1>4, <4>1
      <3>2. CASE e.type = "delta"
        <4>1. ShownAfter(before, e) =
                  [before EXCEPT !.position = Client!apply(@,
                      [turn |-> e.turn, gameActive |-> e.status = "Active", event |-> e])]
          BY <3>2 DEF ShownAfter
        <4> QED
          BY <1>4, <4>1
      <3> QED
        BY <1>7, <3>1, <3>2
    <2> QED
      BY <1>1, <1>2, <1>4, <1>6, <2>1, ChatStays
  <1>8. CASE chatHistory # <<>> /\ e = ChatEvent(Len(chatHistory))
    <2>1. Len(chatHistory) \in 1 .. Len(chatHistory) /\ Len(chatHistory) <= MaxReceived
      <3>1. Len(chatHistory) \in Nat /\ Len(chatHistory) # 0 /\ Len(chatHistory) <= MaxReceived
        BY <1>1, <1>8, Counts, EmptySeq DEF Types
      <3> QED
        BY <3>1
    <2>2. e \in ChatEvents /\ e.type = "chat"
      BY <1>8, <2>1 DEF ChatEvents, ChatEvent, ServerChat
    <2>3. PICK n \in 0 .. Len(chatHistory), pending \in SUBSET ChatEvents :
              before.chat = ChatAfter(n, pending)
      BY <1>1, <1>4 DEF ChatFollows, ChatEvents
    <2>4. ShownAfter(before, e) = [before EXCEPT !.chat = Client!onChatMessage(@, e)]
      BY <2>2 DEF ShownAfter
    <2>5. shown'[s].chat = Client!onChatMessage(before.chat, e)
      BY <1>4, <1>6, <2>4
    <2>6. \E m \in 0 .. Len(chatHistory), rest \in SUBSET ChatEvents :
              Client!onChatMessage(ChatAfter(n, pending), e) = ChatAfter(m, rest)
      BY <1>1, <2>1, <2>2, ChatMessageFollows
    <2>7. PICK m \in 0 .. Len(chatHistory), rest \in SUBSET ChatEvents :
              shown'[s].chat = ChatAfter(m, rest)
      BY <2>3, <2>5, <2>6
    <2>8. \A i : ChatEvent(i)' = ChatEvent(i)
      BY <1>2 DEF ChatEvent
    <2>9. ChatAfter(m, rest)' = ChatAfter(m, rest)
      BY <2>8 DEF ChatAfter
    <2> QED
      BY <1>2, <2>7, <2>8, <2>9 DEF ChatFollows, ChatEvents
  <1>9. CASE t = "game"
    <2>1. e.type = "delta"
      BY <1>1, <1>2, <1>5, <1>9 DEF Broadcasts, DeltaEvent
    <2> QED
      BY <1>7, <2>1
  <1>10. CASE t = "server"
    <2>1. \/ e = ServerGameConfig(BoardSize)
          \/ chatHistory # <<>> /\ e = ChatEvent(Len(chatHistory))
      BY <1>1, <1>2, <1>5, <1>10 DEF Broadcasts
    <2>2. e = ServerGameConfig(BoardSize) => e.type = "config"
      BY DEF ServerGameConfig
    <2> QED
      BY <1>7, <1>8, <2>1, <2>2
  <1> QED
    BY <1>9, <1>10 DEF Thread

LEMMA ChatsFollowStep ==
    ASSUME IInv, [Next]_vars
    PROVE  ChatsFollow'
  <1> USE DEF vars, gameVars, handlerVars, ownerVars, networkVars, sessionVars, wireVars
  <1>1. Types /\ Connections /\ \A s \in SessionId : ChatFollows(s)
    BY DEF IInv, ChatsFollow
  <1>2. SUFFICES ASSUME NEW s \in SessionId
                 PROVE  ChatFollows(s)'
    BY DEF ChatsFollow
  <1>3. CASE UNCHANGED <<shown, chatHistory>>
    BY <1>1, <1>3, ChatStays
  <1>4. CASE start \/ Stopping \/ Network
    BY <1>3, <1>4 DEF start, Stopping, stopServer, stopNetwork, joinServer, unsubscribeState,
                      joinGame, Network, clientConnects, clientLeaves, clientSends, Queue
  <1>5. CASE stop
    BY <1>3, <1>5 DEF stop
  <1>6. CASE connect \/ connectStartsGame
    BY <1>1, <1>3, <1>6, NewSessionFacts
  <1>7. CASE disconnect \/ dropMessage \/ shutdown
    BY <1>3, <1>7 DEF disconnect, dropMessage, shutdown
  <1>8. CASE handleMove \/ rejectMove
    <2>1. PICK c : Calls(c)
      BY <1>8, MoveFacts, RejectFacts
    <2>2. chatHistory' = chatHistory
      BY <1>8, MoveFacts, RejectFacts
    <2> QED
      BY <1>3, <2>1, <2>2 DEF Calls
  <1>9. CASE handleChat
    <2>1. PICK c : /\ Calls(c) /\ c.type = "chat"
                   /\ chatHistory' = Append(chatHistory, [player |-> PlayerOf(Sender),
                                                          message |-> c.message])
      BY <1>9, ChatFacts
    <2>2. PICK e : e = Head(serverQueue)
      OBVIOUS
    <2>3. e \in QueueEvent /\ e.type = "ClientMessage" /\ c \in Intents(e) /\ shown' = shown
      BY <1>1, <2>1, <2>2, PopFacts DEF Calls
    <2>4. [player |-> PlayerOf(Sender), message |-> c.message] \in [player : Player, message : Text]
      BY <1>1, <2>1, <2>2, <2>3, IntentFacts DEF Sender
    <2> QED
      BY <1>1, <2>1, <2>3, <2>4, ChatStays
  <1>10. ASSUME NEW t \in Thread, NEW r \in SessionId, visit(t, r)
         PROVE  ChatFollows(s)'
    <2>1. /\ shown' = IF r \in open THEN [shown EXCEPT ![r] = ShownAfter(@, message[t])] ELSE shown
          /\ chatHistory' = chatHistory
      BY <1>10, VisitFacts
    <2>2. CASE s = r /\ r \in open
      BY <1>10, <2>2, ChatVisited
    <2>3. CASE ~ (s = r /\ r \in open)
      <3>1. shown'[s] = shown[s]
        BY <1>1, <2>1, <2>3 DEF Types
      <3> QED
        BY <1>1, <2>1, <3>1, ChatStays
    <2> QED
      BY <2>2, <2>3
  <1>11. CASE run \/ play
    BY <1>3, <1>11 DEF run, play
  <1>12. CASE UNCHANGED vars
    BY <1>3, <1>12
  <1> QED
    BY <1>4, <1>5, <1>6, <1>7, <1>8, <1>9, <1>10, <1>11, <1>12
    DEF Next, ServerThread, GameThread, stopHangs, Terminated, Thread

-----------------------------------------------------------------------------
(* Messages are counted.                                                   *)

\* Another event is queued: its message, if it is one, is the last one.
LEMMA CountedQueued ==
    ASSUME Types, Counted, NEW e \in QueueEvent, serverQueue' = Append(serverQueue, e),
           UNCHANGED <<chatHistory, handled>>,
           IF e.type = "ClientMessage" THEN sent' = sent + 1 ELSE sent' = sent
    PROVE  Counted'
  <1> DEFINE L == Len(serverQueue)
             H == Len(handled)
  <1>1. /\ L \in Nat /\ Len(serverQueue') = L + 1
        /\ \A i \in 1 .. L : serverQueue'[i] = serverQueue[i]
        /\ serverQueue'[L + 1] = e
        /\ \A i \in 1 .. L + 1 : i \in 1 .. L \/ i = L + 1
    BY Pushed DEF Types
  <1>2. H \in Nat /\ sent \in Nat /\ Len(chatHistory) \in Nat
    BY LenProperties, GameServerAssumption DEF Types
  <1>3. /\ Len(chatHistory) <= H /\ H <= sent
        /\ \E number \in [Waiting -> H + 1 .. sent] :
               \A i, j \in Waiting : i < j => number[i] < number[j]
    BY DEF Counted
  <1>4. PICK number \in [Waiting -> H + 1 .. sent] :
            \A i, j \in Waiting : i < j => number[i] < number[j]
    BY <1>3
  <1>5. Waiting \subseteq 1 .. L
    BY DEF Waiting
  <1>6. \A i \in Waiting' : i \in Waiting \/ (i = L + 1 /\ e.type = "ClientMessage")
    <2> SUFFICES ASSUME NEW i \in Waiting'
                 PROVE  i \in Waiting \/ (i = L + 1 /\ e.type = "ClientMessage")
      OBVIOUS
    <2>1. i \in 1 .. L + 1 /\ serverQueue'[i].type = "ClientMessage"
      BY <1>1 DEF Waiting
    <2>2. CASE i \in 1 .. L
      BY <1>1, <2>1, <2>2 DEF Waiting
    <2>3. CASE i = L + 1
      BY <1>1, <2>1, <2>3
    <2> QED
      BY <1>1, <2>1, <2>2, <2>3
  <1> HIDE DEF L, H
  <1>7. sent' \in Nat /\ sent <= sent' /\ (e.type = "ClientMessage" => sent' = sent + 1)
    BY <1>2
  <1>8. PICK after : after = [i \in Waiting' |-> IF i \in Waiting THEN number[i] ELSE sent']
    OBVIOUS
  <1>9. \A i \in Waiting : number[i] \in H + 1 .. sent /\ number[i] \in Nat /\ number[i] <= sent
    BY <1>2, <1>4
  <1>10. ASSUME NEW i \in Waiting'
         PROVE  after[i] \in H + 1 .. sent'
    <2>1. CASE i \in Waiting
      <3>1. after[i] = number[i]
        BY <1>8, <2>1
      <3> QED
        BY <1>2, <1>7, <1>9, <2>1, <3>1
    <2>2. CASE i \notin Waiting
      <3>1. after[i] = sent' /\ sent' = sent + 1
        BY <1>6, <1>7, <1>8, <2>2
      <3> QED
        BY <1>2, <1>3, <3>1
    <2> QED
      BY <2>1, <2>2
  <1>11. ASSUME NEW i \in Waiting', NEW j \in Waiting', i < j
         PROVE  after[i] < after[j]
    <2>1. i \in Waiting
      <3>1. CASE i = L + 1
        <4>1. j \in 1 .. L \/ j = L + 1
          BY <1>5, <1>6
        <4> QED
          BY <1>1, <1>11, <3>1, <4>1
      <3> QED
        BY <1>6, <3>1
    <2>2. CASE j \in Waiting
      BY <1>4, <1>8, <1>11, <2>1, <2>2
    <2>3. CASE j \notin Waiting
      <3>1. after[i] = number[i] /\ after[j] = sent' /\ sent' = sent + 1
        BY <1>6, <1>7, <1>8, <2>1, <2>3
      <3> QED
        BY <1>2, <1>9, <2>1, <3>1
    <2> QED
      BY <2>2, <2>3
  <1>12. after \in [Waiting' -> H + 1 .. sent']
    BY <1>8, <1>10
  <1>13. Len(chatHistory) <= H /\ H <= sent'
    BY <1>2, <1>3, <1>7
  <1>14. Len(handled') = H /\ Len(chatHistory') = Len(chatHistory)
    BY DEF H
  <1> QED
    BY <1>11, <1>12, <1>13, <1>14 DEF Counted

\* The messages that wait when an event was taken.
LEMMA WaitingTaken ==
    ASSUME Types, NEW type, Pop(type)
    PROVE  /\ type = "ClientMessage" => 1 \in Waiting
           /\ \A i \in Waiting' : i \in Nat /\ i + 1 \in Waiting /\ 1 < i + 1
  <1>1. /\ Len(serverQueue) \in Nat /\ 1 \in 1 .. Len(serverQueue)
        /\ serverQueue[1].type = type
        /\ Len(serverQueue') = Len(serverQueue) - 1
        /\ \A i \in 1 .. Len(serverQueue) - 1 :
               /\ serverQueue'[i] = serverQueue[i + 1]
               /\ i + 1 \in 1 .. Len(serverQueue) /\ 1 < i + 1
    BY PopFacts
  <1>2. ASSUME NEW i \in Waiting'
        PROVE  i \in Nat /\ i + 1 \in Waiting /\ 1 < i + 1
    <2>1. i \in 1 .. Len(serverQueue) - 1 /\ serverQueue'[i].type = "ClientMessage"
      BY <1>1, <1>2 DEF Waiting
    <2> QED
      BY <1>1, <2>1 DEF Waiting
  <1> QED
    BY <1>1, <1>2 DEF Waiting

\* The event that is taken: if it is the message of a call, those behind it
\* were sent later.
LEMMA CountedTaken ==
    ASSUME Types, Counted, NEW type, Pop(type), NEW n \in {0, 1}, n = 1 => type = "ClientMessage",
           Len(handled') = Len(handled) + n,
           Len(chatHistory') \in {Len(chatHistory), Len(chatHistory) + n}
    PROVE  Counted'
  <1> DEFINE H == Len(handled)
  <1>1. H \in Nat /\ sent \in Nat /\ Len(chatHistory) \in Nat
    BY LenProperties, GameServerAssumption DEF Types
  <1>2. /\ Len(chatHistory) <= H /\ H <= sent
        /\ \E number \in [Waiting -> H + 1 .. sent] :
               \A i, j \in Waiting : i < j => number[i] < number[j]
    BY DEF Counted
  <1>3. PICK number \in [Waiting -> H + 1 .. sent] :
            \A i, j \in Waiting : i < j => number[i] < number[j]
    BY <1>2
  <1>4. /\ type = "ClientMessage" => 1 \in Waiting
        /\ \A i \in Waiting' : i \in Nat /\ i + 1 \in Waiting /\ 1 < i + 1
    BY WaitingTaken
  <1>5. sent' = sent
    BY PopFacts
  <1> HIDE DEF H
  <1>6. \A i \in Waiting : number[i] \in Nat /\ H + 1 <= number[i] /\ number[i] <= sent
    BY <1>1, <1>3
  <1>7. PICK after : after = [i \in Waiting' |-> number[i + 1]]
    OBVIOUS
  <1>8. ASSUME NEW i \in Waiting'
        PROVE  after[i] \in H + n + 1 .. sent
    <2>1. after[i] = number[i + 1]
      BY <1>7
    <2>2. number[i + 1] \in Nat /\ H + 1 <= number[i + 1] /\ number[i + 1] <= sent
      BY <1>4, <1>6
    <2>3. n = 1 => H + 1 < number[i + 1]
      <3>1. n = 1 => 1 \in Waiting /\ number[1] < number[i + 1]
        BY <1>3, <1>4
      <3> QED
        BY <1>1, <1>6, <2>2, <3>1
    <2>4. PICK k : k = number[i + 1]
      OBVIOUS
    <2>5. k \in Nat /\ H + 1 <= k /\ k <= sent /\ (n = 1 => H + 1 < k)
      BY <2>2, <2>3, <2>4
    <2>6. k \in H + n + 1 .. sent
      BY <1>1, <2>5
    <2> QED
      BY <2>1, <2>4, <2>6
  <1>9. ASSUME NEW i \in Waiting', NEW j \in Waiting', i < j
        PROVE  after[i] < after[j]
    <2>1. i + 1 \in Waiting /\ j + 1 \in Waiting /\ i + 1 < j + 1
      BY <1>4, <1>9
    <2> QED
      BY <1>3, <1>7, <2>1
  <1>10. after \in [Waiting' -> H + n + 1 .. sent]
    BY <1>7, <1>8
  <1>11. H + n <= sent
    <2>1. CASE n = 0
      BY <1>1, <1>2, <2>1
    <2>2. CASE n = 1
      <3>1. number[1] \in Nat /\ H + 1 <= number[1] /\ number[1] <= sent
        BY <1>4, <1>6, <2>2
      <3> QED
        BY <1>1, <2>2, <3>1
    <2> QED
      BY <2>1, <2>2
  <1>12. Len(chatHistory') <= H + n
    BY <1>1, <1>2
  <1>13. Len(handled') = H + n
    BY DEF H
  <1> QED
    BY <1>5, <1>9, <1>10, <1>11, <1>12, <1>13 DEF Counted

\* A call of the handler, and whether it is of a chat message.
LEMMA CountedCall ==
    ASSUME Types, Counted, NEW c, Calls(c),
           \/ chatHistory' = chatHistory
           \/ \E m \in [player : Player, message : Text] : chatHistory' = Append(chatHistory, m)
    PROVE  Counted'
  <1>1. Pop("ClientMessage") /\ Len(handled') = Len(handled) + 1
    <2>1. PICK e : e = Head(serverQueue)
      OBVIOUS
    <2>2. e \in QueueEvent /\ e.type = "ClientMessage" /\ c \in Intents(e)
      BY <2>1, PopFacts DEF Calls
    <2>3. [session |-> e.session, event |-> c] \in Call
      BY <2>2, IntentFacts
    <2>4. PICK call : call = [session |-> e.session, event |-> c]
      OBVIOUS
    <2>5. handled' = Append(handled, call) /\ call \in Call
      BY <2>1, <2>3, <2>4 DEF Calls
    <2>6. Len(handled') = Len(handled) + 1
      BY <2>5, Pushed DEF Types
    <2> QED
      BY <2>6 DEF Calls
  <1>2. Len(chatHistory') \in {Len(chatHistory), Len(chatHistory) + 1}
    <2>1. ASSUME NEW m \in [player : Player, message : Text], chatHistory' = Append(chatHistory, m)
          PROVE  Len(chatHistory') = Len(chatHistory) + 1
      BY <2>1, Pushed DEF Types
    <2> QED
      BY <2>1
  <1>3. 1 \in {0, 1}
    OBVIOUS
  <1> QED
    BY <1>1, <1>2, <1>3, CountedTaken

LEMMA CountedStep ==
    ASSUME IInv, [Next]_vars
    PROVE  Counted'
  <1> USE DEF vars, gameVars, handlerVars, ownerVars, networkVars, sessionVars, wireVars
  <1>1. Types /\ Connections /\ Counted
    BY DEF IInv
  <1>2. CASE UNCHANGED <<serverQueue, chatHistory, handled, sent>>
    BY <1>1, <1>2 DEF Counted, Waiting
  <1>3. ASSUME NEW e \in QueueEvent, e.type # "ClientMessage",
               serverQueue' = Append(serverQueue, e), UNCHANGED <<chatHistory, handled, sent>>
        PROVE  Counted'
    BY <1>1, <1>3, CountedQueued
  <1>4. CASE start \/ stopNetwork \/ joinServer \/ unsubscribeState \/ joinGame
    BY <1>2, <1>4 DEF start, stopNetwork, joinServer, unsubscribeState, joinGame
  <1>5. CASE stop
    BY <1>2, <1>5 DEF stop
  <1>6. CASE stopServer
    <2>1. [type |-> "Shutdown"] \in QueueEvent
      BY DEF QueueEvent
    <2>2. CASE isRunning
      <3>1. PICK e : e = [type |-> "Shutdown"]
        OBVIOUS
      <3> QED
        BY <1>3, <1>6, <2>1, <2>2, <3>1 DEF stopServer
    <2> QED
      BY <1>2, <1>6, <2>2 DEF stopServer
  <1>7. CASE clientConnects
    <2>1. PICK e : e = [type |-> "ClientConnected", session |-> nextSession]
      OBVIOUS
    <2>2. nextSession \in SessionId
      BY <1>1, <1>7, GameServerAssumption DEF clientConnects, Types, SessionId
    <2>3. e \in QueueEvent /\ e.type = "ClientConnected"
      BY <2>1, <2>2 DEF QueueEvent
    <2> QED
      BY <1>3, <1>7, <2>1, <2>3 DEF clientConnects, Queue
  <1>8. ASSUME NEW s \in SessionId, clientLeaves(s)
        PROVE  Counted'
    <2>1. PICK e : e = [type |-> "ClientDisconnected", session |-> s]
      OBVIOUS
    <2>2. e \in QueueEvent /\ e.type = "ClientDisconnected"
      BY <2>1 DEF QueueEvent
    <2> QED
      BY <1>3, <1>8, <2>1, <2>2 DEF clientLeaves, Queue
  <1>9. ASSUME NEW s \in SessionId, NEW payload \in Payload, clientSends(s, payload)
        PROVE  Counted'
    <2>1. PICK e : e = [type |-> "ClientMessage", session |-> s, payload |-> payload]
      OBVIOUS
    <2>2. e \in QueueEvent /\ e.type = "ClientMessage"
      BY <2>1 DEF QueueEvent
    <2> QED
      BY <1>1, <1>9, <2>1, <2>2, CountedQueued DEF clientSends, Queue
  <1>10. ASSUME NEW type, Pop(type), UNCHANGED <<handled, chatHistory>>
         PROVE  Counted'
    <2>1. PICK n \in {0, 1} : n = 0
      OBVIOUS
    <2>2. Len(handled') = Len(handled) + n
      <3>1. Len(handled) \in Nat
        BY <1>1, LenProperties DEF Types
      <3> QED
        BY <1>10, <2>1, <3>1
    <2>3. (n = 1 => type = "ClientMessage") /\ Len(chatHistory') \in {Len(chatHistory), Len(chatHistory) + n}
      BY <1>10, <2>1
    <2> QED
      BY <1>1, <1>10, <2>2, <2>3, CountedTaken
  <1>11. CASE connect \/ connectStartsGame
    <2>1. Pop("ClientConnected") /\ UNCHANGED <<chatHistory, handled>>
      BY <1>1, <1>11, NewSessionFacts
    <2> QED
      BY <1>10, <2>1
  <1>12. CASE disconnect \/ dropMessage \/ shutdown
    <2>1. (\E type : Pop(type)) /\ UNCHANGED <<chatHistory, handled>>
      BY <1>12 DEF disconnect, dropMessage, shutdown
    <2> QED
      BY <1>10, <2>1
  <1>13. CASE handleMove \/ rejectMove
    BY <1>1, <1>13, MoveFacts, RejectFacts, CountedCall
  <1>14. CASE handleChat
    <2>1. PICK c : /\ Calls(c) /\ c.type = "chat"
                   /\ chatHistory' = Append(chatHistory, [player |-> PlayerOf(Sender),
                                                          message |-> c.message])
      BY <1>14, ChatFacts
    <2>2. PICK e : e = Head(serverQueue)
      OBVIOUS
    <2>3. e \in QueueEvent /\ e.type = "ClientMessage" /\ c \in Intents(e)
      BY <1>1, <2>1, <2>2, PopFacts DEF Calls
    <2>4. [player |-> PlayerOf(Sender), message |-> c.message] \in [player : Player, message : Text]
      BY <1>1, <2>1, <2>2, <2>3, IntentFacts DEF Sender
    <2> QED
      BY <1>1, <2>1, <2>4, CountedCall
  <1>15. ASSUME NEW t \in Thread, NEW s \in SessionId, visit(t, s)
         PROVE  Counted'
    BY <1>2, <1>15 DEF visit
  <1>16. CASE run \/ play
    BY <1>2, <1>16 DEF run, play
  <1>17. CASE UNCHANGED vars
    BY <1>2, <1>17
  <1> QED
    BY <1>4, <1>5, <1>6, <1>7, <1>8, <1>9, <1>10, <1>11, <1>12, <1>13, <1>14, <1>15, <1>16, <1>17
    DEF Next, Stopping, Network, ServerThread, GameThread, stopHangs, Terminated, Thread

-----------------------------------------------------------------------------
(* The calls behind the moves.                                             *)

\* The seat of a session with a seat stays.
SeatsStay == \A s \in SessionId : seats[s] # "None" => seats'[s] = seats[s]

\* What was handled stays.
HandledStays ==
    /\ Len(handled') \in Nat /\ Len(handled) <= Len(handled')
    /\ \A k \in 1 .. Len(handled) : handled'[k] = handled[k]

LEMMA CauseStays ==
    ASSUME Types, SeatsStay, NEW call \in Call
    PROVE  /\ \A d \in Game!Delta : LedTo(call, d) => LedTo(call, d)'
           /\ \A event \in Game!Event :
                  event.type # "Shutdown" /\ Asks(call, event) => Asks(call, event)'
  <1>1. call.session \in SessionId
    BY DEF Call
  <1>2. \A player \in Player : seats[call.session] = player => seats'[call.session] = player
    BY <1>1 DEF SeatsStay, Player
  <1>3. ASSUME NEW d \in Game!Delta, LedTo(call, d)
        PROVE  LedTo(call, d)'
    <2>1. d.player \in Player /\ d.action \in {"Place", "Pass", "Resign"}
      BY DEF Game!Delta, Game!Player, Player
    <2> QED
      BY <1>2, <1>3, <2>1 DEF LedTo
  <1>4. ASSUME NEW event \in Game!Event, event.type # "Shutdown", Asks(call, event)
        PROVE  Asks(call, event)'
    <2>1. CASE event.type \in {"Put", "Pass"}
      <3>1. event.player \in Player
        BY <2>1 DEF Game!Event, Game!MoveEvent, Game!Player, Player
      <3> QED
        BY <1>2, <1>4, <2>1, <3>1 DEF Asks
    <2>2. CASE event.type \notin {"Put", "Pass"}
      <3>1. CASE event.type = "Resign"
        BY <1>4, <3>1 DEF Asks
      <3>2. event.type \in {"Put", "Pass", "Resign", "Shutdown"}
        BY DEF Game!Event, Game!MoveEvent
      <3> QED
        BY <1>4, <2>2, <3>1, <3>2
    <2> QED
      BY <2>1, <2>2
  <1> QED
    BY <1>3, <1>4

\* What the witnesses have in the next state.
LEMMA WitnessesStay ==
    ASSUME Types, SeatsStay, HandledStays, NEW k \in 1 .. Len(handled)
    PROVE  /\ k \in 1 .. Len(handled') /\ k \in Nat
           /\ \A d \in Game!Delta : LedTo(handled[k], d) => LedTo(handled[k], d)'
           /\ \A event \in Game!Event :
                  event.type # "Shutdown" /\ Asks(handled[k], event) => Asks(handled[k], event)'
  <1>1. Len(handled) \in Nat
    BY LenProperties DEF Types
  <1>2. k \in 1 .. Len(handled') /\ k \in Nat
    BY <1>1 DEF HandledStays
  <1>3. PICK call \in Call : call = handled[k]
    BY ElementOfSeq DEF Types
  <1>4. handled'[k] = call
    BY <1>3 DEF HandledStays
  <1>5. /\ \A d \in Game!Delta : LedTo(call, d) => LedTo(call, d)'
        /\ \A event \in Game!Event :
                  event.type # "Shutdown" /\ Asks(call, event) => Asks(call, event)'
    BY CauseStays
  <1> QED
    BY <1>2, <1>3, <1>4, <1>5 DEF LedTo, Asks

\* Nothing was added but calls, and perhaps moves were taken away: the moves
\* of the game keep their causes.
LEMMA CausesStay ==
    ASSUME Types, Types', CausesInOrder, SeatsStay, HandledStays, deltas' = deltas,
           \/ \A i \in Moves' : i \in Moves /\ eventQueue'[i] = eventQueue[i]
           \/ Takes
    PROVE  CausesInOrder'
  <1>1. PICK cause \in [1 .. Len(deltas) -> 1 .. Len(handled)], origin \in [Moves -> 1 .. Len(handled)] :
            Causes(cause, origin)
    BY DEF CausesInOrder
  <1>2. /\ \A i \in 1 .. Len(deltas) : LedTo(handled[cause[i]], deltas[i]) /\ i <= cause[i]
        /\ \A i, j \in 1 .. Len(deltas) : i < j => cause[i] < cause[j]
        /\ \A i \in Moves : Asks(handled[origin[i]], eventQueue[i])
        /\ \A i, j \in Moves : i < j => origin[i] < origin[j]
        /\ \A i \in 1 .. Len(deltas), j \in Moves : cause[i] < origin[j]
    BY <1>1 DEF Causes
  <1>3. \E shift \in [Moves' -> Moves] :
            /\ \A i \in Moves' : eventQueue'[i] = eventQueue[shift[i]]
            /\ \A i, j \in Moves' : i < j => shift[i] < shift[j]
    <2>1. CASE \A i \in Moves' : i \in Moves /\ eventQueue'[i] = eventQueue[i]
      <3>1. PICK shift : shift = [i \in Moves' |-> i]
        OBVIOUS
      <3> QED
        BY <2>1, <3>1
    <2>2. CASE Takes
      <3>1. PICK shift : shift = [i \in Moves' |-> i + 1]
        OBVIOUS
      <3>2. \A i \in Moves' : i \in Nat /\ i + 1 \in Moves /\ eventQueue'[i] = eventQueue[i + 1]
        BY <2>2, MovesTaken
      <3>3. shift \in [Moves' -> Moves] /\ \A i \in Moves' : eventQueue'[i] = eventQueue[shift[i]]
        BY <3>1, <3>2
      <3>4. ASSUME NEW i \in Moves', NEW j \in Moves', i < j
            PROVE  shift[i] < shift[j]
        <4>1. i + 1 < j + 1
          BY <3>2, <3>4
        <4> QED
          BY <3>1, <4>1
      <3> QED
        BY <3>3, <3>4
    <2> QED
      BY <2>1, <2>2
  <1>4. PICK shift \in [Moves' -> Moves] :
            /\ \A i \in Moves' : eventQueue'[i] = eventQueue[shift[i]]
            /\ \A i, j \in Moves' : i < j => shift[i] < shift[j]
    BY <1>3
  <1>5. PICK later : later = [i \in Moves' |-> origin[shift[i]]]
    OBVIOUS
  <1>6. \A i \in 1 .. Len(deltas) : LedTo(handled[cause[i]], deltas[i])'
    <2> SUFFICES ASSUME NEW i \in 1 .. Len(deltas)
                 PROVE  LedTo(handled[cause[i]], deltas[i])'
      OBVIOUS
    <2>1. deltas[i] \in Game!Delta
      BY ElementOfSeq DEF Types
    <2>2. PICK k \in 1 .. Len(handled) : k = cause[i]
      BY <1>1
    <2>3. PICK d \in Game!Delta : d = deltas[i] /\ d = deltas'[i]
      BY <2>1
    <2>4. LedTo(handled[k], d)'
      BY <1>2, <2>2, <2>3, WitnessesStay
    <2> QED
      BY <2>2, <2>3, <2>4 DEF LedTo
  <1>7. \A i \in Moves' : Asks(handled[later[i]], eventQueue[i])'
    <2> SUFFICES ASSUME NEW i \in Moves'
                 PROVE  Asks(handled[later[i]], eventQueue[i])'
      OBVIOUS
    <2>1. PICK j \in Moves : j = shift[i]
      BY <1>4
    <2>2. PICK k \in 1 .. Len(handled) : k = origin[j] /\ k = later[i]
      BY <1>1, <1>5, <2>1
    <2>3. eventQueue[j] \in Game!Event /\ eventQueue[j].type # "Shutdown"
      BY <2>1, ElementOfSeq DEF Types, Moves
    <2>4. PICK event \in Game!Event : event = eventQueue[j] /\ event = eventQueue'[i]
      BY <1>4, <2>1, <2>3
    <2>5. Asks(handled[k], event)'
      BY <1>2, <2>1, <2>2, <2>3, <2>4, WitnessesStay
    <2> QED
      BY <2>2, <2>4, <2>5 DEF Asks
  <1>8. Len(handled) \in Nat /\ Len(handled') \in Nat /\ Len(handled) <= Len(handled')
    BY LenProperties DEF Types, HandledStays
  <1>9. /\ cause \in [1 .. Len(deltas') -> 1 .. Len(handled')]
        /\ later \in [Moves' -> 1 .. Len(handled')]
    <2>1. 1 .. Len(handled) \subseteq 1 .. Len(handled')
      BY <1>8
    <2> QED
      BY <1>1, <1>4, <1>5, <2>1
  <1>10. /\ \A i, j \in Moves' : i < j => later[i] < later[j]
         /\ \A i \in 1 .. Len(deltas), j \in Moves' : cause[i] < later[j]
    BY <1>2, <1>4, <1>5
  <1>11. Causes(cause, later)'
    BY <1>2, <1>6, <1>7, <1>10 DEF Causes
  <1> QED
    BY <1>9, <1>11 DEF CausesInOrder

\* A move becomes a delta: the call that asked for it led to the delta.
LEMMA CausesDelivered ==
    ASSUME Types, Types', CausesInOrder, NEW d, Delivers(d), UNCHANGED <<seats, handled>>
    PROVE  CausesInOrder'
  <1> DEFINE L == Len(deltas)
             H == Len(handled)
  <1>1. PICK cause \in [1 .. L -> 1 .. H], origin \in [Moves -> 1 .. H] : Causes(cause, origin)
    BY DEF CausesInOrder
  <1>2. /\ \A i \in 1 .. L : LedTo(handled[cause[i]], deltas[i]) /\ i <= cause[i]
        /\ \A i, j \in 1 .. L : i < j => cause[i] < cause[j]
        /\ \A i \in Moves : Asks(handled[origin[i]], eventQueue[i])
        /\ \A i, j \in Moves : i < j => origin[i] < origin[j]
        /\ \A i \in 1 .. L, j \in Moves : cause[i] < origin[j]
    BY <1>1 DEF Causes
  <1>3. /\ Takes /\ d \in Game!Delta /\ Answers(d, Head(eventQueue))
        /\ deltas' = Append(deltas, d)
    BY DEF Delivers
  <1>4. /\ L \in Nat /\ Len(deltas') = L + 1 /\ deltas'[L + 1] = d
        /\ \A i \in 1 .. L : deltas'[i] = deltas[i]
        /\ \A i \in 1 .. L + 1 : i \in 1 .. L \/ i = L + 1
    BY <1>3, Pushed DEF Types
  <1>5. H \in Nat /\ H' = H
    BY LenProperties DEF Types
  <1>6. /\ Head(eventQueue) = eventQueue[1] /\ 1 \in 1 .. Len(eventQueue)
        /\ Head(eventQueue).type # "Shutdown" => 1 \in Moves
        /\ \A i \in Moves' : /\ i \in Nat /\ 1 < i + 1 /\ i + 1 \in Moves
                             /\ eventQueue'[i] = eventQueue[i + 1]
    BY <1>3, MovesTaken
  <1>7. d.action \in {"Place", "Pass", "Resign"}
    BY <1>3 DEF Game!Delta
  <1>8. 1 \in Moves
    BY <1>3, <1>6, <1>7 DEF Answers
  <1>9. LedTo(handled[origin[1]], d)
    <2>1. PICK call : call = handled[origin[1]]
      OBVIOUS
    <2>2. PICK event : event = eventQueue[1]
      OBVIOUS
    <2>3. Asks(call, event) /\ Answers(d, event)
      BY <1>2, <1>3, <1>6, <1>8, <2>1, <2>2
    <2> QED
      BY <1>7, <2>1, <2>3 DEF Asks, Answers, LedTo
  <1> HIDE DEF L, H
  <1>10. PICK after : after = [i \in 1 .. L + 1 |-> IF i = L + 1 THEN origin[1] ELSE cause[i]]
    OBVIOUS
  <1>11. PICK later : later = [i \in Moves' |-> origin[i + 1]]
    OBVIOUS
  <1>12. \A i \in 1 .. L : after[i] = cause[i] /\ after[i] \in 1 .. H
    BY <1>1, <1>4, <1>10
  <1>13. after[L + 1] = origin[1] /\ origin[1] \in 1 .. H
    BY <1>1, <1>4, <1>8, <1>10
  <1>14. L + 1 <= origin[1]
    <2>1. CASE L = 0
      BY <1>5, <1>13, <2>1
    <2>2. CASE L # 0
      <3>1. L \in 1 .. L
        BY <1>4, <2>2
      <3>2. L <= cause[L] /\ cause[L] < origin[1] /\ cause[L] \in 1 .. H
        BY <1>1, <1>2, <1>8, <3>1
      <3> QED
        BY <1>4, <1>5, <1>13, <3>2
    <2> QED
      BY <2>1, <2>2
  <1>15. \A i \in 1 .. L + 1 : LedTo(handled[after[i]], deltas[i])' /\ i <= after[i]
    <2> SUFFICES ASSUME NEW i \in 1 .. L + 1
                 PROVE  LedTo(handled[after[i]], deltas[i])' /\ i <= after[i]
      OBVIOUS
    <2>1. CASE i \in 1 .. L
      <3>1. LedTo(handled[after[i]], deltas[i]) /\ deltas'[i] = deltas[i] /\ i <= after[i]
        BY <1>2, <1>4, <1>12, <2>1
      <3> QED
        BY <3>1 DEF LedTo
    <2>2. CASE i = L + 1
      <3>1. LedTo(handled[after[i]], d) /\ deltas'[i] = d
        BY <1>4, <1>9, <1>13, <2>2
      <3> QED
        BY <1>13, <1>14, <2>2, <3>1 DEF LedTo
    <2> QED
      BY <1>4, <2>1, <2>2
  <1>16. \A i, j \in 1 .. L + 1 : i < j => after[i] < after[j]
    <2> SUFFICES ASSUME NEW i \in 1 .. L + 1, NEW j \in 1 .. L + 1, i < j
                 PROVE  after[i] < after[j]
      OBVIOUS
    <2>1. i \in 1 .. L
      BY <1>4
    <2>2. CASE j \in 1 .. L
      BY <1>2, <1>12, <2>1, <2>2
    <2>3. CASE j = L + 1
      BY <1>2, <1>8, <1>12, <1>13, <2>1, <2>3
    <2> QED
      BY <1>4, <2>2, <2>3
  <1>17. \A i \in Moves' : Asks(handled[later[i]], eventQueue[i])'
    <2> SUFFICES ASSUME NEW i \in Moves'
                 PROVE  Asks(handled[later[i]], eventQueue[i])'
      OBVIOUS
    <2>1. i + 1 \in Moves /\ eventQueue'[i] = eventQueue[i + 1] /\ later[i] = origin[i + 1]
      BY <1>6, <1>11
    <2>2. Asks(handled[later[i]], eventQueue[i + 1])
      BY <1>2, <2>1
    <2> QED
      BY <2>1, <2>2 DEF Asks
  <1>18. \A i, j \in Moves' : i < j => later[i] < later[j]
    <2> SUFFICES ASSUME NEW i \in Moves', NEW j \in Moves', i < j
                 PROVE  later[i] < later[j]
      OBVIOUS
    <2>1. i + 1 \in Moves /\ j + 1 \in Moves /\ i + 1 < j + 1
      BY <1>6
    <2> QED
      BY <1>2, <1>11, <2>1
  <1>19. \A i \in 1 .. L + 1, j \in Moves' : after[i] < later[j]
    <2> SUFFICES ASSUME NEW i \in 1 .. L + 1, NEW j \in Moves'
                 PROVE  after[i] < later[j]
      OBVIOUS
    <2>1. j + 1 \in Moves /\ 1 < j + 1 /\ later[j] = origin[j + 1]
      BY <1>6, <1>11
    <2>2. CASE i \in 1 .. L
      BY <1>2, <1>12, <2>1, <2>2
    <2>3. CASE i = L + 1
      BY <1>2, <1>8, <1>13, <2>1, <2>3
    <2> QED
      BY <1>4, <2>2, <2>3
  <1>20. after \in [1 .. L + 1 -> 1 .. H] /\ later \in [Moves' -> 1 .. H]
    <2>1. \A i \in 1 .. L + 1 : after[i] \in 1 .. H
      BY <1>4, <1>12, <1>13
    <2>2. \A i \in Moves' : later[i] \in 1 .. H
      BY <1>1, <1>6, <1>11
    <2> QED
      BY <1>10, <1>11, <2>1, <2>2
  <1>21. Causes(after, later)'
    BY <1>4, <1>15, <1>16, <1>17, <1>18, <1>19 DEF Causes
  <1>22. H = Len(handled')
    BY DEF H
  <1> QED
    BY <1>4, <1>20, <1>21, <1>22 DEF CausesInOrder

\* A call pushes the event it asks for behind all the others.
LEMMA CausesPushed ==
    ASSUME Types, Types', CausesInOrder, UNCHANGED <<deltas, seats>>,
           NEW call \in Call, handled' = Append(handled, call),
           NEW event \in Game!Event, eventQueue' = Append(eventQueue, event), Asks(call, event)
    PROVE  CausesInOrder'
  <1> DEFINE L == Len(deltas)
             H == Len(handled)
             Q == Len(eventQueue)
  <1>1. PICK cause \in [1 .. L -> 1 .. H], origin \in [Moves -> 1 .. H] : Causes(cause, origin)
    BY DEF CausesInOrder
  <1>2. /\ \A i \in 1 .. L : LedTo(handled[cause[i]], deltas[i]) /\ i <= cause[i]
        /\ \A i, j \in 1 .. L : i < j => cause[i] < cause[j]
        /\ \A i \in Moves : Asks(handled[origin[i]], eventQueue[i])
        /\ \A i, j \in Moves : i < j => origin[i] < origin[j]
        /\ \A i \in 1 .. L, j \in Moves : cause[i] < origin[j]
    BY <1>1 DEF Causes
  <1>3. /\ H \in Nat /\ Len(handled') = H + 1
        /\ \A k \in 1 .. H : handled'[k] = handled[k]
        /\ handled'[H + 1] = call
    BY Pushed DEF Types
  <1>4. /\ Q \in Nat
        /\ \A i \in Moves' : \/ i \in Moves /\ eventQueue'[i] = eventQueue[i]
                             \/ i = Q + 1 /\ eventQueue'[i] = event
        /\ \A i \in Moves : i \in Nat /\ i < Q + 1
    BY MovesPushed
  <1>5. \A i \in 1 .. L : cause[i] \in 1 .. H /\ cause[i] < H + 1
    BY <1>1, <1>3
  <1>6. \A i \in Moves : origin[i] \in 1 .. H /\ origin[i] < H + 1
    BY <1>1, <1>3
  <1>7. PICK later : later = [i \in Moves' |-> IF i \in Moves THEN origin[i] ELSE H + 1]
    OBVIOUS
  <1>8. \A i \in Moves' : \/ i \in Moves /\ later[i] = origin[i] /\ eventQueue'[i] = eventQueue[i]
                          \/ /\ i \notin Moves /\ i = Q + 1 /\ later[i] = H + 1
                             /\ eventQueue'[i] = event
    <2>1. \A i \in Moves : i # Q + 1
      BY <1>4
    <2> QED
      BY <1>4, <1>7, <2>1
  <1> HIDE DEF L, H, Q
  <1>9. \A i \in 1 .. L : LedTo(handled[cause[i]], deltas[i])'
    <2> SUFFICES ASSUME NEW i \in 1 .. L
                 PROVE  LedTo(handled[cause[i]], deltas[i])'
      OBVIOUS
    <2>1. LedTo(handled[cause[i]], deltas[i]) /\ handled'[cause[i]] = handled[cause[i]]
      BY <1>2, <1>3, <1>5
    <2> QED
      BY <2>1 DEF LedTo
  <1>10. \A i \in Moves' : Asks(handled[later[i]], eventQueue[i])'
    <2> SUFFICES ASSUME NEW i \in Moves'
                 PROVE  Asks(handled[later[i]], eventQueue[i])'
      OBVIOUS
    <2>1. CASE i \in Moves
      <3>1. /\ Asks(handled[later[i]], eventQueue[i]) /\ eventQueue'[i] = eventQueue[i]
            /\ handled'[later[i]] = handled[later[i]]
        BY <1>2, <1>3, <1>6, <1>8, <2>1
      <3> QED
        BY <3>1 DEF Asks
    <2>2. CASE i \notin Moves
      <3>1. handled'[later[i]] = call /\ eventQueue'[i] = event
        BY <1>3, <1>8, <2>2
      <3> QED
        BY <3>1 DEF Asks
    <2> QED
      BY <2>1, <2>2
  <1>11. ASSUME NEW i \in Moves', NEW j \in Moves', i < j
         PROVE  later[i] < later[j]
    <2>1. i \in Moves
      <3>1. CASE i = Q + 1
        <4>1. j \in Nat /\ j <= Q + 1
          BY <1>4, <1>8
        <4> QED
          BY <1>4, <1>11, <3>1, <4>1
      <3> QED
        BY <1>8, <3>1
    <2>2. CASE j \in Moves
      BY <1>2, <1>8, <1>11, <2>1, <2>2
    <2>3. CASE j \notin Moves
      BY <1>6, <1>8, <2>1, <2>3
    <2> QED
      BY <2>2, <2>3
  <1>12. ASSUME NEW i \in 1 .. L, NEW j \in Moves'
         PROVE  cause[i] < later[j]
    BY <1>2, <1>5, <1>8
  <1>13. cause \in [1 .. L -> 1 .. H + 1] /\ later \in [Moves' -> 1 .. H + 1]
    <2>1. 1 .. H \subseteq 1 .. H + 1 /\ H + 1 \in 1 .. H + 1
      BY <1>3
    <2>2. \A i \in Moves' : later[i] \in 1 .. H + 1
      BY <1>6, <1>8, <2>1
    <2> QED
      BY <1>1, <1>7, <2>1, <2>2
  <1>14. L = Len(deltas')
    BY DEF L
  <1>15. Causes(cause, later)'
    BY <1>2, <1>9, <1>10, <1>11, <1>12, <1>14 DEF Causes
  <1> QED
    BY <1>3, <1>13, <1>14, <1>15 DEF CausesInOrder

\* The event of the game that a call asks for.
LEMMA CallAsks ==
    ASSUME Types, NEW e \in QueueEvent, e.type = "ClientMessage",
           NEW c \in Intents(e), c.type # "chat"
    PROVE  /\ GameEvent(PlayerOf(seats[e.session]), c) \in Game!Event
           /\ Asks([session |-> e.session, event |-> c], GameEvent(PlayerOf(seats[e.session]), c))
  <1>1. PICK player : player = PlayerOf(seats[e.session])
    OBVIOUS
  <1>2. PICK call : call = [session |-> e.session, event |-> c]
    OBVIOUS
  <1>3. /\ player \in Player /\ seats[call.session] = player /\ call.event = c
        /\ c.type \in {"put", "pass", "resign"}
        /\ c.type = "put" => c.c \in EventCoord
    BY <1>1, <1>2, IntentFacts
  <1>4. GameEvent(player, c) \in Game!Event /\ Asks(call, GameEvent(player, c))
    <2>1. CASE c.type = "put"
      <3>1. GameEvent(player, c) = [type |-> "Put", player |-> player, c |-> c.c]
        BY <2>1 DEF GameEvent
      <3> QED
        BY <1>3, <2>1, <3>1 DEF Asks, Game!Event, Game!MoveEvent, Game!Player, Player
    <2>2. CASE c.type = "pass"
      <3>1. GameEvent(player, c) = [type |-> "Pass", player |-> player]
        BY <2>2 DEF GameEvent
      <3> QED
        BY <1>3, <2>2, <3>1 DEF Asks, Game!Event, Game!MoveEvent, Game!Player, Player
    <2>3. CASE c.type = "resign"
      <3>1. GameEvent(player, c) = [type |-> "Resign"]
        BY <2>3 DEF GameEvent
      <3> QED
        BY <1>3, <2>3, <3>1 DEF Asks, Game!Event
    <2> QED
      BY <1>3, <2>1, <2>2, <2>3
  <1> QED
    BY <1>1, <1>2, <1>4

LEMMA CausesStep ==
    ASSUME IInv, [Next]_vars
    PROVE  CausesInOrder'
  <1> USE DEF vars, gameVars, handlerVars, ownerVars, networkVars, sessionVars, wireVars
  <1>1. Types /\ Phases /\ Connections /\ CausesInOrder /\ Types'
    BY TypesStep DEF IInv
  <1>2. Len(handled) \in Nat
    BY <1>1, LenProperties DEF Types
  <1>3. handled' = handled => HandledStays
    BY <1>2 DEF HandledStays
  <1>4. eventQueue' = eventQueue => \A i \in Moves' : i \in Moves /\ eventQueue'[i] = eventQueue[i]
    BY DEF Moves
  <1>5. CASE UNCHANGED <<deltas, handled, seats, eventQueue>>
    BY <1>1, <1>3, <1>4, <1>5, CausesStay DEF SeatsStay
  <1>6. CASE start \/ Stopping \/ Network
    BY <1>5, <1>6 DEF start, Stopping, stopServer, stopNetwork, joinServer, unsubscribeState,
                      joinGame, Network, clientConnects, clientLeaves, clientSends, Queue
  <1>7. CASE stop
    <2>1. UNCHANGED <<deltas, handled, seats>>
      BY <1>7 DEF stop, Game!pushEvent
    <2>2. CASE eventQueue' = Append(eventQueue, [type |-> "Shutdown"])
      <3>1. PICK e : e = [type |-> "Shutdown"]
        OBVIOUS
      <3>2. e \in Game!Event /\ e.type = "Shutdown"
        BY <3>1 DEF Game!Event
      <3>3. \A i \in Moves' : i \in Moves /\ eventQueue'[i] = eventQueue[i]
        BY <1>1, <2>2, <3>1, <3>2, MovesPushed
      <3> QED
        BY <1>1, <1>3, <2>1, <3>3, CausesStay DEF SeatsStay
    <2> QED
      BY <1>5, <1>7, <2>1, <2>2 DEF stop, Game!pushEvent
  <1>8. CASE connect \/ connectStartsGame
    <2> DEFINE s == Head(serverQueue).session
    <2>1. /\ s \in SessionId /\ seats[s] = "None"
          /\ seats' = [seats EXCEPT ![s] = freeSeat]
          /\ UNCHANGED <<deltas, eventQueue, handled>>
      BY <1>1, <1>8, NewSessionFacts
    <2>2. SeatsStay
      BY <1>1, <2>1 DEF SeatsStay, Types
    <2> QED
      BY <1>1, <1>3, <1>4, <2>1, <2>2, CausesStay
  <1>9. CASE disconnect \/ dropMessage \/ shutdown
    BY <1>5, <1>9 DEF disconnect, dropMessage, shutdown
  <1>10. ASSUME NEW c, Calls(c)
         PROVE  \E e \in QueueEvent : /\ e.type = "ClientMessage" /\ c \in Intents(e)
                                      /\ e = Head(serverQueue) /\ seats' = seats
                                      /\ [session |-> e.session, event |-> c] \in Call
                                      /\ handled' = Append(handled, [session |-> e.session, event |-> c])
    <2>1. PICK e : e = Head(serverQueue)
      OBVIOUS
    <2>2. /\ e \in QueueEvent /\ e.type = "ClientMessage" /\ c \in Intents(e) /\ seats' = seats
          /\ handled' = Append(handled, [session |-> e.session, event |-> c])
      BY <1>1, <1>10, <2>1, PopFacts DEF Calls
    <2>3. [session |-> e.session, event |-> c] \in Call
      BY <1>1, <2>2, IntentFacts
    <2> QED
      BY <2>1, <2>2, <2>3
  <1>11. CASE rejectMove \/ handleChat
    <2>1. PICK c : Calls(c)
      BY <1>11, RejectFacts, ChatFacts
    <2>2. UNCHANGED <<deltas, eventQueue>>
      BY <1>11, RejectFacts, ChatFacts
    <2>3. PICK call \in Call : handled' = Append(handled, call) /\ seats' = seats
      BY <1>10, <2>1
    <2>4. HandledStays
      <3>1. /\ Len(handled') = Len(handled) + 1
            /\ \A k \in 1 .. Len(handled) : handled'[k] = handled[k]
        BY <1>1, <2>3, Pushed DEF Types
      <3> QED
        BY <1>2, <3>1 DEF HandledStays
    <2> QED
      BY <1>1, <1>4, <2>2, <2>3, <2>4, CausesStay DEF SeatsStay
  <1>12. CASE handleMove
    <2>1. PICK c : /\ Calls(c) /\ c.type # "chat"
                   /\ eventQueue' = Append(eventQueue, GameEvent(PlayerOf(Sender), c))
      BY <1>12, MoveFacts
    <2>2. deltas' = deltas
      BY <1>12, MoveFacts
    <2>3. PICK e \in QueueEvent : /\ e.type = "ClientMessage" /\ c \in Intents(e)
                                  /\ e = Head(serverQueue) /\ seats' = seats
                                  /\ [session |-> e.session, event |-> c] \in Call
                                  /\ handled' = Append(handled, [session |-> e.session, event |-> c])
      BY <1>10, <2>1
    <2>4. /\ GameEvent(PlayerOf(seats[e.session]), c) \in Game!Event
          /\ Asks([session |-> e.session, event |-> c], GameEvent(PlayerOf(seats[e.session]), c))
      BY <1>1, <2>1, <2>3, CallAsks
    <2>5. PICK call : call = [session |-> e.session, event |-> c]
      OBVIOUS
    <2>6. PICK event : event = GameEvent(PlayerOf(seats[e.session]), c)
      OBVIOUS
    <2>7. call \in Call /\ event \in Game!Event /\ Asks(call, event) /\ handled' = Append(handled, call)
      BY <2>3, <2>4, <2>5, <2>6
    <2>8. eventQueue' = Append(eventQueue, event)
      BY <2>1, <2>3, <2>6 DEF Sender
    <2> QED
      BY <1>1, <2>2, <2>3, <2>7, <2>8, CausesPushed
  <1>13. ASSUME NEW t \in Thread, NEW s \in SessionId, visit(t, s)
         PROVE  CausesInOrder'
    BY <1>5, <1>13 DEF visit
  <1>14. CASE run
    BY <1>5, <1>14 DEF run, Game!run
  <1>15. CASE play
    <2>1. UNCHANGED <<seats, handled>> /\ (PlaysNothing \/ \E d : Delivers(d))
      BY <1>1, <1>15, PlayFacts
    <2>2. CASE PlaysNothing
      <3>1. CASE eventQueue' = eventQueue
        BY <1>5, <2>1, <2>2, <3>1 DEF PlaysNothing
      <3>2. CASE Takes
        BY <1>1, <1>3, <2>1, <2>2, <3>2, CausesStay DEF PlaysNothing, SeatsStay
      <3> QED
        BY <2>2, <3>1, <3>2 DEF PlaysNothing
    <2>3. CASE \E d : Delivers(d)
      BY <1>1, <2>1, <2>3, CausesDelivered
    <2> QED
      BY <2>1, <2>2, <2>3
  <1>16. CASE UNCHANGED vars
    BY <1>5, <1>16
  <1> QED
    BY <1>6, <1>7, <1>8, <1>9, <1>11, <1>12, <1>13, <1>14, <1>15, <1>16
    DEF Next, ServerThread, GameThread, stopHangs, Terminated, Thread

-----------------------------------------------------------------------------
(* The invariant and what follows from it.                                 *)

LEMMA InitIInv ==
    ASSUME Init
    PROVE  IInv
  <1>1. /\ gameThread = "none" /\ gameActive = FALSE /\ eventQueue = <<>> /\ deltas = <<>>
        /\ Len(eventQueue) = 0 /\ Len(deltas) = 0
    BY EmptySeq DEF Init, Game!Init
  <1>2. /\ serverQueue = <<>> /\ handled = <<>> /\ chatHistory = <<>>
        /\ Len(serverQueue) = 0 /\ Len(handled) = 0 /\ Len(chatHistory) = 0
    BY EmptySeq DEF Init
  <1>3. Types
    <2>1. \A S : <<>> \in Seq(S)
      BY EmptySeq
    <2>2. shown = [s \in SessionId |-> [position |-> shown[s].position, chat |-> shown[s].chat]]
      BY DEF Init
    <2>3. nextSession \in 1 .. MaxSessions + 1 /\ sent \in 0 .. MaxReceived
      BY GameServerAssumption DEF Init
    <2>4. /\ players \in [Player -> {0} \cup SessionId] /\ seats \in [SessionId -> Seat]
          /\ sending \in [Thread -> SUBSET SessionId] /\ message = [t \in Thread |-> message[t]]
      BY DEF Init, Seat
    <2> QED
      BY <1>1, <1>2, <2>1, <2>2, <2>3, <2>4 DEF Types, Init
  <1>4. Sessions = {} /\ Moves = {} /\ Waiting = {}
    BY <1>1, <1>2 DEF Init, Sessions, Moves, Waiting
  <1>5. Phases
    BY <1>1, <1>4 DEF Phases, Init
  <1>6. Connections
    BY <1>2 DEF Connections, Init
  <1>7. DeltasAreMoves
    BY <1>1 DEF DeltasAreMoves
  <1>8. Broadcasts
    BY DEF Broadcasts, Init, Thread
  <1>9. PositionsFollow
    BY DEF PositionsFollow, PositionFollows, Init
  <1>10. ChatsFollow
    <2> SUFFICES ASSUME NEW s \in SessionId
                 PROVE  ChatFollows(s)
      BY DEF ChatsFollow
    <2>1. shown[s].chat = [expectedMessageId |-> 1, history |-> <<>>, pending |-> {}]
      BY DEF Init, Client!clear
    <2>2. [i \in 1 .. 0 |-> ChatEvent(i)] = <<>>
      OBVIOUS
    <2>3. ChatAfter(0, {}) = [expectedMessageId |-> 1, history |-> <<>>, pending |-> {}]
      BY <2>2 DEF ChatAfter
    <2>4. 0 \in 0 .. Len(chatHistory)
      BY <1>2
    <2> QED
      BY <2>1, <2>3, <2>4 DEF ChatFollows
  <1>11. CausesInOrder
    <2>1. PICK none : none = [i \in {} |-> 0]
      OBVIOUS
    <2>2. none \in [1 .. Len(deltas) -> 1 .. Len(handled)] /\ none \in [Moves -> 1 .. Len(handled)]
      BY <1>1, <1>4, <2>1
    <2>3. Causes(none, none)
      BY <1>1, <1>4 DEF Causes
    <2> QED
      BY <2>2, <2>3 DEF CausesInOrder
  <1>12. Counted
    <2>1. PICK none : none = [i \in {} |-> 0]
      OBVIOUS
    <2>2. none \in [Waiting -> Len(handled) + 1 .. sent]
      BY <1>4, <2>1
    <2>3. Len(chatHistory) <= Len(handled) /\ Len(handled) <= sent
      BY <1>2 DEF Init
    <2> QED
      BY <1>4, <2>2, <2>3 DEF Counted
  <1> QED
    BY <1>3, <1>5, <1>6, <1>7, <1>8, <1>9, <1>10, <1>11, <1>12 DEF IInv

\* Every step keeps the invariant: the types and phases of the threads, the
\* broadcasts under way, what clients show, and the calls behind the moves.
THEOREM Invariance == Spec => []IInv
  <1>1. IInv /\ [Next]_vars => IInv'
    BY TypesStep, PhasesStep, ConnectionsStep, DeltasAreMovesStep, BroadcastsStep,
       PositionsFollowStep, ChatsFollowStep, CausesStep, CountedStep DEF IInv
  <1> QED
    BY <1>1, InitIInv, PTL DEF Spec

\* The variables have their types; in particular a broadcast under way sends an
\* event of the server, and no client counts more moves than messages were sent.
THEOREM TypeCorrect == Spec => []TypeOK
  <1>1. ASSUME IInv
        PROVE  TypeOK
    <2>1. Types /\ Broadcasts /\ PositionsFollow /\ CausesInOrder /\ Counted
      BY <1>1 DEF IInv
    <2>2. \A t \in Thread : IF sending[t] = {} THEN message[t] = <<>> ELSE message[t] \in ServerEvent
      BY <1>1, <2>1, MessageIsEvent DEF Broadcasts
    <2>3. ASSUME NEW s \in SessionId
          PROVE  shown[s].position.moveId \in 0 .. MaxReceived
      <3>1. Len(deltas) \in Nat /\ Len(deltas) <= MaxReceived /\ MaxReceived \in Nat
        BY <2>1, Counts, GameServerAssumption
      <3>2. CASE shown[s].position = Client!reset
        <4>1. shown[s].position.moveId = 0
          BY <3>2 DEF Client!reset
        <4> QED
          BY <3>1, <4>1
      <3>3. ASSUME NEW n \in 0 .. Len(deltas), shown[s].position = PositionAfter(n)
            PROVE  shown[s].position.moveId \in 0 .. MaxReceived
        <4>1. shown[s].position.moveId = n
          BY <3>3 DEF PositionAfter
        <4> QED
          BY <3>1, <4>1
      <3> QED
        BY <2>1, <3>2, <3>3 DEF PositionsFollow, PositionFollows
    <2> QED
      BY <2>1, <2>2, <2>3 DEF Types, TypeOK
  <1> QED
    BY <1>1, Invariance, PTL

\* What clients show is the game as it was played, and a connected client that
\* began it and is not yet to be visited has seen every move: no broadcast is
\* lost, repeated or overtaken between the game thread and the server thread.
THEOREM ClientsAlwaysShowGame == Spec => []ClientsShowGame
  <1>1. ASSUME IInv, NEW s \in SessionId
        PROVE  LET position == shown[s].position
                   history  == shown[s].chat.history
               IN  /\ Len(position.moves) <= Len(deltas)
                   /\ \A i \in 1 .. Len(position.moves) : Shows(position.moves[i].event, deltas[i])
                   /\ position.boardOf # 0 /\ s \in open /\ s \notin sending["game"]
                          => Len(position.moves) = Len(deltas)
                   /\ Len(history) <= Len(chatHistory)
                   /\ \A i \in 1 .. Len(history) :
                          /\ history[i].player = chatHistory[i].player
                          /\ history[i].message = chatHistory[i].message
    <2>1. /\ Types /\ DeltasAreMoves /\ PositionFollows(s) /\ ChatFollows(s)
          /\ CausesInOrder /\ Counted
      BY <1>1 DEF IInv, PositionsFollow, ChatsFollow
    <2>2. Len(deltas) \in Nat /\ Len(chatHistory) \in Nat
      BY <2>1, Counts
    <2>3. /\ Len(shown[s].position.moves) <= Len(deltas)
          /\ \A i \in 1 .. Len(shown[s].position.moves) :
                 Shows(shown[s].position.moves[i].event, deltas[i])
          /\ shown[s].position.boardOf # 0 /\ s \in open /\ s \notin sending["game"]
                 => Len(shown[s].position.moves) = Len(deltas)
      <3>1. CASE shown[s].position = Client!reset
        <4>1. shown[s].position.moves = <<>> /\ shown[s].position.boardOf = 0
          BY <3>1 DEF Client!reset
        <4>2. Len(shown[s].position.moves) = 0
          BY <4>1, EmptySeq
        <4> QED
          BY <2>2, <4>1, <4>2
      <3>2. ASSUME NEW n \in 0 .. Len(deltas), shown[s].position = PositionAfter(n),
                   s \in open => n = IF s \in sending["game"] THEN Len(deltas) - 1 ELSE Len(deltas)
            PROVE  <2>3!:
        <4>1. PICK moves : moves = shown[s].position.moves
          OBVIOUS
        <4>2. moves = [i \in 1 .. n |-> MoveShown(deltas[i])]
          BY <3>2, <4>1 DEF PositionAfter
        <4>3. n \in Nat /\ n <= Len(deltas)
          BY <2>2
        <4>4. Len(moves) = n
          <5>1. moves \in Seq({MoveShown(deltas[i]) : i \in 1 .. n}) /\ DOMAIN moves = 1 .. n
            BY <4>2, <4>3
          <5> QED
            BY <4>3, <5>1, LenProperties
        <4>5. ASSUME NEW i \in 1 .. n
              PROVE  Shows(moves[i].event, deltas[i])
          <5>1. PICK d : d = deltas[i]
            OBVIOUS
          <5>2. i \in 1 .. Len(deltas)
            BY <2>2, <4>3
          <5>3. d.gameActive \in BOOLEAN
            BY <2>1, <5>1, <5>2, DeltaFacts
          <5>4. moves[i].event = DeltaEvent(d)
            BY <4>2, <5>1 DEF MoveShown
          <5>5. Shows(DeltaEvent(d), d)
            BY <5>3 DEF Shows, DeltaEvent
          <5> QED
            BY <5>1, <5>4, <5>5
        <4> QED
          BY <3>2, <4>1, <4>3, <4>4, <4>5
      <3> QED
        BY <2>1, <3>1, <3>2 DEF PositionFollows
    <2>4. /\ Len(shown[s].chat.history) <= Len(chatHistory)
          /\ \A i \in 1 .. Len(shown[s].chat.history) :
                 /\ shown[s].chat.history[i].player = chatHistory[i].player
                 /\ shown[s].chat.history[i].message = chatHistory[i].message
      <3>1. PICK n \in 0 .. Len(chatHistory), pending \in SUBSET {ChatEvent(i) : i \in 1 .. Len(chatHistory)} :
                    shown[s].chat = ChatAfter(n, pending)
        BY <2>1 DEF ChatFollows
      <3>2. PICK history : history = shown[s].chat.history
        OBVIOUS
      <3>3. history = [i \in 1 .. n |-> ChatEvent(i)]
        BY <3>1, <3>2 DEF ChatAfter
      <3>4. n \in Nat /\ n <= Len(chatHistory)
        BY <2>2
      <3>5. Len(history) = n
        <4>1. history \in Seq({ChatEvent(i) : i \in 1 .. n}) /\ DOMAIN history = 1 .. n
          BY <3>3, <3>4
        <4> QED
          BY <3>4, <4>1, LenProperties
      <3>6. ASSUME NEW i \in 1 .. n
            PROVE  /\ history[i].player = chatHistory[i].player
                   /\ history[i].message = chatHistory[i].message
        BY <3>3 DEF ChatEvent, ServerChat
      <3> QED
        BY <3>2, <3>4, <3>5, <3>6
    <2> QED
      BY <2>3, <2>4
  <1>2. IInv => ClientsShowGame
    BY <1>1 DEF ClientsShowGame
  <1> QED
    BY <1>2, Invariance, PTL

\* Every move of the game was asked for by a client with the seat of its player,
\* each by a message of its own and in the order of the messages, although they
\* pass through the queues of two threads.
THEOREM MovesAlwaysFromTheirSeat == Spec => []MovesComeFromTheirSeat
  <1>1. IInv => MovesComeFromTheirSeat
    BY DEF IInv, CausesInOrder, Causes, MovesComeFromTheirSeat
  <1> QED
    BY <1>1, Invariance, PTL
=============================================================================
