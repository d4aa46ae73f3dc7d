------------------------------- MODULE NwEvents -------------------------------
(***************************************************************************)
(* The messages of libGameNet: events are written as JSON objects and read *)
(* back.  An object gives every key a value; one that is not there is      *)
(* Absent, and a payload that is no object reads like one without a key.   *)
(* An optional result is a set with one element at most.                   *)
(*                                                                         *)
(* Numbers keep the width of their types: unsigned is what a number is     *)
(* read into, and the enumerations are made from its lowest byte.          *)
(***************************************************************************)
EXTENDS Naturals

CONSTANTS
    Text,           \* What a user may write in a chat message.
    Komi,           \* The komi of a game, which is no unsigned number.
    UnsignedSize    \* The values of unsigned: 2^32 in the code.

ASSUME NwEventsAssumption == UnsignedSize \in Nat /\ UnsignedSize > 8

-----------------------------------------------------------------------------
(* JSON.                                                                   *)

Key == {"type", "x", "y", "message", "sessionId", "boardSize", "komi", "time", "turn",
        "seat", "action", "next", "status", "captures", "player", "messageId"}

Absent == [kind |-> "absent"]

String(text) == [kind |-> "string", text |-> text]

Unsigned(n) == [kind |-> "unsigned", number |-> n]

\* A number of another type.
Float(n) == [kind |-> "float", float |-> n]

\* The items are arrays themselves; one that is not counts as an empty one.
Array(items) == [kind |-> "array", items |-> items]

Object(type) == [[k \in Key |-> Absent] EXCEPT !["type"] = String(type)]

contains(j, key) == j[key].kind # "absent"

is_string(j, key) == j[key].kind = "string"

is_number_unsigned(j, key) == j[key].kind = "unsigned"

is_number(j, key) == j[key].kind \in {"unsigned", "float"}

is_array(j, key) == j[key].kind = "array"

HasType(j, type) == is_string(j, "type") /\ j["type"].text = type

\* get<unsigned>
get(j, key) == j[key].number % UnsignedSize

-----------------------------------------------------------------------------
(* Enumerations: the number of each value.                                 *)

Player == {"Black", "White"}

PlayerCode == [Black |-> 1, White |-> 2]

SeatCode == [None |-> 0, Black |-> 2, White |-> 4, Observer |-> 8]

ServerActionCode == [Place |-> 0, Pass |-> 1, Resign |-> 2]

GameStatusCode == [Active |-> 0, BlackWin |-> 1, WhiteWin |-> 2, Draw |-> 3]

\* static_cast of an unsigned to an enumeration with an underlying uint8_t.
EnumSize == 256

ToEnum(j, key) == get(j, key) % EnumSize

IsCode(code, n) == \E value \in DOMAIN code : code[value] = n

Decoded(code, n) == CHOOSE value \in DOMAIN code : code[value] = n

IsPlayerSeat(n) == n \in {SeatCode.Black, SeatCode.White}

-----------------------------------------------------------------------------
(* Events of a client.                                                     *)

ClientPutStone(c) == [type |-> "put", c |-> c]

ClientPass == [type |-> "pass"]

ClientResign == [type |-> "resign"]

ClientChat(message) == [type |-> "chat", message |-> message]

toClientMessage(event) ==
    CASE event.type = "put"  -> [Object("put") EXCEPT !["x"] = Unsigned(event.c[1]),
                                                      !["y"] = Unsigned(event.c[2])]
      [] event.type = "chat" -> [Object("chat") EXCEPT !["message"] = String(event.message)]
      [] OTHER               -> Object(event.type)

\* Both coordinates of a point are there.
HasCoord(j) == is_number_unsigned(j, "x") /\ is_number_unsigned(j, "y")

fromClientMessage(j) ==
    CASE HasType(j, "put") /\ HasCoord(j) -> {ClientPutStone(<<get(j, "x"), get(j, "y")>>)}
      [] HasType(j, "pass")               -> {ClientPass}
      [] HasType(j, "resign")             -> {ClientResign}
      [] HasType(j, "chat") /\ is_string(j, "message") -> {ClientChat(j["message"].text)}
      [] OTHER                            -> {}

-----------------------------------------------------------------------------
(* Events of the server.                                                   *)

ServerSessionAssign(sessionId) == [type |-> "session", sessionId |-> sessionId]

ServerGameConfig(boardSize) == [type |-> "config", boardSize |-> boardSize]

ServerChat(player, messageId, message) ==
    [type |-> "chat", player |-> player, messageId |-> messageId, message |-> message]

UnsignedInt == 0 .. UnsignedSize - 1

Point == UnsignedInt \X UnsignedInt

\* A delta with a coordinate is a stone, and only a stone captures.
ServerDelta ==
    {delta \in [type : {"delta"}, turn : UnsignedInt, seat : Player,
                action : DOMAIN ServerActionCode, coord : SUBSET Point,
                captures : SUBSET Point, next : Player, status : DOMAIN GameStatusCode] :
        IF delta.action = "Place" THEN \E c \in Point : delta.coord = {c}
        ELSE delta.coord = {} /\ delta.captures = {}}

\* What a stone adds to the message: no array when nothing is captured.
PlaceFields(j, delta) ==
    LET c == CHOOSE c \in delta.coord : TRUE
    IN  [j EXCEPT !["x"] = Unsigned(c[1]), !["y"] = Unsigned(c[2]),
                  !["captures"] = IF delta.captures = {} THEN Absent
                      ELSE Array({<<Unsigned(d[1]), Unsigned(d[2])>> : d \in delta.captures})]

DeltaMessage(delta) ==
    LET j == [Object("delta") EXCEPT
                  !["turn"]   = Unsigned(delta.turn),
                  !["seat"]   = Unsigned(SeatCode[delta.seat]),
                  !["action"] = Unsigned(ServerActionCode[delta.action]),
                  !["next"]   = Unsigned(SeatCode[delta.next]),
                  !["status"] = Unsigned(GameStatusCode[delta.status])]
    IN  IF delta.action = "Place" THEN PlaceFields(j, delta) ELSE j

toServerMessage(event) ==
    CASE event.type = "session" ->
             [Object("session") EXCEPT !["sessionId"] = Unsigned(event.sessionId)]
      [] event.type = "config" ->
             [Object("config") EXCEPT !["boardSize"] = Unsigned(event.boardSize),
                                      !["komi"] = Float(Komi), !["time"] = Unsigned(0)]
      [] event.type = "delta" -> DeltaMessage(event)
      [] event.type = "chat" ->
             [Object("chat") EXCEPT !["player"] = Unsigned(PlayerCode[event.player]),
                                    !["messageId"] = Unsigned(event.messageId),
                                    !["message"] = String(event.message)]

\* An item of the captures: two coordinates.
IsPoint(item) ==
    /\ DOMAIN item = {1, 2}
    /\ item[1].kind = "unsigned" /\ item[2].kind = "unsigned"

HasCaptures(j) == is_array(j, "captures") /\ \A item \in j["captures"].items : IsPoint(item)

\* The fields of a delta agree with its action.
IsDelta(j) ==
    /\ \A key \in {"turn", "seat", "action", "next", "status"} : is_number_unsigned(j, key)
    /\ IsCode(ServerActionCode, ToEnum(j, "action"))
    /\ IsCode(GameStatusCode, ToEnum(j, "status"))
    /\ IsPlayerSeat(ToEnum(j, "seat")) /\ IsPlayerSeat(ToEnum(j, "next"))
    /\ IF ToEnum(j, "action") = ServerActionCode.Place
       THEN HasCoord(j) /\ (contains(j, "captures") => HasCaptures(j))
       ELSE \A key \in {"x", "y", "captures"} : ~ contains(j, key)

CapturesOf(j) ==
    IF contains(j, "captures")
    THEN {<<item[1].number % UnsignedSize, item[2].number % UnsignedSize>> :
             item \in j["captures"].items}
    ELSE {}

DeltaOf(j) ==
    [type |-> "delta", turn |-> get(j, "turn"),
     seat |-> Decoded(SeatCode, ToEnum(j, "seat")),
     action |-> Decoded(ServerActionCode, ToEnum(j, "action")),
     coord |-> IF HasCoord(j) THEN {<<get(j, "x"), get(j, "y")>>} ELSE {},
     captures |-> CapturesOf(j),
     next |-> Decoded(SeatCode, ToEnum(j, "next")),
     status |-> Decoded(GameStatusCode, ToEnum(j, "status"))]

fromServerDeltaMessage(j) == IF IsDelta(j) THEN {DeltaOf(j)} ELSE {}

IsConfig(j) ==
    is_number_unsigned(j, "boardSize") /\ is_number(j, "komi") /\ is_number_unsigned(j, "time")

IsChat(j) ==
    /\ is_number_unsigned(j, "player") /\ is_number_unsigned(j, "messageId")
    /\ is_string(j, "message")
    /\ IsCode(PlayerCode, get(j, "player"))

fromServerMessage(j) ==
    CASE HasType(j, "session") /\ is_number_unsigned(j, "sessionId") ->
             {ServerSessionAssign(get(j, "sessionId"))}
      [] HasType(j, "config") /\ IsConfig(j) -> {ServerGameConfig(get(j, "boardSize"))}
      [] HasType(j, "delta") -> fromServerDeltaMessage(j)
      [] HasType(j, "chat") /\ IsChat(j) ->
             {ServerChat(Decoded(PlayerCode, get(j, "player")), get(j, "messageId"),
                         j["message"].text)}
      [] OTHER -> {}
=============================================================================
