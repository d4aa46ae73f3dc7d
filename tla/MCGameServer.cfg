SPECIFICATION Spec
CONSTANTS
    Coord <- MCPoint
    EventCoord <- MCPoint
    BoardSize = 9
    Text = {"hi"}
    Komi = "6.5"
    UnsignedSize = 512
    Payload <- MCPayload
    MaxSessions = 3
    MaxLeaves = 1
    MaxWaiting = 1
    MaxReceived = 2
INVARIANTS
    TypeOK
    ClientsShowGame
    MovesComeFromTheirSeat
PROPERTIES
    StopReturns
