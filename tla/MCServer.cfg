SPECIFICATION Spec
CONSTANTS
    ClientEvent = {e1, e2}
    Payload = {e1, e2, junk}
    MaxSessionId = 3
    FirstSessionId = 3
    MaxConnections = 3
    MaxReceived = 2
    MaxBroadcasts = 0
INVARIANTS
    TypeOK
    SeatHasOneOpenConnection
    SessionsMatchConnections
    CallsInOrder
    EventsInOrder
SYMMETRY
    EventSymmetry
