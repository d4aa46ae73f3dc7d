\* Broadcasts against sessions that come and go, and the liveness of the server
\* while clients connect, send and leave.
SPECIFICATION Spec
CONSTANTS
    ClientEvent = {e1}
    Payload = {e1, junk}
    MaxSessionId = 2
    FirstSessionId = 2
    MaxConnections = 2
    MaxReceived = 1
    MaxBroadcasts = 2
INVARIANTS
    BroadcastsWithoutGap
PROPERTIES
    QuietAfterStop
    StopReturns
    ClientGetsSession
