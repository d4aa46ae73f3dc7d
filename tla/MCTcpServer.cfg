SPECIFICATION Spec
CONSTANTS
    MaxConnections = 2
    MaxTraffic = 3
INVARIANTS
    FramesInOrder
PROPERTIES
    ImplementsCallbacks
    StopReturns
