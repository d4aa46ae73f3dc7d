\* The comment of m_consecutivePasses, which the code does not keep.
SPECIFICATION Spec
CONSTANTS
    Size = 2
    EventCoord <- MCEventCoord
    MaxQueue = 1
    MaxBusyMoveId = 0
    MaxMoveId = 8
INVARIANTS
    TwoPassesEndGame
