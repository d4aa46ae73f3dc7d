SPECIFICATION Spec
CONSTANTS
    Size = 2
    EventCoord <- MCEventCoord
    MaxQueue = 2
    MaxBusyMoveId = 5
    MaxMoveId = 8
INVARIANTS
    TypeOK
    HashMatchesSituation
    NoSituationTwice
    GroupsBreathe
    DeltasInOrder
    DeltasRebuildBoard
PROPERTIES
    FinalPosition
    ShutdownEndsRun
    ImplementsMatch
