SPECIFICATION Spec
CONSTANTS
    MaxGames = 2
    MaxTurns = 2
    MaxChats = 2
INVARIANTS
    TypeOK
    BoardShowsMovesInOrder
    ChatWithoutGap
    StoppedHasNoThread
PROPERTIES
    QuietAfterDisconnect
    CallsReturn
CHECK_DEADLOCK FALSE
