\* A second connection after the server has closed the first one.
SPECIFICATION Spec
CONSTANTS
    MaxGames = 2
    MaxTurns = 1
    MaxChats = 0
INVARIANTS
    ConnectedIsRead
CHECK_DEADLOCK FALSE
