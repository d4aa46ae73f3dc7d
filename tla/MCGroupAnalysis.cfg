SPECIFICATION Spec
CONSTANTS
    Size = 3
    Boards <- MCBoards
INVARIANTS
    GroupIsConnectedGroup
    LibertiesAreCounted
PROPERTIES
    SearchEnds
