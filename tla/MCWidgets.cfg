SPECIFICATION Spec
CONSTANTS
    BoardSize = {2, 3}
    DefaultSize = 2
    PixelSize = {20, 31}
    MaxStones = 1
    MaxChats = 2
    MaxCalls = 2
    MaxWaiting = 1
INVARIANTS
    QuietShowsState
    ChatListInOrder
    JoinCanGoOn
