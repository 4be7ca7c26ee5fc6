SPECIFICATION FairSpec
CONSTANTS
    MaxTurn = 2
    ToolCallLimit = 1
    NoRound = NoRound
INVARIANTS
    RequestIsServed
    SocketsAreClosed
PROPERTIES
    ReusedAcrossRounds
    TurnsEnd
CHECK_DEADLOCK FALSE
