SPECIFICATION Spec
CONSTANTS
    Req = {r1, r2}
    NoReq = NoReq
    MaxGen = 4
    MaxOut = 2
    Events <- NoRestart
INVARIANTS
    OneLiveQuery
    AbortReachesGenerator
    YieldAborts
    NoOrphanIterable
    ToolsAskOnOwnRequest
PROPERTIES
    CompletedByOwnResult
SYMMETRY Symmetry
CHECK_DEADLOCK FALSE
