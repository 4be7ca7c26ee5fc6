SPECIFICATION FairSpec
CONSTANTS
    Req = {r1, r2, r3}
    NoReq = NoReq
    MaxGen = 4
    MaxOut = 1
    Events = {"yield", "startfail", "controlfail"}
INVARIANTS
    CurrentIsHead
    NeverStranded
PROPERTIES
    Answered
    YieldRestarts
CHECK_DEADLOCK FALSE
