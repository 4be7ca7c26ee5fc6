SPECIFICATION Spec
CONSTANTS
    Req = {r1, r2}
    NoReq = NoReq
    MaxGen = 3
    MaxOut = 1
    Events = {"crash"}
INVARIANTS
    NeverStranded
CHECK_DEADLOCK FALSE
