SPECIFICATION Spec
CONSTANTS
    Req = {r1, r2}
    NoReq = NoReq
    MaxGen = 3
    MaxOut = 1
    Events <- AllEvents
INVARIANTS
    CallersAreQueued
    GeneratorIsRead
    OneQueryCreates
PROPERTIES
    CompletedInOrder
    ResumeAfterAnswer
    QueueSpec
SYMMETRY Symmetry
CHECK_DEADLOCK FALSE
