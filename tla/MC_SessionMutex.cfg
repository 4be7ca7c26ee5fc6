SPECIFICATION FairSpec
CONSTANTS
    Call = {c1, c2, c3, c4}
    Cancellable = {c1, c2, c3, c4}
INVARIANTS
    MutualExclusion
PROPERTIES
    LostOnlyByGivingUp
    ServedInOrder
    WaitersServed
CHECK_DEADLOCK FALSE
