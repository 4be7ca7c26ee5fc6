SPECIFICATION FairSpec
CONSTANTS
    Call = {c1, c2, c3}
    None = None
INVARIANTS
    MappedIsOpen
    ReferencesCounted
    LeakedByAgentOnly
    OneWrapper
    BusyIsNotTimed
PROPERTIES
    HeldStaysOpen
    MutexSpec
    WaitersReturn
CHECK_DEADLOCK FALSE
