SPECIFICATION FairSpec
CONSTANTS
    Config <- AllConfigs
    MaxCall = 2
    MayShow <- MayShowFirst
    Document = {d1, d2}
    MaxText = 1
    None = None
PROPERTIES
    CallsReturn
CHECK_DEADLOCK FALSE
