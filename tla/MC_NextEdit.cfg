SPECIFICATION Spec
CONSTANTS
    Config <- AllConfigs
    MaxCall = 3
    MayShow <- MayShowAsync
    Document = {d1}
    MaxText = 1
    None = None
INVARIANTS
    NobodyIsForgotten
PROPERTIES
    NeededIsNotCancelled
    EditsFitText
CHECK_DEADLOCK FALSE
