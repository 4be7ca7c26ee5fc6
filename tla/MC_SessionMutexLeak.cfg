SPECIFICATION Spec
CONSTANTS
    Call = {c1, c2}
    Cancellable = {c1, c2}
INVARIANT
    LockedHasReleaser
SYMMETRY Symmetry
CHECK_DEADLOCK FALSE
