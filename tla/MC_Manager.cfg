SPECIFICATION Spec
CONSTANTS
    Req = {r1, r2, r3}
    Id = {s1, s2}
    None = None
INVARIANT
    SharedSession
CHECK_DEADLOCK FALSE
