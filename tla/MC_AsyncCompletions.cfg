SPECIFICATION FairSpec
CONSTANTS
    Call = {c1, c2, c3}
    Speculative = {c3}
    Prompt <- SomePrompts
    Completion <- SomeCompletions
    Character <- Characters
    Blank <- Blanks
    MaxRequests = 2
    None = None
INVARIANTS
    OnlyCandidatesRun
PROPERTIES
    CandidatesAreKept
    CallersAnswered
CHECK_DEADLOCK FALSE
