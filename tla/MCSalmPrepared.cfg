SPECIFICATION Spec
CONSTANTS
    Loads <- Contended
    MaxCalls = 2
    NumSlots = 2
    Group = 1
    EncoderAhead = 1
    MaxJobs = 2
    Margin = 0
    StartPrepared = TRUE
INVARIANT PreparedIsCurrent
CHECK_DEADLOCK FALSE
