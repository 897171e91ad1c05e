SPECIFICATION Spec
CONSTANTS
    a = a
    b = b
    Threads <- MCSessions
    ToolUsers <- MCTools
    Predictors <- MCPredictors
    ArenaSlots = 2
    MaxStreams = 1
    MaxPending = 2
    StepsPerCall = 2
    FnTimeout = 3
    MaxToolTokens = 2
    AckLen = 3
    ResponseLen = 3
INVARIANTS
    RowsAreOwn
    StreamHasOneOwner
    ResponseTakenAfterRequest
    RefusedOnlyWhenFull
PROPERTIES
    EveryWaitEnds
