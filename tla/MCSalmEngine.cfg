SPECIFICATION Spec
CONSTANTS
    Loads <- AllLoads
    MaxCalls = 1
    NumSlots = 2
    Group = 1
    EncoderAhead = 1
    MaxJobs = 2
    Margin = 0
    StartPrepared = FALSE
INVARIANTS RowsAccounted PoolSuffices
PROPERTIES ImplementsContract EveryTicketDelivered
CHECK_DEADLOCK FALSE
