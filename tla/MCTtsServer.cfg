SPECIFICATION Spec
CONSTANTS
    r1 = r1
    r2 = r2
    r3 = r3
    Requests = {r1, r2, r3}
    Modes <- AllModes
    Chunk = 2
    Depth = 1
    Stack = 2
    MaxFrames = 4
INVARIANTS OneLease WorkerJoined
PROPERTIES SuccessIsWhole EveryRequestAnswered
CHECK_DEADLOCK FALSE
