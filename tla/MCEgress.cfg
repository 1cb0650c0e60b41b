CONSTANTS
    None = None
    HighCap = 2
    LowCap = 2
    LogCap = 1
    MaxConns = 2
    MaxMsgs = 4
SPECIFICATION LiveSpec
INVARIANTS TypeOK OnlyHighOvertakes LossIsBounded
PROPERTY QueuedGetsOut
CHECK_DEADLOCK FALSE
