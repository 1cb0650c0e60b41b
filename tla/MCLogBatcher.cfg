CONSTANTS
    MaxLines = 3
    MaxHeartbeats = 1
    LossyNetwork = TRUE
SPECIFICATION LiveSpec
INVARIANTS TypeOK EveryLineOnce ReportAfterFlush
PROPERTY LoopsEnd
