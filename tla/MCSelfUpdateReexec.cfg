CONSTANTS
    MaxVersion = 2
    MaxPath = 3
    MaxEvents = 0
SPECIFICATION Spec
INVARIANT ReexecRunsNewBinary
CHECK_DEADLOCK FALSE
