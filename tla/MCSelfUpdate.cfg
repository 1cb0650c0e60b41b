CONSTANTS
    MaxVersion = 3
    MaxPath = 3
    MaxEvents = 2
SPECIFICATION LiveSpec
INVARIANTS TypeOK GuardIsHonest AgentSwapsAlone ServiceKeepsBinary NoSilentSuccess NoDowngrade
PROPERTY UpdatesArrive
CHECK_DEADLOCK FALSE
