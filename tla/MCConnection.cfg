CONSTANTS
    a = a  b = b
    w1 = w1  w2 = w2
    None = None
    Ids <- MCIds
    Workers <- MCWorkers
    MaxStreams = 2
    MaxConns = 2
    MaxStarts = 3
SPECIFICATION LiveSpec
INVARIANTS TypeOK NothingSurvives EntriesAreLive FollowedIsTracked
PROPERTIES DropEndsConnection StopEndsConnect
CHECK_DEADLOCK FALSE
