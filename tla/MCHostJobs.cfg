CONSTANTS
    None = None
    w1 = w1  w2 = w2  main = main  dev = dev  good = good  k0 = k0  k1 = k1
    Broken = broken
    Workers <- MCWorkers
    Requests <- MCRequests
    Sites <- MCSites
    Names <- MCNames
    Branches = {main, dev}
    Default = main
    Moving = {main}
    OldKeys <- MCOldKeys
    MaxJobs = 3
    MaxPushes = 1
    MaxCrashes = 1
SPECIFICATION Spec
SYMMETRY WorkerSymmetry
INVARIANTS TypeOK ServicesMatchFiles ScriptRunsCheckout 
CHECK_DEADLOCK FALSE
