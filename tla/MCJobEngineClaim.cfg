CONSTANTS
    j1 = j1  j2 = j2
    t1 = t1  t2 = t2  t3 = t3
    s1 = s1
    NoSite = NoSite  NoJob = NoJob
    Jobs <- MCJobs
    Tasks <- MCTwoTasks
    Sites <- MCSites
    SiteOf <- MCOneSite
    MaxConcurrent = 1
    MaxTriggers = 1
    MaxRequeues = 0
    MaxStops = 0
    MaxFaulted = 1
SPECIFICATION Spec
INVARIANT PollWillRedeliver
