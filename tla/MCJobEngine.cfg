CONSTANTS
    j1 = j1  j2 = j2
    t1 = t1  t2 = t2  t3 = t3
    s1 = s1
    NoSite = NoSite  NoJob = NoJob
    Jobs <- MCJobs
    Tasks <- MCTwoTasks
    Sites <- MCSites
    SiteOf <- MCSameSite
    MaxConcurrent = 2
    MaxTriggers = 2
    MaxRequeues = 1
    MaxStops = 1
    MaxFaulted = 1
SPECIFICATION Spec
SYMMETRY Symmetry
INVARIANTS
    TypeOK OneOwnerPerJob NothingLeaks DedupNeverDrops AtMostOncePerOffer
    DeployExclusive AcceptedIsHandled
PROPERTY RefinesContract
