SPECIFICATION FairSpec
CONSTANTS
    l1 = l1
    f1 = f1
    d1 = d1
    e1 = e1
    Nobody = Nobody
    Listing <- OneListing
    Finder <- OneFinder
    Dashboard <- OneTab
    Worker <- OneWorker
    Deletions <- AllDeletions
    MaxDeletions = 1
    MaxFilters = 1
    MaxFailures = 1
INVARIANTS
    StrandedExcused
    StaleTaskExcused
    SettledNotOffered
PROPERTY DiscoveryQueues
