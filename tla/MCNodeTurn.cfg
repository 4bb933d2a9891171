SPECIFICATION DiscoverySpec
CONSTANTS
    n1 = n1
    n2 = n2
    u1 = u1
    u2 = u2
    p1 = p1
    Nobody = Nobody
    Runner <- OneNode
    User <- TwoUsers
    AssignedTo <- AllHaveAll
    Posting <- OnePosting
    PagesPerRun = 1
    MaxListings = 1
    Interval = 3
    Limit = 2
    CronPeriod = 2
    MaxMishaps = 0
PROPERTY NodesSearchToo
