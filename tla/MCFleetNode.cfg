SPECIFICATION FleetSpec
CONSTANTS
    n1 = n1
    u1 = u1
    p1 = p1
    c1 = c1
    c2 = c2
    Nobody = Nobody
    Node <- OneNode
    Runner <- OneNode
    User <- OneUser
    AssignedTo <- HasUser
    Posting <- OnePosting
    Command <- TwoCommands
    NodeOf <- AllForFirst
    Kind <- UpdateAndRestart
    PagesPerRun = 1
    MaxListings = 1
    Interval = 3
    Limit = 1
    CronPeriod = 2
    MaxLosses = 1
    MaxDeaths = 1
    MaxMishaps = 0
INVARIANTS
    RerunExcused
    SentWasDelivered
PROPERTIES
    Delivered
