SPECIFICATION FairSpec
CONSTANTS
    l1 = l1
    l2 = l2
    e1 = e1
    d1 = d1
    NoListing = NoListing
    Listing <- TwoListings
    BoardOf <- UploadBoards
    Rank <- InOrder
    Executor <- OneExecutor
    Dashboard <- OneDashboard
    Cap = 2
    MaxRepairs = 4
    Delay = 3
    MaxManual = 1
    MaxCrashes = 1
INVARIANTS
    BudgetOvershootBounded
    ArchiveIsWhatWasSent

PROPERTY
    JobGetsItsTurn
CHECK_DEADLOCK FALSE
