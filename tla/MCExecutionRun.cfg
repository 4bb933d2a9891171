CONSTANTS
    b1 = b1
    b2 = b2
    n1 = n1
    n2 = n2
    NoOne = NoOne
    Browser <- MCBrowser
    Node <- MCNode
    StaleRun = 1
SPECIFICATION FairRunSpec
INVARIANT OwnerMatchesExecutor
PROPERTY LiveBrowserKeepsRun
PROPERTY ServerNeverRevives
PROPERTY ClosedBrowserYields
