CONSTANTS
    b1 = b1
    n1 = n1
    n2 = n2
    t1 = t1
    t2 = t2
    NoOne = NoOne
    Browser <- MCOneBrowser
    Node <- MCOneNode
    Task <- MCOneTask
    StaleRun = 0
    StaleExt = 0
    StaleNode = 1
    TickMax = 1
    MaxGrants <- MCOnce
    Outcomes <- MCFailureOrChallenge
    Gates <- MCAnyGates
SPECIFICATION FairSpec
PROPERTY NodeLeaseReturns
