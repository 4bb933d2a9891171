CONSTANTS
    b1 = b1
    n1 = n1
    n2 = n2
    t1 = t1
    t2 = t2
    NoOne = NoOne
    Browser <- MCOneBrowser
    Node <- MCOneNode
    Task <- MCOneTask
    StaleRun = 0
    StaleExt = 0
    StaleNode = 0
    TickMax = 0
    MaxGrants <- MCTwice
    Outcomes <- MCDistinctOutcomes
    Gates <- MCOpenGates
SPECIFICATION Spec
INVARIANT SubmittedIsReal
INVARIANT PauseStopsSoon
INVARIANT ResendExcused
PROPERTY RunRowImplemented
