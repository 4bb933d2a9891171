CONSTANTS
    b1 = b1
    n1 = n1
    n2 = n2
    t1 = t1
    t2 = t2
    NoOne = NoOne
    Browser <- MCNone
    Node <- MCTwoNodes
    Task <- MCTwoTasks
    StaleRun = 0
    StaleExt = 0
    StaleNode = 1
    TickMax = 1
    MaxGrants <- MCFirstThrice
    Outcomes <- MCFewOutcomes
    Gates <- MCOpenGates
SPECIFICATION Spec
SYMMETRY MCSymmetry
INVARIANT OneHolder
INVARIANT TaskAgreesWithApplication
INVARIANT ChallengeReleasesBatch
