SPECIFICATION FairSpec
CONSTANTS
    b1 = b1
    b2 = b2
    h1 = h1
    h2 = h2
    Task <- ThreeTasks
    Board <- TwoBoards
    BoardOf <- LastElsewhere
    BoardLimit = 1
    SessionLimit = 2
    Handler <- TwoHandlers
    MaxEvents = 2
CHECK_DEADLOCK FALSE
INVARIANTS
    StopIsSoon
    RefusingBoardsLeftAlone
    ResetWaitsForCycle
PROPERTIES
    StartIsServed
    QueueDrains
