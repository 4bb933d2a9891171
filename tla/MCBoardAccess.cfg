CONSTANTS
    t1 = t1
    t2 = t2
    t3 = t3
    n1 = n1
    f1 = f1
    NoTask = NoTask
    Task <- ThreeTasks
    Node <- OneNode
    Form <- OneForm
    Queued <- TwoTasks
    Batch = 2
    Retry = 1
    Short = 1
    Long = 2
    Lockout = 2
    FailureLimit = 2
    MaxEvents = 2
SPECIFICATION FairSpec
PROPERTY TasksAreServed
CHECK_DEADLOCK FALSE
INVARIANT PausesHold
INVARIANT LoginsGiveUp
INVARIANT DisconnectIsFinal
