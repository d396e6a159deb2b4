SPECIFICATION DelayedSpec
CONSTANTS
    CheckedIPs = {"a"}
    Large <- IsLarge
    Exempt <- Never
    CnameIPs <- NoIPs
    Earlier <- NoIPs
    Window = 2
    DnsWait = 3
    AwaitMain = FALSE
    QueueThreadRuns = TRUE
    Groups <- CheckGroups
    MaxFlowTime = 3
    MaxTasks = 2
INVARIANT StopsOnlyWhenAsked
CHECK_DEADLOCK FALSE
