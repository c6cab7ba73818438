SPECIFICATION ProgramsSpec
CONSTANTS
    p1 = p1
    p2 = p2
    cert = cert
    privkey = privkey
    l1 = l1
    l2 = l2
    garage = garage
    None = None
    Process <- MCProcess
    File <- MCFile
    MaxVersion = 2
    Line <- MCLine
    PipeCapacity = 2
    MaxRestarts = 1
    Limit <- MCLimit
    Period <- MCPeriod
    Needed <- MCNeeded
    MaxOthers = 2
    Sensor <- MCSensor
    Misfortune <- MCMisfortune
    LinkCapacity = 2
INVARIANT ProgramsTypeOK
INVARIANT SuccessLeavesNothing
INVARIANT ChallengeUndisturbed
INVARIANT PidFileNamesServer
INVARIANT OutletFollowsAgent
INVARIANT WaitsOnlyWhileUsedUp
PROPERTY LoadedIsNewest
PROPERTY LinesAreForwarded
PROPERTY StopsOnlyLoops
PROPERTY LoopsAreStopped
PROPERTY FailedStartsAreExplained
PROPERTY ServerIsStarted
