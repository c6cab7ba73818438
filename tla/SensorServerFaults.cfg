SPECIFICATION Spec
CONSTANTS
    garage = garage
    t1 = t1
    t2 = t2
    None = None
    Sensor <- MCOneSensor
    Timer <- MCTwoTimers
    Reports <- MCAllReports
    Events <- MCAllButArm
    Faulty <- MCStoreFaults
    MockMode = FALSE
SYMMETRY TimerSymmetry
INVARIANT TypeOK
INVARIANT ViewsAgree
INVARIANT TimerMatchesState
PROPERTY ArmedOpeningAnnounced
PROPERTY MonitorsDoors
