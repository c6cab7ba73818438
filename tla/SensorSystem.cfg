SPECIFICATION Spec
CONSTANTS
    garage = garage
    t1 = t1
    t2 = t2
    None = None
    Sensor <- MCSensor
    Timer <- MCTimer
    Misfortune <- MCMisfortune
    LinkCapacity = 2
    OutletEnabled = FALSE
    ServerEvents <- MCServerEvents
    Faulty <- MCNoFaults
    MockMode = TRUE
SYMMETRY TimerSymmetry
INVARIANT TypeOK
INVARIANT ServerFollowsAgent
PROPERTY FalseAlarmTakesDisturbance
