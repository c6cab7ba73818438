SPECIFICATION FairSpec
CONSTANTS
    garage = garage
    t1 = t1
    t2 = t2
    None = None
    Sensor <- MCOneSensor
    Timer <- MCTwoTimers
    Reports <- MCDoorReports
    Events <- MCAllButRestart
    Faulty <- MCNoFaults
    MockMode = FALSE
PROPERTY OpeningIsTimedOut
PROPERTY LapseIsRecorded
