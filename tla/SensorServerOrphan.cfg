SPECIFICATION Spec
CONSTANTS
    garage = garage
    t1 = t1
    t2 = t2
    None = None
    Sensor <- MCOneSensor
    Timer <- MCTwoTimers
    Reports <- MCDoorReports
    Events <- MCRepeats
    Faulty <- MCNoFaults
    MockMode = FALSE
PROPERTY AlarmOnlyWhileOpen
