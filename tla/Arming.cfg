SPECIFICATION Spec
CONSTANTS
    garage = garage
    shed = shed
    q1 = q1
    q2 = q2
    q3 = q3
    None = None
    Sensor <- MCSensor
    Request <- MCThreeRequests
    Faulty <- MCAllFaults
    Text <- MCText
CHECK_DEADLOCK FALSE
SYMMETRY ArmingSymmetry
INVARIANT TypeOK
INVARIANT HAFollowsRedis
PROPERTY AllMeansAll
PROPERTY ToggleSwitches
