SPECIFICATION FairSpec
CONSTANTS
    garage = garage
    shed = shed
    q1 = q1
    q2 = q2
    q3 = q3
    None = None
    Source <- MCSource
    Request <- MCTwoRequests
    Minutes <- MCMinutes
    Capacity = 1
    SelectsBreakOff = FALSE
PROPERTY UpdatesReachTimers
