SPECIFICATION FairSpec
CONSTANTS
    garage = garage
    shed = shed
    q1 = q1
    q2 = q2
    q3 = q3
    None = None
    Source <- MCSource
    Request <- MCThreeRequests
    Minutes <- MCMinutes
    Capacity = 1
    SelectsBreakOff = TRUE
INVARIANT TypeOK
INVARIANT TimersUseStored
INVARIANT StaleOnlyInFlight
PROPERTY PostsAreAnswered
