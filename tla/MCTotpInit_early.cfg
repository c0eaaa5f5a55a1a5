\* A request that comes before main makes `accessed`.
CONSTANTS
    r1 = r1  r2 = r2
    Requests <- TwoRequests
    MaxTries = 0
    LateFail = FALSE
SPECIFICATION Spec
PROPERTY AccessUnblocksMain
CHECK_DEADLOCK FALSE
