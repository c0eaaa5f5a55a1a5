\* Start-up of totpinit with requests at any time and late server failures.
CONSTANTS
    r1 = r1  r2 = r2
    Requests <- TwoRequests
    MaxTries = 2
    LateFail = TRUE
SPECIFICATION Spec
INVARIANT TypeOK
PROPERTY RequestsServedAfterAccess
\* main may wait forever on <-accessed (no browser, or a server that died).
CHECK_DEADLOCK FALSE
