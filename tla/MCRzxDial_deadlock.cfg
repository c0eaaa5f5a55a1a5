CONSTANTS
    p1 = p1  p2 = p2  h1 = h1  h2 = h2  h3 = h3  e1 = e1
    Procs <- OneProc
    Handles <- MCHandles
    Endpoints <- MCEndpoints
    TreeNames <- MCTreeNames
    Served <- MCServed
    CallerOps <- AllOps
    MaxMux = 3
    MaxOps = 2
    NoHandle = NoHandle
    NoMux = NoMux
SPECIFICATION Spec
PROPERTY RedialReturns
CHECK_DEADLOCK FALSE
