CONSTANTS
    p1 = p1  p2 = p2  h1 = h1  h2 = h2  h3 = h3  e1 = e1
    Procs <- TwoProcs
    Handles <- TwoHandles
    Endpoints <- MCEndpoints
    TreeNames <- MCTreeNames
    Served <- MCServed
    CallerOps <- AllOps
    MaxMux = 3
    MaxOps = 2
    NoHandle = NoHandle
    NoMux = NoMux
SPECIFICATION Spec
SYMMETRY Symmetry
INVARIANT TypeOK
INVARIANT CachedIsLiveOrEvicting
 
\* Redial of a live handle deadlocks with its watcher (run redial_deadlock).
CHECK_DEADLOCK FALSE
