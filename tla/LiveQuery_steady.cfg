\* Callers of one program that never reopens a live subscription.
CONSTANTS
    Callers        = {p1}
    MaxSlot        = 1
    MaxQueue       = 2
    Instances      = {i1, i2}
    Calls          = {s1, s2}
    MaxConnections = 2
    MaxFlight      = 3
    MayReopen      = FALSE
    Authorizes     = TRUE
    Versions       = {v1, v2}
    None           = None
SPECIFICATION Spec
SYMMETRY Symmetry
INVARIANTS
    Converged
    ObserverSees
    CacheIsGenuine
\* the connections are used up
CHECK_DEADLOCK FALSE
