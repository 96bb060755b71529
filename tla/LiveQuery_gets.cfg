\* A get() when the server still has an entry for the client.
CONSTANTS
    Callers        = {p1}
    MaxSlot        = 2
    MaxQueue       = 2
    Instances      = {i1, i2}
    Calls          = {s1}
    MaxConnections = 1
    MaxFlight      = 2
    MayReopen      = TRUE
    Authorizes     = FALSE
    Versions       = {v1, v2}
    None           = None
SPECIFICATION Spec
SYMMETRY Symmetry
INVARIANT GetsAnswered
\* the connection is used up
CHECK_DEADLOCK FALSE
