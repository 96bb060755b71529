\* An update crosses the close of the only observer, who comes back.
CONSTANTS
    Callers        = {p1}
    MaxSlot        = 2
    MaxQueue       = 2
    Instances      = {i1, i2}
    Calls          = {s1}
    MaxConnections = 1
    MaxFlight      = 2
    MayReopen      = TRUE
    Authorizes     = FALSE
    Versions       = {v1, v2}
    None           = None
SPECIFICATION Spec
SYMMETRY Symmetry
INVARIANT Converged
\* the connection is used up
CHECK_DEADLOCK FALSE
