\* Two callers come and go, over a connection that breaks; one lookup at a time.
CONSTANTS
    Callers        = {p1, p2}
    MaxSlot        = 2
    MaxQueue       = 2
    Instances      = {i1, i2}
    Calls          = {s1}
    MaxConnections = 2
    MaxFlight      = 1
    MayReopen      = TRUE
    Authorizes     = FALSE
    Versions       = {v1}
    None           = None
SPECIFICATION Spec
SYMMETRY Symmetry
INVARIANT ObserverIsServed
\* the connections are used up
CHECK_DEADLOCK FALSE
