\* One caller on one connection: a Subscription may be authorized before the
\* Unsubscribe that went out before it.
CONSTANTS
    Callers        = {p1}
    MaxSlot        = 1
    MaxQueue       = 2
    Instances      = {i1}
    Calls          = {s1}
    MaxConnections = 1
    MaxFlight      = 2
    MayReopen      = TRUE
    Authorizes     = TRUE
    Versions       = {v1}
    None           = None
SPECIFICATION Spec
INVARIANT ObserverIsServed
\* the connection is used up
CHECK_DEADLOCK FALSE
