\* One connection, one lookup: the connection may close while it awaits.
CONSTANTS
    Clients   = {c1}
    Listeners = {}
    Versions  = {v1}
    Instances = {i1}
    Calls     = {s1}
    Authorizes = FALSE
    None      = None
SPECIFICATION Spec
INVARIANT NothingLeftBehind
CHECK_DEADLOCK FALSE
