\* Three callers come and go.
CONSTANTS
    Callers  = {p1, p2, p3}
    MaxSlot  = 3
    MaxQueue = 3
    Versions = {v1}
    None     = None
SPECIFICATION Spec
SYMMETRY Symmetry
INVARIANT ObserverStaysSubscribed
