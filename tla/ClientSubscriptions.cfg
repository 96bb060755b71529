\* Three callers and a server that may answer anything.
CONSTANTS
    Callers  = {p1, p2, p3}
    MaxSlot  = 3
    MaxQueue = 3
    Versions = {v1, v2}
    None     = None
SPECIFICATION Spec
SYMMETRY Symmetry
INVARIANTS
    CountCoversSubscribers
    ObserversAgree
    HandlesMatch
    QueueMatchesEntry
    ServerIsAsked
