\* A connection and a server-side caller, whose lookups overlap.
CONSTANTS
    Clients   = {c1}
    Listeners = {l1}
    Versions  = {v1, v2}
    Instances = {i1, i2}
    Calls     = {s1, s2}
    Authorizes = FALSE
    None      = None
SPECIFICATION Spec
SYMMETRY Symmetry
INVARIANTS
    TypeOK
    InstancesSound
    InstancesCurrent
    RegisteredIsLive
    ListedHasEntry
\* every client may be gone for good
CHECK_DEADLOCK FALSE
