SPECIFICATION Spec
CONSTANTS
    None = None
    Clients = {c1, c2}
    MaxQueue = 2
    MaxTotal = 4
    MaxSends = 4
    Strings = {2, 3}
    MaxVersion = 3
    MaxCount = 3
    ConfigClients = {c1}
    MaxObs = 2
    MaxTicks = 2
    UserClients = {c1}
    MaxRuns = 2
    Tokens = {t1, t2}
    NoToken = NoToken
    Subs = {s1}
    Runs = {r1, r2}
    MaxAuths = 2
    Callers = {1, 2}
    MaxIds = 3
    Ops = {o1, o2}
    Names = {n1, n2}
    Keys = {k1}
    MaxTracks = 4
    MaxSockets = 3
    TreeSize = 4
    HttpRequests = {q1, q2}
    MaxChunks = 2
    Uploads = {u1, u2}
    Size = 2
    MaxFiles = 3
    MaxLines = 10
INVARIANTS
    TotalCoversQueues
    UsedIsKept
    ListedIsCurrent
    
    UserCountExact
    UserRunsEnd
    UnpackedIsAccounted
    RequestAccounted
    OnlyGrantedHandled
    ListenersOwned
    ActivityAgrees
    NeverStranded
    ShapeKept
    TokenInStep
    AnsweredOnce
    ProgressTrue
    FilesEnd
    SureFirst
    SuccessIsTrue
PROPERTIES
    ImplementsDelivery
    SentGoesOut
    UnusedIsRemoved
    ConfigGetAnswered
    RequestEnds
    ClearsOnlyIdle
    IdleIsForgotten
\* A part may be done: bounds are reached, a command of the cli has ended.
CHECK_DEADLOCK FALSE
