\* A diff that answers subscribe() leaves the client with new data under the
\* old checksum.
SPECIFICATION Spec
CONSTANTS
    Clients = {c1}
    MaxObs = 1
    MaxTicks = 2
INVARIANT ConfigCacheIsGenuine
CHECK_DEADLOCK FALSE
