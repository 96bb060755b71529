------------------------------ MODULE Messages ------------------------------
(***************************************************************************)
(* The messages between a client and a server about one subscription id    *)
(* (packages/types: SubscriptionData, SubscriptionDiffData, and the        *)
(* subscription requests).  A payload is identified with its checksum: the *)
(* server hashes the published object, so the model keeps the version and  *)
(* drops the object.                                                       *)
(***************************************************************************)
CONSTANTS
    Versions,  \* checksums of the objects an observable function publishes
    None       \* "no checksum": undefined or 0 in the code

ASSUME NoneIsNoVersion == None \notin Versions

VersionOrNone == Versions \cup {None}

Message(type, from, checksum) ==
    [type |-> type, from |-> from, checksum |-> checksum]

NoMsg      == Message("none", None, None)  \* nothing was sent
Full(v)    == Message("data", None, v)     \* [1, id, data, v]
Same(v)    == Message("same", None, v)     \* [1, id, null, v]: "you have it"
Diff(a, b) == Message("diff", a, b)        \* [2, id, patch, [a, b]]
Error      == Message("error", None, None) \* [1, id, {}, 0, error]

Downstream ==
    [type : {"none", "data", "same", "diff", "error"},
     from : VersionOrNone, checksum : VersionOrNone]

Request(type, checksum, get) ==
    [type |-> type, checksum |-> checksum, get |-> get]

SubscribeMsg(k, get) == Request("Subscription", k, get)
GetMsg(k)            == Request("GetSubscription", k, "get")
UnsubscribeMsg       == Request("Unsubscribe", None, "none")
SendDataMsg          == Request("SendSubscriptionData", None, "none")

Upstream ==
    [type : {"Subscription", "GetSubscription", "Unsubscribe",
             "SendSubscriptionData"},
     checksum : VersionOrNone, get : {"none", "sub", "get", "both"}]
=============================================================================
