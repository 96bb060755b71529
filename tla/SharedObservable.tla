-------------------------- MODULE SharedObservable --------------------------
(***************************************************************************)
(* The server side of one shared observable function: the handlers of      *)
(* server/src/handlers/functions/observable/index.ts and the class         *)
(* SharedFunctionObservable, for one subscription id.  `server` keeps at   *)
(* most one registered instance per id, but several instances of the class *)
(* can be alive, because a handler awaits getFunction before it creates    *)
(* one.                                                                    *)
(*                                                                         *)
(* A handler that runs to its end without awaiting is one step.  `sent`    *)
(* is the output of the last step: at most one message per receiver.       *)
(***************************************************************************)
EXTENDS Messages, Naturals, FiniteSets

CONSTANTS
    Clients,    \* Client objects, one per websocket connection
    Listeners,  \* data listeners of server-side callers (BasedServerClient)
    Instances,  \* SharedFunctionObservable objects; bounds how many are made
    Calls,      \* slots for handlers that await getFunction; bounds them
    Authorizes  \* whether frames wait for authorize() before their handlers

ASSUME ClientsFinite == IsFiniteSet(Clients)
ASSUME ReceiversDisjoint == /\ Clients \cap Listeners = {}
                            /\ None \notin Clients \cup Listeners
ASSUME NoneIsNoInstance == None \notin Instances

VARIABLES
    obs,           \* the instances
    registered,    \* server.subscriptions[id]
    subscription,  \* client.subscriptions[id], per client
    closed,        \* clients that were destroyed
    calls,         \* handlers awaiting getFunction
    sent           \* what the last step sent to whom

vars == <<obs, registered, subscription, closed, calls, sent>>

Receivers == Clients \cup Listeners

(***************************************************************************)
(* One instance.  clients[c] is the entry [client, checksum, get] of the   *)
(* class; get is 0 ("sub"), 1 ("get") or 2 ("both"), "none" is no entry.   *)
(* lastDiff is the version jsonDiffCache starts from.  starter is who      *)
(* hears about the failure of a function that has not started yet.         *)
(***************************************************************************)
Flags   == {"none", "sub", "get", "both"}
Entry   == [checksum : VersionOrNone, get : Flags]
NoEntry == [checksum |-> None, get |-> "none"]

Observable ==
    [status : {"unused", "live", "closed"},
     checksum : VersionOrNone, lastDiff : VersionOrNone,
     clients : [Clients -> Entry], clientsCnt : Nat,
     listeners : SUBSET Listeners,
     removeTimer : BOOLEAN,
     starter : Receivers \cup {None}]

Unused ==
    [status |-> "unused", checksum |-> None, lastDiff |-> None,
     clients |-> [c \in Clients |-> NoEntry], clientsCnt |-> 0,
     listeners |-> {}, removeTimer |-> FALSE, starter |-> None]

Subscribers(o) == {c \in Clients : o.clients[c].get # "none"}

\* Mutant of Empty: destroyIfEmpty() does not look at the data listeners.
EmptyOfClients(o) == o.clientsCnt = 0

Empty(o) == o.clientsCnt = 0 /\ o.listeners = {}

\* A new instance.  Its function may publish before its first await.
New(starter, v, d) ==
    [Unused EXCEPT !.status = "live", !.checksum = v, !.lastDiff = d,
                   !.starter = starter]

FirstPublications ==
    {p \in VersionOrNone \X VersionOrNone :
        p[2] # None => p[1] # None /\ p[1] # p[2]}

DestroyIfEmpty(o) == IF Empty(o) THEN [o EXCEPT !.removeTimer = TRUE] ELSE o

Unsubscribe(o, c) ==
    IF o.clients[c].get = "none" THEN o
    ELSE DestroyIfEmpty([o EXCEPT !.clients[c] = NoEntry, !.clientsCnt = @ - 1])

\* Mutant of Reply: a subscriber with any checksum is taken to be up to date.
ReplyIfUncached(o, k, get) ==
    IF o.checksum = None \/ (k # None /\ get = "sub") THEN NoMsg
    ELSE IF k = o.checksum THEN Same(k)
    ELSE IF k # None /\ k = o.lastDiff THEN Diff(k, o.checksum)
    ELSE Full(o.checksum)

\* What subscribe() answers at once to a client that presents checksum k.
Reply(o, k, get) ==
    IF o.checksum = None THEN NoMsg
    ELSE IF k = o.checksum THEN IF get = "sub" THEN NoMsg ELSE Same(k)
    ELSE IF k # None /\ k = o.lastDiff THEN Diff(k, o.checksum)
    ELSE Full(o.checksum)

\* Mutant of Answered: a subscription that is answered leaves no entry either.
AnsweredAny(o, k, get) == Reply(o, k, get) # NoMsg

\* A get that is answered at once leaves no entry.
Answered(o, k, get) == get = "get" /\ Reply(o, k, get) # NoMsg

\* Mutant of Subscribe: the entry is not counted.
SubscribeUncounted(o, c, k, get) ==
    [o EXCEPT !.clients[c] = [checksum |-> k, get |-> get],
              !.removeTimer = FALSE]

Subscribe(o, c, k, get) ==
    IF Answered(o, k, get)
    THEN DestroyIfEmpty([o EXCEPT !.removeTimer = FALSE])
    ELSE [o EXCEPT
            !.clients[c] = [checksum |-> IF o.checksum = None THEN k
                                                              ELSE o.checksum,
                            get |-> get],
            !.clientsCnt = @ + 1,
            !.removeTimer = FALSE]

AddListener(o, l) ==
    [o EXCEPT !.listeners = @ \cup {l},
              !.removeTimer = IF l \in o.listeners THEN @ ELSE FALSE]

RemoveListener(o, l) == DestroyIfEmpty([o EXCEPT !.listeners = @ \ {l}])

\* Mutant of Served: a get is not answered when its checksum is the new one.
ServedIfChanged(o, v) == {c \in Subscribers(o) : o.clients[c].checksum # v}

\* update(): who gets a message, and which gets it ends.
Served(o, v)  == {c \in Subscribers(o) :
                    o.clients[c].checksum # v \/ o.clients[c].get # "sub"}
Leaving(o, v) == {c \in Served(o, v) : o.clients[c].get = "get"}

Publish(o, v, patched) ==
    LET left == [o EXCEPT
            !.checksum = v,
            !.lastDiff = IF patched THEN o.checksum ELSE None,
            !.clients  = [c \in Clients |->
                IF c \in Leaving(o, v) THEN NoEntry
                ELSE IF c \in Served(o, v) THEN [o.clients[c] EXCEPT !.checksum = v]
                ELSE o.clients[c]],
            !.clientsCnt = @ - Cardinality(Leaving(o, v))]
    IN IF Leaving(o, v) = {} THEN left ELSE DestroyIfEmpty(left)

\* Mutant of PublishMsg: whoever wants a reply is told that it has the data.
PublishSame(o, c, v, patched) ==
    IF o.clients[c].get # "sub" THEN Same(v)
    ELSE IF patched THEN Diff(o.checksum, v) ELSE Full(v)

\* The message update() has for a client that it serves.
PublishMsg(o, c, v, patched) ==
    IF o.clients[c].checksum = v THEN Same(v)
    ELSE IF patched THEN Diff(o.checksum, v) ELSE Full(v)
-----------------------------------------------------------------------------
(***************************************************************************)
(* Handlers that await getFunction.                                        *)
(***************************************************************************)
Call(op, who, checksum, get, old) ==
    [op |-> op, who |-> who, checksum |-> checksum, get |-> get, old |-> old]

Idle == Call("idle", None, None, "none", None)

CallRecords ==
    [op : {"idle", "subscribe", "get", "observe"}, who : Receivers \cup {None},
     checksum : VersionOrNone, get : Flags, old : Instances \cup {None}]

Await(call) ==
    \E s \in Calls : calls[s] = Idle /\ calls' = [calls EXCEPT ![s] = call]

Finish(s) == calls' = [calls EXCEPT ![s] = Idle]

\* client.send(): a destroyed client gets nothing; a listener always does.
SendTo(who, msg) ==
    sent' = [r \in Receivers |->
                IF r = who /\ r \notin closed THEN msg ELSE NoMsg]

SendNothing == sent' = [r \in Receivers |-> NoMsg]

\* Mutant of Enter: the client lists the instance even after an answered get.
EnterListed(i, o, c, k, get) ==
    /\ obs' = [obs EXCEPT ![i] = Subscribe(o, c, k, get)]
    /\ subscription' = [subscription EXCEPT ![c] = i]
    /\ SendTo(c, Reply(o, k, get))

\* subscription.subscribe(client, checksum, get) on instance i in state o.
Enter(i, o, c, k, get) ==
    /\ obs' = [obs EXCEPT ![i] = Subscribe(o, c, k, get)]
    /\ subscription' = [subscription EXCEPT
            ![c] = IF Answered(o, k, get) THEN @ ELSE i]
    /\ SendTo(c, Reply(o, k, get))

\* The client has an entry: only the flag that forces a reply may change.
Reflag(i, c, get) ==
    /\ obs' = [obs EXCEPT ![i].clients[c].get = get]
    /\ UNCHANGED subscription
    /\ SendNothing
\* Frames of a closed connection are not read any more, but those that were
\* read before and wait for authorize() are handled all the same.
MayHandle(c) == Authorizes \/ c \notin closed
-----------------------------------------------------------------------------
Init ==
    /\ obs = [i \in Instances |-> Unused]
    /\ registered = None
    /\ subscription = [c \in Clients |-> None]
    /\ closed = {}
    /\ calls = [s \in Calls |-> Idle]
    /\ sent = [r \in Receivers |-> NoMsg]

\* subscribeObservable(): with a registered instance no await is needed.
HandleSubscribe(c, k, get) ==
    /\ MayHandle(c)
    /\ UNCHANGED <<registered, closed>>
    /\ \/ /\ registered = None
          /\ Await(Call("subscribe", c, k, get, None))
          /\ SendNothing
          /\ UNCHANGED <<obs, subscription>>
       \/ /\ registered # None
          /\ UNCHANGED calls
          /\ LET old == obs[registered].clients[c].get
             IN IF old = "none"
                THEN Enter(registered, obs[registered], c, k, get)
                ELSE Reflag(registered, c,
                            IF old = "get" \/ get = "both" THEN "both" ELSE old)

HandleGet(c, k) ==
    /\ MayHandle(c)
    /\ Await(Call("get", c, k, "get", None))
    /\ SendNothing
    /\ UNCHANGED <<obs, registered, subscription, closed>>

\* subscribeFunction(), called by a server-side observe or get.  A listener
\* observes again only after it closed.
Observe(l) ==
    /\ \A i \in Instances : l \notin obs[i].listeners
    /\ \A s \in Calls : calls[s].who # l
    /\ Await(Call("observe", l, None, "none", registered))
    /\ SendNothing
    /\ UNCHANGED <<obs, registered, subscription, closed>>

\* The function does not exist (any more).
NotFound(s) ==
    LET call == calls[s] IN
    /\ call # Idle
    /\ Finish(s)
    /\ UNCHANGED <<registered, subscription, closed>>
    /\ IF call.old = None
       THEN SendTo(call.who, Error) /\ UNCHANGED obs
       ELSE /\ obs' = [obs EXCEPT ![call.old] = AddListener(@, call.who)]
            /\ SendTo(call.who, IF obs[call.old].checksum = None THEN NoMsg
                                ELSE Full(obs[call.old].checksum))

\* The awaiting handler makes an instance and registers it over whatever is
\* registered by now.
CreateFor(s) ==
    LET call == calls[s] IN
    /\ call # Idle
    /\ call.op = "get" => registered = None
    /\ Finish(s)
    /\ UNCHANGED closed
    /\ \E i \in Instances, p \in FirstPublications :
        LET o == New(call.who, p[1], p[2]) IN
        /\ obs[i].status = "unused"
        /\ registered' = i
        /\ IF call.op = "observe"
           THEN /\ obs' = [obs EXCEPT ![i] = AddListener(o, call.who)]
                /\ SendTo(call.who, IF p[1] = None THEN NoMsg ELSE Full(p[1]))
                /\ UNCHANGED subscription
           ELSE Enter(i, o, call.who, call.checksum, call.get)

\* getObservable() reads the registry after its await.
JoinForGet(s) ==
    LET call == calls[s] IN
    /\ call.op = "get"
    /\ registered # None
    /\ Finish(s)
    /\ UNCHANGED <<registered, closed>>
    /\ IF obs[registered].clients[call.who].get = "none"
       THEN Enter(registered, obs[registered], call.who, call.checksum, "get")
       ELSE Reflag(registered, call.who, "both")

HandleUnsubscribe(c) ==
    /\ MayHandle(c)
    /\ subscription[c] # None
    /\ obs' = [obs EXCEPT ![subscription[c]] = Unsubscribe(@, c)]
    /\ subscription' = [subscription EXCEPT ![c] = None]
    /\ SendNothing
    /\ UNCHANGED <<registered, closed, calls>>

HandleSendData(c) ==
    LET i == subscription[c] IN
    /\ MayHandle(c)
    /\ i # None
    /\ obs[i].checksum # None
    /\ obs[i].clients[c].get # "none"
    /\ obs' = [obs EXCEPT ![i].clients[c].checksum = obs[i].checksum]
    /\ SendTo(c, Full(obs[i].checksum))
    /\ UNCHANGED <<registered, subscription, closed, calls>>

\* The socket closes: Client.destroy() unsubscribes what the client lists.
Close(c) ==
    /\ c \notin closed
    /\ closed' = closed \cup {c}
    /\ subscription' = [subscription EXCEPT ![c] = None]
    /\ obs' = IF subscription[c] = None THEN obs
              ELSE [obs EXCEPT ![subscription[c]] = Unsubscribe(@, c)]
    /\ SendNothing
    /\ UNCHANGED <<registered, calls>>

CloseListener(i, l) ==
    /\ l \in obs[i].listeners
    /\ obs' = [obs EXCEPT ![i] = RemoveListener(@, l)]
    /\ SendNothing
    /\ UNCHANGED <<registered, subscription, closed, calls>>

\* The function publishes version v; patched says whether createPatch worked.
Update(i, v, patched) ==
    LET o == obs[i] IN
    /\ o.status # "unused"
    /\ v # o.checksum
    /\ patched => o.checksum # None
    /\ obs' = [obs EXCEPT ![i] = Publish(@, v, patched)]
    /\ subscription' = [c \in Clients |->
            IF c \in Leaving(o, v) THEN None ELSE subscription[c]]
    /\ sent' = [r \in Receivers |->
            IF r \in o.listeners THEN Full(v)
            ELSE IF r \in Served(o, v) \ closed THEN PublishMsg(o, r, v, patched)
            ELSE NoMsg]
    /\ UNCHANGED <<registered, closed, calls>>

FunctionStarted(i) ==
    /\ obs[i].starter # None
    /\ obs' = [obs EXCEPT ![i].starter = None]
    /\ SendNothing
    /\ UNCHANGED <<registered, subscription, closed, calls>>

\* The function's promise rejects: only the one who made the instance hears.
FunctionFailed(i) ==
    /\ obs[i].starter # None
    /\ obs' = [obs EXCEPT ![i].starter = None]
    /\ SendTo(obs[i].starter, Error)
    /\ UNCHANGED <<registered, subscription, closed, calls>>

\* Mutant of RemoveTimeout: the removed instance stays registered.
RemoveTimeoutOnly(i) ==
    /\ obs[i].removeTimer
    /\ obs' = [obs EXCEPT ![i].removeTimer = FALSE, ![i].status = "closed"]
    /\ SendNothing
    /\ UNCHANGED <<registered, subscription, closed, calls>>

\* Five seconds empty.  The registry entry goes, whoever is registered.
RemoveTimeout(i) ==
    /\ obs[i].removeTimer
    /\ obs' = [obs EXCEPT ![i].removeTimer = FALSE, ![i].status = "closed"]
    /\ registered' = None
    /\ SendNothing
    /\ UNCHANGED <<subscription, closed, calls>>

Next ==
    \/ \E c \in Clients, k \in VersionOrNone :
        \/ \E get \in {"sub", "both"} : HandleSubscribe(c, k, get)
        \/ HandleGet(c, k)
    \/ \E c \in Clients : HandleUnsubscribe(c) \/ HandleSendData(c) \/ Close(c)
    \/ \E l \in Listeners : Observe(l)
    \/ \E s \in Calls : NotFound(s) \/ CreateFor(s) \/ JoinForGet(s)
    \/ \E i \in Instances :
        \/ \E v \in Versions, patched \in BOOLEAN : Update(i, v, patched)
        \/ \E l \in Listeners : CloseListener(i, l)
        \/ FunctionStarted(i) \/ FunctionFailed(i) \/ RemoveTimeout(i)

Spec == Init /\ [][Next]_vars
-----------------------------------------------------------------------------
(***************************************************************************)
(* Properties.                                                             *)
(***************************************************************************)
\* Every variable has its type.
TypeOK ==
    /\ obs \in [Instances -> Observable]
    /\ registered \in Instances \cup {None}
    /\ subscription \in [Clients -> Instances \cup {None}]
    /\ closed \subseteq Clients
    /\ calls \in [Calls -> CallRecords]
    /\ sent \in [Receivers -> Downstream]

\* The counter clientsCnt that subscribe() raises without looking and
\* unsubscribe() lowers always is the number of entries, so the instance is
\* found empty exactly when its last client has left.
CountIsExact(o) == o.clientsCnt = Cardinality(Subscribers(o))

\* A removal timer runs only while nobody uses the instance, and a live
\* instance that nobody uses has one: it is neither removed under a
\* subscriber nor kept for ever when empty.
RemovalIsDue(o) ==
    LET unusedNow == Subscribers(o) = {} /\ o.listeners = {} IN
    /\ o.removeTimer => unusedNow
    /\ o.status = "live" /\ unusedNow => o.removeTimer

\* An instance that was removed or not yet made serves no client.
OnlyLiveServes(o) == o.status # "live" => Subscribers(o) = {}

\* Once a version is published, every entry holds that version, so the next
\* diff applies to what each client was sent, and no get is left waiting.
EntriesAreCurrent(o) ==
    o.checksum # None =>
        \A c \in Subscribers(o) :
            o.clients[c].checksum = o.checksum /\ o.clients[c].get # "get"

InstancesSound ==
    \A i \in Instances :
        /\ CountIsExact(obs[i])
        /\ RemovalIsDue(obs[i])
        /\ OnlyLiveServes(obs[i])

InstancesCurrent == \A i \in Instances : EntriesAreCurrent(obs[i])

\* server.subscriptions never names an instance that was removed: a client
\* that finds an instance there will be served.
RegisteredIsLive == registered # None => obs[registered].status = "live"

\* client.subscriptions never names an instance without an entry for the
\* client: unsubscribe and destroy never miss what they look for.
ListedHasEntry ==
    \A c \in Clients : subscription[c] # None =>
        c \in Subscribers(obs[subscription[c]])

\* The tests of functions.ts expect that `server.subscriptions` is empty some
\* seconds after every client has gone.
NothingLeftBehind ==
    /\ closed = Clients
    /\ \A s \in Calls : calls[s] = Idle
    /\ \A i \in Instances : obs[i].listeners = {} /\ ~obs[i].removeTimer
    => registered = None
=============================================================================
