------------------------ MODULE ClientSubscriptions ------------------------
(***************************************************************************)
(* The client side of one subscription id: client/src/subscriptions, the   *)
(* subscription queue (client/src/queue.ts) and the connection handlers of *)
(* client/src/Client.ts.  Callers of observe() and get() share one entry   *)
(* of client.subscriptions, one cached value and one queue of requests.    *)
(*                                                                         *)
(* The subscription is to a function by name, nobody logs in or out, and   *)
(* callbacks do not call back into the client before they return.          *)
(***************************************************************************)
EXTENDS Messages, Naturals, Sequences, FiniteSets

CONSTANTS
    Callers,   \* who calls observe() and get(); one call each at a time
    MaxSlot,   \* bounds subscription.cnt
    MaxQueue   \* bounds the length of client.subscriptionQueue

ASSUME MaxSlotIsNat == MaxSlot \in Nat
ASSUME NoneIsNoCaller == None \notin Callers

VARIABLES
    connected,    \* client.connected
    cnt,          \* subscription.cnt; 0 when client.subscriptions has no entry
    subscribers,  \* subscription.subscribers
    call,         \* what each caller is doing
    handle,       \* the subscriberId that the caller's close function removes
    view,         \* the value each caller was given last
    cache,        \* client.cache[id]
    queue,        \* client.subscriptionQueue
    draining,     \* client.drainInProgress: the timer of drainQueue is set
    asked         \* history: what the frames sent on this connection asked
                  \* the server for: "nothing", "get", "sub" or to "stop"

vars == <<connected, cnt, subscribers, call, handle, view, cache, queue,
          draining, asked>>

Slots == 1..MaxSlot

\* A subscriber: get() has no onData; onInitial is deleted once it was called.
Subscriber(p, onData, onInitial) ==
    [caller |-> p, onData |-> onData, onInitial |-> onInitial]

Vacant == Subscriber(None, FALSE, FALSE)

Occupied == {s \in Slots : subscribers[s].caller # None}
Pending  == {s \in Occupied : subscribers[s].onInitial}
OnlyGets == \A s \in Occupied : ~subscribers[s].onData

NoCache == [value |-> None, checksum |-> None]
Cached(value, checksum) == [value |-> value, checksum |-> checksum]
-----------------------------------------------------------------------------
(***************************************************************************)
(* The queue.                                                              *)
(***************************************************************************)
\* The queue is gone through once, what has one of the types is taken out.
Without(q, types) ==
    LET rest[n \in 0..Len(q)] ==
            IF n = 0 THEN <<>>
            ELSE IF q[n].type \in types THEN rest[n - 1]
            ELSE Append(rest[n - 1], q[n])
    IN  rest[Len(q)]

Positions(q, type) == {i \in DOMAIN q : q[i].type = type}

Queued(type) == Positions(queue, type) # {}

\* addToQueue(): append, and set the drain timer when there is a connection.
Push(q, m) ==
    /\ Len(q) < MaxQueue
    /\ queue' = Append(q, m)
    /\ draining' = (draining \/ connected)

KeepQueue == UNCHANGED <<queue, draining>>

\* The entry is deleted: what it asked for is withdrawn.
PushUnsubscribe ==
    LET q == Without(queue, {"Subscription", "SendSubscriptionData"})
    IN IF Queued("Unsubscribe") THEN queue' = q /\ UNCHANGED draining
       ELSE Push(q, UnsubscribeMsg)

\* removeSubscriber() for the subscribers in slots R, which are occupied.
Release(R) ==
    /\ cnt' = cnt - Cardinality(R)
    /\ IF R # {} /\ cnt = Cardinality(R) THEN PushUnsubscribe ELSE KeepQueue
-----------------------------------------------------------------------------
Init ==
    /\ connected = FALSE
    /\ cnt = 0
    /\ subscribers = [s \in Slots |-> Vacant]
    /\ call = [p \in Callers |-> "idle"]
    /\ handle = [p \in Callers |-> 0]
    /\ view = [p \in Callers |-> None]
    /\ cache = NoCache
    /\ queue = <<>>
    /\ draining = FALSE
    /\ asked = "nothing"

\* Mutant of Join: cnt + 1 in place of ++cnt when there is an entry.
JoinUncounted(p, onData, onInitial) ==
    /\ cnt < MaxSlot
    /\ cnt' = IF cnt = 0 THEN 1 ELSE cnt
    /\ subscribers' = [subscribers EXCEPT
            ![cnt + 1] = Subscriber(p, onData, onInitial)]
    /\ handle' = [handle EXCEPT ![p] = cnt + 1]

\* Mutant of Join: the close function is made with the count of before.
JoinStaleHandle(p, onData, onInitial) ==
    /\ cnt < MaxSlot
    /\ cnt' = cnt + 1
    /\ subscribers' = [subscribers EXCEPT
            ![cnt + 1] = Subscriber(p, onData, onInitial)]
    /\ handle' = [handle EXCEPT ![p] = cnt]

\* The caller p gets the next subscriberId, which is the count.
Join(p, onData, onInitial) ==
    /\ cnt < MaxSlot
    /\ cnt' = cnt + 1
    /\ subscribers' = [subscribers EXCEPT
            ![cnt + 1] = Subscriber(p, onData, onInitial)]
    /\ handle' = [handle EXCEPT ![p] = cnt + 1]

\* observe().  With a cached value it resolves and calls onData at once.  No
\* Subscription can be queued for a new entry (QueueMatchesEntry), so the
\* branch that rewrites one is not here.
Observe(p) ==
    LET hit == cache # NoCache IN
    /\ call[p] = "idle"
    /\ Join(p, TRUE, ~hit)
    /\ call' = [call EXCEPT ![p] = IF hit THEN "open" ELSE "observe"]
    /\ view' = IF hit THEN [view EXCEPT ![p] = cache.value] ELSE view
    /\ \/ /\ cnt = 0
          /\ Push(Without(queue, {"Unsubscribe", "SendSubscriptionData",
                                  "GetSubscription"}),
                  SubscribeMsg(cache.checksum, IF hit THEN "both" ELSE "sub"))
       \/ /\ cnt # 0 /\ OnlyGets
          /\ Push(Without(queue, {"GetSubscription"}),
                  SubscribeMsg(cache.checksum, "both"))
       \/ cnt # 0 /\ ~OnlyGets /\ KeepQueue
    /\ UNCHANGED <<connected, cache, asked>>

\* get() joins a call that waits, or is answered from the cache ...
GetFromCache(p) ==
    /\ call[p] = "idle"
    /\ cnt # 0 /\ cache # NoCache
    /\ view' = [view EXCEPT ![p] = cache.value]
    /\ UNCHANGED <<connected, cnt, subscribers, call, handle, cache, queue,
                   draining, asked>>

\* ... and makes an entry when there is none, even with a cached value.
GetWaiting(p) ==
    /\ call[p] = "idle"
    /\ cnt = 0 \/ cache = NoCache
    /\ Join(p, FALSE, TRUE)
    /\ call' = [call EXCEPT ![p] = "get"]
    /\ IF cnt # 0 THEN KeepQueue
       ELSE LET q == Without(queue, {"Unsubscribe", "SendSubscriptionData"})
            IN IF Queued("GetSubscription") THEN queue' = q /\ UNCHANGED draining
               ELSE Push(q, GetMsg(cache.checksum))
    /\ UNCHANGED <<connected, view, cache, asked>>

\* The close function removes whoever is at the subscriberId it was made for.
Close(p) ==
    LET R == {handle[p]} \cap Occupied IN
    /\ call[p] = "open"
    /\ call' = [call EXCEPT ![p] = "idle"]
    /\ subscribers' = [s \in Slots |-> IF s \in R THEN Vacant ELSE subscribers[s]]
    /\ Release(R)
    /\ UNCHANGED <<connected, handle, view, cache, asked>>
-----------------------------------------------------------------------------
(***************************************************************************)
(* Messages from the server.  Most end the calls that wait for an answer:  *)
(* the subscribers in slots R leave, the others have their onInitial       *)
(* called; an observe() that waits becomes `waiter`.                       *)
(***************************************************************************)
Settle(R, waiter) ==
    /\ subscribers' = [s \in Slots |->
            IF s \in R THEN Vacant
            ELSE [subscribers[s] EXCEPT !.onInitial = FALSE]]
    /\ call' = [p \in Callers |->
            IF \A s \in Pending : subscribers[s].caller # p THEN call[p]
            ELSE IF call[p] = "observe" THEN waiter ELSE "idle"]
    /\ Release(R)

Getters == {s \in Pending : ~subscribers[s].onData}

\* Mutant of Give: onData is only called for who waits.
GivePending(slots, v) ==
    view' = [p \in Callers |->
        IF \E s \in slots \cap Pending : subscribers[s].caller = p THEN v
        ELSE view[p]]

Give(slots, v) ==
    view' = [p \in Callers |->
        IF \E s \in slots : subscribers[s].caller = p THEN v ELSE view[p]]

\* A non-auth error: every call that waits is rejected and removed.
Reject ==
    /\ Settle(Pending, "idle")
    /\ UNCHANGED <<view, cache>>

\* What the cache holds already: only get() calls are given the value.
Confirm ==
    /\ Settle(Getters, "open")
    /\ Give(Getters, cache.value)
    /\ UNCHANGED cache

\* A new value for everybody.
Deliver(value, checksum) ==
    /\ cache' = Cached(value, checksum)
    /\ Settle(Getters, "open")
    /\ Give(Occupied, value)

\* A diff that does not apply: ask for the data.
Refetch(c) ==
    /\ cache' = c
    /\ Push(queue, SendDataMsg)
    /\ UNCHANGED <<cnt, subscribers, call, view>>

IncomingSubscription(m) ==
    \/ m.type = "error" /\ Reject
    \/ /\ m.type \in {"data", "same"}
       /\ IF m.checksum = cache.checksum THEN Confirm
          ELSE Deliver(IF m.type = "data" THEN m.checksum ELSE None, m.checksum)

\* applyPatch() works on the value that the diff was made from, and is taken
\* to fail on any other.
IncomingSubscriptionDiff(m) ==
    /\ m.type = "diff"
    /\ IF cache.checksum = m.checksum /\ cache.checksum # m.from THEN Confirm
       ELSE IF cache.checksum # m.from THEN Refetch(cache)
       ELSE IF cache.value # m.from THEN Refetch(NoCache)
       ELSE Deliver(m.checksum, m.checksum)

Receive(m) ==
    /\ connected
    /\ asked # "nothing"  \* a server only answers
    /\ IF cnt = 0 THEN UNCHANGED vars
       ELSE /\ IncomingSubscription(m) \/ IncomingSubscriptionDiff(m)
            /\ UNCHANGED <<connected, handle, asked>>
-----------------------------------------------------------------------------
(***************************************************************************)
(* The connection.                                                         *)
(***************************************************************************)
\* A Subscription stands until an Unsubscribe; a get does not replace it.
AskedAfter(q) ==
    LET stops == Positions(q, "Unsubscribe")
        rest  == {i \in DOMAIN q : \A j \in stops : j < i}
        Asks(type) == rest \cap Positions(q, type) # {}
    IN IF Asks("Subscription") \/ (asked = "sub" /\ stops = {}) THEN "sub"
       ELSE IF Asks("GetSubscription") THEN "get"
       ELSE IF stops # {} THEN "stop" ELSE asked

\* The timer of drainQueue: everything queued goes out in one frame.
Drain ==
    /\ draining
    /\ draining' = FALSE
    /\ queue' = <<>>
    /\ asked' = AskedAfter(queue)
    /\ UNCHANGED <<connected, cnt, subscribers, call, handle, view, cache>>

\* q with the checksum of its last message of a type brought up to date.
Refresh(q, type) ==
    LET P == Positions(q, type)
        i == CHOOSE i \in P : \A j \in P : j <= i
    IN IF cache = NoCache THEN q ELSE [q EXCEPT ![i].checksum = cache.checksum]

\* Mutant of SendAllSubscriptions: it does not look for a queued get.
SendAllAnyway ==
    IF cnt = 0 THEN queue' = queue
    ELSE IF Queued("Subscription") THEN queue' = Refresh(queue, "Subscription")
    ELSE /\ Len(queue) < MaxQueue
         /\ queue' = Append(queue, SubscribeMsg(cache.checksum, "sub"))

\* sendAllSubscriptions(), for this id, without its assertion that a Get and
\* a Subscription are not both queued (QueueMatchesEntry).
SendAllSubscriptions ==
    LET q == Without(queue, {"GetSubscription"}) IN
    IF cnt = 0 THEN queue' = queue
    ELSE IF Queued("GetSubscription") /\ OnlyGets
    THEN queue' = Refresh(queue, "GetSubscription")
    ELSE IF Queued("Subscription") THEN queue' = Refresh(q, "Subscription")
    ELSE /\ Len(q) < MaxQueue
         /\ queue' = Append(q, SubscribeMsg(cache.checksum,
                IF Queued("GetSubscription") THEN "both" ELSE "sub"))

\* Mutant of Connect: what the last connection was asked for is not repeated.
ConnectSilently ==
    /\ ~connected
    /\ connected' = TRUE
    /\ queue' = queue
    /\ draining' = (queue # <<>>)
    /\ UNCHANGED <<cnt, subscribers, call, handle, view, cache, asked>>

\* onOpen()
Connect ==
    /\ ~connected
    /\ connected' = TRUE
    /\ SendAllSubscriptions
    /\ draining' = (queue' # <<>>)
    /\ UNCHANGED <<cnt, subscribers, call, handle, view, cache, asked>>

\* onClose()
Disconnect ==
    /\ connected
    /\ connected' = FALSE
    /\ draining' = FALSE
    /\ queue' = Without(queue, {"Unsubscribe", "SendSubscriptionData"})
    /\ asked' = "nothing"
    /\ UNCHANGED <<cnt, subscribers, call, handle, view, cache>>

\* What the server may send: a diff is between two versions.
Incoming ==
    {Error} \cup {Full(v) : v \in Versions} \cup {Same(v) : v \in Versions}
    \cup {Diff(p[1], p[2]) : p \in {x \in Versions \X Versions : x[1] # x[2]}}

Next ==
    \/ \E p \in Callers : Observe(p) \/ GetFromCache(p) \/ GetWaiting(p) \/ Close(p)
    \/ \E m \in Incoming : Receive(m)
    \/ Drain \/ Connect \/ Disconnect

Spec == Init /\ [][Next]_vars
-----------------------------------------------------------------------------
(***************************************************************************)
(* Properties.                                                             *)
(***************************************************************************)
\* The entry, its callers and the cache have their types.
EntryTypeOK ==
    /\ cnt \in 0..MaxSlot
    /\ subscribers \in [Slots -> [caller : Callers \cup {None},
                                  onData : BOOLEAN, onInitial : BOOLEAN]]
    /\ call \in [Callers -> {"idle", "get", "observe", "open"}]
    /\ handle \in [Callers -> 0..MaxSlot]
    /\ view \in [Callers -> VersionOrNone]
    /\ cache \in [value : VersionOrNone, checksum : VersionOrNone]

\* Every variable has its type.
TypeOK ==
    /\ EntryTypeOK
    /\ connected \in BOOLEAN /\ draining \in BOOLEAN
    /\ asked \in {"nothing", "get", "sub", "stop"}
    /\ queue \in Seq(Upstream)

\* cnt, which addSubscriber() uses as the next id and removeSubscriber() as
\* the number of subscribers, is at least that number: the entry is never
\* deleted, and the server never told to stop, under a remaining subscriber.
CountCoversSubscribers == Cardinality(Occupied) <= cnt

\* Whoever observes and still has a subscriber was given the value that is
\* cached, on every path that writes the cache; a caller of observe() waits
\* only while nothing is cached.
ObserversAgree ==
    \A s \in Occupied : subscribers[s].onData /\ cache # NoCache =>
        /\ ~subscribers[s].onInitial
        /\ view[subscribers[s].caller] = cache.value

\* A caller that has a subscriber closes that one: what the caller waits for
\* and the slot it would close agree with the subscriber.  An answered get()
\* leaves none.
HandlesMatch ==
    \A s \in Occupied :
        LET p == subscribers[s].caller IN
        /\ handle[p] = s
        /\ subscribers[s].onData \/ subscribers[s].onInitial
        /\ call[p] = IF ~subscribers[s].onData THEN "get"
                     ELSE IF subscribers[s].onInitial THEN "observe" ELSE "open"

\* The queue asks for what the entry needs: nothing is asked for without an
\* entry but a get that was withdrawn, and no Unsubscribe meets an entry.  And
\* what sendAllSubscriptions() calls 'GET IN Q AND SUB IN Q SHOULD BE
\* IMPOSSIBLE' is impossible.
QueueMatchesEntry ==
    /\ Queued("Subscription") \/ Queued("SendSubscriptionData") => cnt # 0
    /\ Queued("Unsubscribe") => cnt = 0
    /\ ~(Queued("GetSubscription") /\ Queued("Subscription"))

\* While connected, the server was or will be asked for what the subscribers
\* need, a subscription if one observes, and to stop one that has no entry.
ServerIsAsked ==
    connected =>
        /\ Occupied # {} => \/ Queued("Subscription") \/ asked = "sub"
                            \/ OnlyGets /\ (Queued("GetSubscription") \/ asked = "get")
        /\ cnt = 0 /\ asked = "sub" => Queued("Unsubscribe")

\* "an onData function that will get called any time the data that the query
\* points to changes": a caller that did not close is still a subscriber.
ObserverStaysSubscribed ==
    \A p \in Callers : call[p] = "open" =>
        \E s \in Occupied : subscribers[s].caller = p
=============================================================================
