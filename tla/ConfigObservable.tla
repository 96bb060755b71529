-------------------------- MODULE ConfigObservable --------------------------
(***************************************************************************)
(* The observable "$configuration" (packages/server:                       *)
(* handlers/configuration).  Each instance publishes once a second; its    *)
(* data is abstracted to the count of its publications, which is also its  *)
(* version.  Every client listens under one id, so there is one entry of   *)
(* server.subscriptions, `current`, however many instances were made.      *)
(*                                                                         *)
(* A message is applied to the cache of the client in the step that sends  *)
(* it, the way incomingSubscription and incomingSubscriptionDiff do it.    *)
(***************************************************************************)
EXTENDS Naturals, FiniteSets

CONSTANTS
    Clients,
    MaxObs,   \* bounds the instances made
    MaxTicks  \* bounds the publications of the first of them, which may also
              \* restart, with two subscriptions to the functions under way or
              \* running at most; the others publish once and do not restart

VARIABLES
    config,   \* the instances, by the order in which they were made
    current,  \* server.subscriptions[id], 0 for none
    named,    \* per client: the instance client.subscriptions[id] names, or 0
    cache,    \* per client: its cached data and the checksum it noted
    waits     \* per client: is there a get() that waits, which an instance
              \* "noted", or which the server "ignored"

vars == <<config, current, named, cache, waits>>

Instances == 1..MaxObs

\* clients[id]: the checksum noted and the flag (0, 1, 2 in the code).
NoEntry == [ver |-> 0, get |-> "none"]

\* opening counts subscribeFunctions() under way, open those that run;
\* cleanup says whether fnCleanup would end one ("open") or was called already.
\* early and orphan are history: the errors that came while fnCleanup could end
\* nothing, and whether the instance was removed at such a time.
New == [status |-> "live", cnt |-> 0, diff |-> FALSE,
        clients |-> [c \in Clients |-> NoEntry], clientsCnt |-> 0,
        listener |-> FALSE, timer |-> FALSE,
        opening |-> 1, open |-> 0, cleanup |-> "none", early |-> 0, orphan |-> FALSE]

Init ==
    /\ config = [i \in Instances |-> [New EXCEPT !.status = "unused", !.opening = 0]]
    /\ current = 0
    /\ named = [c \in Clients |-> 0]
    /\ cache = [c \in Clients |-> [data |-> 0, sum |-> 0]]
    /\ waits = [c \in Clients |-> "none"]

Unused == {i \in Instances : config[i].status = "unused"}
NextUnused == CHOOSE i \in Unused : \A j \in Unused : i <= j

Listed(o) == {c \in Clients : o.clients[c] # NoEntry}
IsEmpty(o) == o.clientsCnt = 0 /\ ~o.listener
-----------------------------------------------------------------------------
\* destroyIfEmpty().
DestroyIfEmpty(o) == [o EXCEPT !.timer = @ \/ IsEmpty(o)]

\* subscribe() notes the client; the checksum noted is the one it is sent.
Enter(o, c, ver, get) ==
    [o EXCEPT !.clients[c] = [ver |-> ver, get |-> get],
              !.clientsCnt = @ + 1, !.timer = FALSE]

Leave(o, c) ==
    IF c \notin Listed(o) THEN o
    ELSE DestroyIfEmpty([o EXCEPT !.clients[c] = NoEntry, !.clientsCnt = @ - 1])

\* What a diff to version `data`, sent with the checksums from and to, makes
\* of a cache: it fits, is known, or the client has to ask for the data.
Patched(k, from, to, data) ==
    IF k.sum = from THEN [data |-> data, sum |-> to] ELSE k

Whole(n) == [data |-> n, sum |-> n]

\* The cached diff as subscribe() sends it: both checksums are the one the
\* client presented.
CachedDiff(k, n) == Patched(k, k.sum, k.sum, n)

\* What subscribe() sends at once to a client with the cache k.
Reply(o, k) ==
    IF o.cnt \in {0, k.sum} THEN k
    ELSE IF o.diff /\ o.cnt - 1 = k.sum THEN CachedDiff(k, o.cnt) ELSE Whole(o.cnt)

\* It sends something then, which answers every get() of the client.
Replies(o, k, get) == o.cnt # 0 /\ (o.cnt # k.sum \/ get # "sub")

Answer(cs) == waits' = [c \in Clients |-> IF c \in cs THEN "none" ELSE waits[c]]
-----------------------------------------------------------------------------
\* subscribeObservable(): the client is listed already, or subscribes to the
\* registered instance or to a new one.
Subscribe(c, get) ==
    LET i == IF current = 0 THEN NextUnused ELSE current
        o == IF current = 0 THEN New ELSE config[current]
        k == cache[c]
    IN
    /\ current = 0 => Unused # {}
    /\ current' = i
    /\ IF c \in Listed(o)
       THEN /\ config' = [config EXCEPT ![i].clients[c].get =
                             IF @ = "get" \/ get = "both" THEN "both" ELSE @]
            /\ UNCHANGED <<named, cache, waits>>
       ELSE /\ config' = [config EXCEPT ![i] =
                             Enter(o, c, IF o.cnt = 0 THEN k.sum ELSE o.cnt, get)]
            /\ named' = [named EXCEPT ![c] = i]
            /\ cache' = [cache EXCEPT ![c] = Reply(o, k)]
            /\ Answer(IF Replies(o, k, get) THEN {c} ELSE {})

\* getObservable(): only a new instance takes the request.
GetOfNew(c) ==
    /\ current = 0 /\ Unused # {}
    /\ current' = NextUnused
    /\ config' = [config EXCEPT ![NextUnused] = Enter(New, c, cache[c].sum, "get")]
    /\ named' = [named EXCEPT ![c] = NextUnused]
    /\ waits' = [waits EXCEPT ![c] = "noted"]
    /\ UNCHANGED cache

\* A registered one is returned to the parser of messages, which drops it.
GetOfRegistered(c) ==
    /\ current # 0
    /\ waits' = [waits EXCEPT ![c] = IF @ = "noted" THEN @ ELSE "ignored"]
    /\ UNCHANGED <<config, current, named, cache>>

\* Unsubscribe of the client, or the end of its connection, after which it asks
\* anew for what it waits for.
Unsubscribe(c) ==
    /\ named[c] # 0
    /\ config' = [config EXCEPT ![named[c]] = Leave(@, c)]
    /\ named' = [named EXCEPT ![c] = 0]
    /\ Answer({c})
    /\ UNCHANGED <<current, cache>>

\* A client asks for the data (a diff did not fit) with SendSubscriptionData.
SendData(c) ==
    LET i == named[c] IN
    /\ i # 0 /\ config[i].cnt # 0 /\ c \in Listed(config[i])
    /\ cache[c].sum # config[i].cnt
    /\ config' = [config EXCEPT ![i].clients[c].ver = config[i].cnt]
    /\ cache' = [cache EXCEPT ![c] = Whole(config[i].cnt)]
    /\ Answer({c})
    /\ UNCHANGED <<current, named>>

\* subscribeConfiguration() always makes an instance and registers it.
ObserveInServer ==
    /\ Unused # {}
    /\ config' = [config EXCEPT ![NextUnused] = [New EXCEPT !.listener = TRUE]]
    /\ current' = NextUnused
    /\ UNCHANGED <<named, cache, waits>>

CloseInServer(i) ==
    /\ config[i].listener
    /\ config' = [config EXCEPT ![i] = DestroyIfEmpty([@ EXCEPT !.listener = FALSE])]
    /\ UNCHANGED <<current, named, cache, waits>>
-----------------------------------------------------------------------------
\* update() for the entries: those that waited for one reply leave.
Published(o, patched) ==
    LET gets == {c \in Clients : o.clients[c].get = "get"}
        left == [o EXCEPT
            !.cnt = @ + 1,
            !.diff = patched,
            !.clients = [c \in Clients |->
                IF c \in gets \/ c \notin Listed(o) THEN NoEntry
                ELSE [o.clients[c] EXCEPT !.ver = o.cnt + 1]],
            !.clientsCnt = @ - Cardinality(gets)]
    IN  IF gets = {} THEN left ELSE DestroyIfEmpty(left)

\* Mutant: who has the very version published is sent nothing.
AnsweredIfChanged(o) == {c \in Listed(o) : o.clients[c].ver # o.cnt + 1}

\* Who is sent a publication, or who waits is told that it has it.
Answered(o) == {c \in Listed(o) : o.clients[c].ver # o.cnt + 1 \/ o.clients[c].get # "sub"}

\* The interval of an instance, which nobody ever clears.
Tick(i, patched) ==
    LET o == config[i]  n == o.cnt + 1 IN
    /\ o.status # "unused" /\ o.cnt < (IF i = 1 THEN MaxTicks ELSE 1)
    /\ patched => o.cnt # 0
    /\ config' = [config EXCEPT ![i] = Published(o, patched)]
    /\ named' = [c \in Clients |-> IF o.clients[c].get = "get" THEN 0 ELSE named[c]]
    /\ cache' = [c \in Clients |->
           IF c \in Listed(o) /\ o.clients[c].ver # n
           THEN IF patched THEN Patched(cache[c], o.cnt, n, n) ELSE Whole(n)
           ELSE cache[c]]
    /\ Answer(Answered(o))
    /\ UNCHANGED current

\* fnCleanup ends a subscription to the functions; it is never reset.
CleanUp(o) ==
    IF o.cleanup = "open" THEN [o EXCEPT !.cleanup = "called", !.open = @ - 1] ELSE o

\* Five seconds without a client: whatever is registered is removed.
RemoveTimeout(i) ==
    /\ config[i].timer
    /\ config' = [config EXCEPT ![i] =
                     [CleanUp(@) EXCEPT !.timer = FALSE, !.status = "closed",
                                        !.orphan = (config[i].cleanup # "open")]]
    /\ current' = 0
    /\ UNCHANGED <<named, cache, waits>>

\* observeFunctions(): the awaited subscription replaces fnCleanup.
FunctionsObserved(i) ==
    /\ config[i].opening > 0
    /\ LET o == config[i] IN
       config' = [config EXCEPT ![i] =
           [o EXCEPT !.opening = @ - 1, !.open = @ + 1, !.cleanup = "open"]]
    /\ UNCHANGED <<current, named, cache, waits>>

\* Mutant: the subscription that failed is kept.
RestartOnly(o) == [o EXCEPT !.early = @ + (IF o.cleanup = "open" THEN 0 ELSE 1),
                            !.opening = @ + 1]

\* restart() begins a subscription for the one it ends, if it can end one.
Restarted(o) == [CleanUp(o) EXCEPT !.early = @ + (IF o.cleanup = "open" THEN 0 ELSE 1),
                                   !.opening = @ + 1]

\* A subscription to the functions reports an error: restart().
Restart(i) ==
    /\ config[i].open > 0 \/ config[i].opening > 0
    /\ i = 1 /\ config[i].status = "live"
    /\ config[i].opening < 2 /\ config[i].open < 2
    /\ config' = [config EXCEPT ![i] = Restarted(@)]
    /\ UNCHANGED <<current, named, cache, waits>>

Next ==
    \/ \E c \in Clients : \/ \E get \in {"sub", "both"} : Subscribe(c, get)
                          \/ GetOfNew(c) \/ GetOfRegistered(c)
                          \/ Unsubscribe(c) \/ SendData(c)
    \/ ObserveInServer
    \/ \E i \in Instances :
           \/ CloseInServer(i) \/ RemoveTimeout(i)
           \/ FunctionsObserved(i) \/ Restart(i)
           \/ \E patched \in BOOLEAN : Tick(i, patched)

\* Timers and intervals fire.
Fairness == \A i \in Instances :
    WF_vars(RemoveTimeout(i)) /\ WF_vars(\E p \in BOOLEAN : Tick(i, p))

Spec == Init /\ [][Next]_vars /\ Fairness
-----------------------------------------------------------------------------
(***************************************************************************)
(* Properties.                                                             *)
(***************************************************************************)
\* The subscriptions to the functions that an instance has, running or under
\* way, are counted: one, and one more for every error that came while
\* subscribeFunctions() was awaited, which restart() could not end.  Of one that
\* was removed only the latter are left, and the one that was awaited then.
ConfigFunctionsCounted ==
    \A i \in Instances : LET o == config[i]  all == o.open + o.opening IN
        /\ o.status = "live" => all = 1 + o.early
        /\ o.status = "closed" => all <= o.early + (IF o.orphan THEN 1 ELSE 0)

\* A get() that an instance noted is answered with a later publication, of any
\* version, or the client leaves: the instance is not removed before, and its
\* interval goes on.  One that meets a registered instance is ignored: nothing
\* answers it, unless the client is sent something for another reason.
ConfigGetAnswered == \A c \in Clients : waits[c] = "noted" ~> waits[c] # "noted"

\* A client knows the version of the data it holds.  Does not hold: a diff
\* that answers subscribe() names one checksum twice.
ConfigCacheIsGenuine == \A c \in Clients : cache[c].data = cache[c].sum
=============================================================================
