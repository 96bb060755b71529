--------------------------- MODULE DbSubscription ---------------------------
(***************************************************************************)
(* A subscription to a database query or a schema, shared by the clients   *)
(* of one server (packages/server: handlers/subscription).                 *)
(*                                                                         *)
(* The database's observable is external: it emits versions, each whole or *)
(* as a diff from the one before, and reports errors.  After the error     *)
(* "ERR_SUBSCRIPTIONS ENOENT" it emits nothing until it is subscribed to   *)
(* again.  A client is what incomingSubscription and                       *)
(* incomingSubscriptionDiff make of it: the version it holds, and whether  *)
(* a diff that did not fit made it ask for the data.                       *)
(***************************************************************************)
EXTENDS Naturals, FiniteSets

CONSTANTS
    Clients,
    None,
    MaxVersion,  \* bounds the versions the observable emits
    MaxCount     \* bounds clientsCnt

VARIABLES
    dbLive,       \* the subscription is registered and has its observable
    dbClients,    \* per client: the version noted for it, None if not listed
    dbCnt,        \* clientsCnt
    version,      \* observable.version, 0 for none; also that of jsonCache
    lastDiff,     \* the version jsonDiffCache starts from, 0 for none
    errorState,
    retryTimer,   \* set, waiting to call initSubscription again
    removeTimer,  \* set, waiting to remove the subscription
    held,         \* per client: the version of its cache, 0 for none
    asks,         \* per client: its SendSubscriptionData is on its way
    doubled       \* history: a client that was listed subscribed again

vars == <<dbLive, dbClients, dbCnt, version, lastDiff, errorState, retryTimer,
          removeTimer, held, asks, doubled>>

Fresh(live) ==
    /\ dbLive' = live
    /\ version' = 0 /\ lastDiff' = 0 /\ errorState' = FALSE
    /\ retryTimer' = FALSE /\ removeTimer' = FALSE

Init ==
    /\ dbLive = FALSE
    /\ dbClients = [c \in Clients |-> None]
    /\ dbCnt = 0
    /\ version = 0 /\ lastDiff = 0 /\ errorState = FALSE
    /\ retryTimer = FALSE /\ removeTimer = FALSE
    /\ held = [c \in Clients |-> 0]
    /\ asks = [c \in Clients |-> FALSE]
    /\ doubled = FALSE

Listed == {c \in Clients : dbClients[c] # None}

\* What the client makes of a diff between the versions a and b.
FitsDiff(c, a) == held[c] = a
-----------------------------------------------------------------------------
\* Mutant: the timer that removes the subscription goes on.
JoinTimerOn(c) ==
    /\ dbCnt < MaxCount
    /\ doubled' = (doubled \/ c \in Listed)
    /\ IF dbLive
       THEN /\ dbCnt' = dbCnt + 1
            /\ UNCHANGED <<dbLive, version, lastDiff, errorState, retryTimer, removeTimer>>
       ELSE Fresh(TRUE) /\ dbCnt' = 1

\* subscribe(): the client presents the version it holds.
Join(c) ==
    /\ dbCnt < MaxCount
    /\ doubled' = (doubled \/ c \in Listed)
    /\ IF dbLive
       THEN /\ dbCnt' = dbCnt + 1
            /\ removeTimer' = FALSE
            /\ UNCHANGED <<dbLive, version, lastDiff, errorState, retryTimer>>
       ELSE Fresh(TRUE) /\ dbCnt' = 1

\* Mutant: the cached diff is sent to whoever does not have the version.
SendsDiffAlways(c) == lastDiff # 0

SendsDiff(c) == lastDiff # 0 /\ lastDiff = held[c]

Subscribe(c) ==
    /\ Join(c)
    /\ UNCHANGED asks
    /\ IF ~dbLive \/ errorState \/ version \in {0, held[c]}
       THEN /\ dbClients' = [dbClients EXCEPT ![c] = held[c]]
            /\ UNCHANGED held
       ELSE /\ dbClients' = [dbClients EXCEPT ![c] = version]
            /\ held' = [held EXCEPT ![c] =
                   IF ~SendsDiff(c) \/ FitsDiff(c, lastDiff) THEN version ELSE @]

\* Mutant: the count is looked at before it is lowered.
UnsubscribeLooksFirst(c) ==
    /\ c \in Listed
    /\ dbClients' = [dbClients EXCEPT ![c] = None]
    /\ dbCnt' = dbCnt - 1
    /\ removeTimer' = (removeTimer \/ dbCnt = 0)
    /\ asks' = [asks EXCEPT ![c] = FALSE]
    /\ UNCHANGED <<dbLive, version, lastDiff, errorState, retryTimer, held, doubled>>

\* unsubscribe(), also for each subscription of a connection that closes.
Unsubscribe(c) ==
    /\ c \in Listed
    /\ dbClients' = [dbClients EXCEPT ![c] = None]
    /\ dbCnt' = dbCnt - 1
    /\ removeTimer' = (removeTimer \/ dbCnt' = 0)
    /\ asks' = [asks EXCEPT ![c] = FALSE]
    /\ UNCHANGED <<dbLive, version, lastDiff, errorState, retryTimer, held, doubled>>

\* sendData(): the client had asked, as a diff did not fit.
SendData(c) ==
    /\ asks[c] /\ c \in Listed
    /\ asks' = [asks EXCEPT ![c] = FALSE]
    /\ IF version # 0 /\ ~errorState
       THEN /\ dbClients' = [dbClients EXCEPT ![c] = version]
            /\ held' = [held EXCEPT ![c] = version]
       ELSE UNCHANGED <<dbClients, held>>
    /\ UNCHANGED <<dbLive, dbCnt, version, lastDiff, errorState, retryTimer,
                   removeTimer, doubled>>

\* The client program throws its cache away between two subscriptions.
Forget(c) ==
    /\ c \notin Listed /\ held[c] # 0
    /\ held' = [held EXCEPT ![c] = 0]
    /\ UNCHANGED <<dbLive, dbClients, dbCnt, version, lastDiff, errorState,
                   retryTimer, removeTimer, asks, doubled>>
-----------------------------------------------------------------------------
\* The observable emits the next version, as a diff if there is one before.
Data(diff) ==
    /\ dbLive /\ ~retryTimer /\ version < MaxVersion
    /\ diff => version # 0
    /\ version' = version + 1
    /\ lastDiff' = IF diff THEN version ELSE 0
    /\ errorState' = FALSE
    /\ LET sent == {c \in Listed : dbClients[c] # version'}
           lost == {c \in sent : diff /\ ~FitsDiff(c, version)}
       IN
       /\ dbClients' = [c \in Clients |-> IF c \in sent THEN version' ELSE dbClients[c]]
       /\ held' = [c \in Clients |-> IF c \in sent \ lost THEN version' ELSE held[c]]
       /\ asks' = [c \in Clients |-> asks[c] \/ c \in lost]
    /\ UNCHANGED <<dbLive, dbCnt, retryTimer, removeTimer, doubled>>

\* The error handler: an error that is retried, or one for the clients.
Enoent ==
    /\ dbLive /\ ~retryTimer
    /\ retryTimer' = TRUE
    /\ UNCHANGED <<dbLive, dbClients, dbCnt, version, lastDiff, errorState,
                   removeTimer, held, asks, doubled>>

ObserveError ==
    /\ dbLive /\ ~retryTimer
    /\ errorState' = TRUE
    /\ UNCHANGED <<dbLive, dbClients, dbCnt, version, lastDiff, retryTimer,
                   removeTimer, held, asks, doubled>>

\* initSubscription() after 500 ms.
Retry ==
    /\ retryTimer
    /\ retryTimer' = FALSE
    /\ UNCHANGED <<dbLive, dbClients, dbCnt, version, lastDiff, errorState,
                   removeTimer, held, asks, doubled>>

\* Five seconds without a client.
RemoveTimeout ==
    /\ removeTimer
    /\ Fresh(FALSE)
    /\ UNCHANGED <<dbClients, dbCnt, held, asks, doubled>>

Next ==
    \/ \E c \in Clients : Subscribe(c) \/ Unsubscribe(c) \/ SendData(c) \/ Forget(c)
    \/ \E diff \in BOOLEAN : Data(diff)
    \/ Enoent \/ ObserveError \/ Retry \/ RemoveTimeout

\* A timer that is not cleared fires.
Fairness == WF_vars(RemoveTimeout) /\ WF_vars(Retry)

Spec == Init /\ [][Next]_vars /\ Fairness
-----------------------------------------------------------------------------
(***************************************************************************)
(* Properties.                                                             *)
(***************************************************************************)
\* The subscription of a listed client is registered, counted and not about
\* to be removed, and no timer calls initSubscription of a removed one.
UsedIsKept ==
    /\ Listed # {} => dbLive /\ ~removeTimer
    /\ dbCnt >= Cardinality(Listed)
    /\ retryTimer => dbLive

\* A listed client holds the last version unless it asked for it or was sent
\* an error instead: what is noted for it is what it was sent.
ListedIsCurrent ==
    \A c \in Listed : errorState \/ version = 0 \/ asks[c] \/ held[c] = version

\* A subscription that nobody uses is removed, if nobody was counted twice.
UnusedIsRemoved ==
    (dbLive /\ Listed = {}) ~> (~dbLive \/ Listed # {} \/ doubled)
=============================================================================
