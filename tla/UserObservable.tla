--------------------------- MODULE UserObservable ---------------------------
(***************************************************************************)
(* One FunctionObservable of the server: an observable function that runs  *)
(* once for each client, in a UserEmitter (packages/server:                *)
(* handlers/functions/observable/Observable.ts and the parts of index.ts   *)
(* and token.ts that reach it), from its creation to its end.              *)
(*                                                                         *)
(* Calling the function starts a run; its promise gives the close function *)
(* later.  What a run publishes is not modelled, only what update() does   *)
(* with the emitter.  subscribe() is only called for a client without an   *)
(* emitter, so its branch for one that has one is never taken.             *)
(***************************************************************************)
EXTENDS Naturals, FiniteSets

CONSTANTS
    Clients,
    MaxRuns  \* bounds the runs of a client that are open or starting

VARIABLES
    status,      \* "unused", "live" or "removed" (isClosed)
    registered,  \* server.subscriptions names this instance
    emitter,     \* per client
    emitters,    \* clientsCnt
    timers,      \* removal timers: the one clearTimeout knows, and another
    running,     \* per client: runs whose close function came and was not called
    late,        \* per client: the type of a destroyed emitter that still starts
    overrun,     \* history, per client: init() while a run was there or starting
    listened     \* history: a data listener was attached

vars == <<status, registered, emitter, emitters, timers, running, late, overrun, listened>>

\* type: get is 0, 1, 2 or 3 in the code.  close is what this.close names.
NoEmitter == [type |-> "none", listener |-> FALSE, close |-> "none", starting |-> 0]

NewEmitter(type, listener) ==
    [type |-> type, listener |-> listener, close |-> "none", starting |-> 1]

NoTimers == [known |-> FALSE, other |-> FALSE]

Init ==
    /\ status = "unused" /\ registered = FALSE
    /\ emitter = [c \in Clients |-> NoEmitter]
    /\ emitters = 0 /\ timers = NoTimers
    /\ running = [c \in Clients |-> 0]
    /\ late = [c \in Clients |-> "none"]
    /\ overrun = [c \in Clients |-> FALSE]
    /\ listened = FALSE

Has(c) == emitter[c].type # "none"
RunsOf(c) == running[c] + emitter[c].starting
-----------------------------------------------------------------------------
\* destroyIfEmpty(): a second timer replaces the handle of the first.
DestroyIfEmpty(n) ==
    timers' = IF n # 0 THEN timers
              ELSE [known |-> TRUE, other |-> timers.known \/ timers.other]

\* UserEmitter.destroy(): close() is called as often as destroy() finds it; a
\* run that is still starting is closed when its promise is fulfilled (the guard
\* bounds these to one for a client).
Destroy(c) ==
    LET e == emitter[c] IN
    /\ e.starting > 0 => late[c] = "none"
    /\ emitter' = [emitter EXCEPT ![c] = NoEmitter]
    /\ emitters' = emitters - 1
    /\ running' = [running EXCEPT ![c] = IF e.close = "open" THEN @ - 1 ELSE @]
    /\ late' = [late EXCEPT ![c] = IF e.starting > 0 THEN e.type ELSE @]
    /\ DestroyIfEmpty(emitters - 1)
    /\ UNCHANGED <<status, registered, overrun, listened>>

\* FunctionObservable.unsubscribe(): an emitter that is listened to stays.
Leave(c) ==
    IF emitter[c].listener
    THEN /\ emitter' = [emitter EXCEPT ![c].type = "listener"]
         /\ UNCHANGED <<status, registered, emitters, timers, running, late, overrun, listened>>
    ELSE Destroy(c)
-----------------------------------------------------------------------------
\* A client subscribes or gets: by way of the registry, or it makes the
\* instance.  A client that has an emitter gets no answer and no other type.
Subscribe(c, type) ==
    /\ registered \/ status = "unused"
    /\ ~Has(c) /\ RunsOf(c) < MaxRuns
    /\ status' = "live" /\ registered' = TRUE
    /\ emitter' = [emitter EXCEPT ![c] = NewEmitter(type, FALSE)]
    /\ emitters' = emitters + 1
    /\ timers' = [timers EXCEPT !.known = FALSE]
    /\ UNCHANGED <<running, late, overrun, listened>>

\* Mutant: an emitter that gets a listener is counted again.
ListenCounts(c) ==
    /\ registered \/ status = "unused"
    /\ RunsOf(c) < MaxRuns /\ emitters < 2
    /\ status' = "live" /\ registered' = TRUE /\ listened' = TRUE
    /\ emitter' = [emitter EXCEPT ![c] = IF Has(c) THEN [@ EXCEPT !.listener = TRUE]
                                         ELSE NewEmitter("listener", TRUE)]
    /\ emitters' = emitters + 1
    /\ UNCHANGED <<timers, running, late, overrun>>

\* subscribeDataListener(): of the function that makes the instance, or of one
\* that finds it registered when the function has gone.
Listen(c) ==
    /\ registered \/ status = "unused"
    /\ RunsOf(c) < MaxRuns
    /\ status' = "live" /\ registered' = TRUE /\ listened' = TRUE
    /\ IF Has(c)
       THEN /\ emitter' = [emitter EXCEPT ![c].listener = TRUE]
            /\ UNCHANGED emitters
       ELSE /\ emitter' = [emitter EXCEPT ![c] = NewEmitter("listener", TRUE)]
            /\ emitters' = emitters + 1
    /\ UNCHANGED <<timers, running, late, overrun>>

\* removeDataListener(): the last listener of an emitter that is only
\* listened to destroys it.
StopListening(c) ==
    /\ emitter[c].listener
    /\ IF emitter[c].type = "listener"
       THEN Destroy(c)
       ELSE /\ emitter' = [emitter EXCEPT ![c].listener = FALSE]
            /\ UNCHANGED <<status, registered, emitters, timers, running, late, overrun, listened>>

\* Unsubscribe of the client, the end of its connection, or a token that may
\* no longer observe.
Unsubscribe(c) == Has(c) /\ Leave(c)

\* subscribeFunction() registers an instance of its own for this id.
Replace ==
    /\ registered
    /\ registered' = FALSE
    /\ UNCHANGED <<status, emitter, emitters, timers, running, late, overrun, listened>>

RemoveTimeout(which) ==
    /\ timers[which]
    /\ timers' = [timers EXCEPT ![which] = FALSE]
    /\ status' = "removed" /\ registered' = FALSE
    /\ UNCHANGED <<emitter, emitters, running, late, overrun, listened>>
-----------------------------------------------------------------------------
\* Mutant: close() of an emitter that has gone is kept, not called.
StartedKept(c, ok) ==
    \/ /\ emitter[c].starting > 0
       /\ emitter' = [emitter EXCEPT ![c].starting = @ - 1,
                                     ![c].close = IF ok THEN "open" ELSE @]
       /\ running' = [running EXCEPT ![c] = IF ok THEN @ + 1 ELSE @]
       /\ UNCHANGED <<status, registered, emitters, timers, late, overrun, listened>>
    \/ /\ late[c] # "none"
       /\ late' = [late EXCEPT ![c] = "none"]
       /\ running' = [running EXCEPT ![c] = IF ok THEN @ + 1 ELSE @]
       /\ UNCHANGED <<status, registered, emitter, emitters, timers, overrun, listened>>

\* The promise of a run is fulfilled, or rejected and the client told: the
\* close function is stored, or called if the emitter has been destroyed.
Started(c, ok) ==
    \/ /\ emitter[c].starting > 0
       /\ emitter' = [emitter EXCEPT ![c].starting = @ - 1,
                                     ![c].close = IF ok THEN "open" ELSE @]
       /\ running' = [running EXCEPT ![c] = IF ok THEN @ + 1 ELSE @]
       /\ UNCHANGED <<status, registered, emitters, timers, late, overrun, listened>>
    \/ /\ late[c] # "none"
       /\ late' = [late EXCEPT ![c] = "none"]
       /\ UNCHANGED <<status, registered, emitter, emitters, timers, running, overrun, listened>>

\* update() of an emitter that answers a get(): the client leaves.  Also by a
\* destroyed emitter, and then the client leaves with the emitter it has now.
Answered(c) ==
    /\ Has(c) /\ "get" \in {emitter[c].type, late[c]}
    /\ Leave(c)

\* restart(), when the code of the function changes: close() stays named.
Restart ==
    /\ registered /\ \A c \in Clients : Has(c) => RunsOf(c) < MaxRuns
    /\ emitter' = [c \in Clients |->
           IF ~Has(c) THEN emitter[c]
           ELSE [emitter[c] EXCEPT !.starting = @ + 1,
                                   !.close = IF @ = "open" THEN "called" ELSE @]]
    /\ running' = [c \in Clients |->
           IF emitter[c].close = "open" THEN running[c] - 1 ELSE running[c]]
    /\ overrun' = [c \in Clients |-> overrun[c] \/ emitter[c].starting > 0]
    /\ UNCHANGED <<status, registered, emitters, timers, late, listened>>

\* init() after a token was accepted: the run that is there goes on.
Reauthorized(c) ==
    /\ Has(c) /\ RunsOf(c) < MaxRuns
    /\ emitter' = [emitter EXCEPT ![c].starting = @ + 1]
    /\ overrun' = [overrun EXCEPT ![c] =
                      @ \/ emitter[c].starting > 0 \/ emitter[c].close = "open"]
    /\ UNCHANGED <<status, registered, emitters, timers, running, late, listened>>

Next ==
    \/ \E c \in Clients :
           \/ \E type \in {"sub", "get", "both"} : Subscribe(c, type)
           \/ Listen(c) \/ StopListening(c) \/ Unsubscribe(c) \/ Answered(c)
           \/ Reauthorized(c)
           \/ \E ok \in BOOLEAN : Started(c, ok)
    \/ \E which \in {"known", "other"} : RemoveTimeout(which)
    \/ Replace \/ Restart

Spec == Init /\ [][Next]_vars
-----------------------------------------------------------------------------
(***************************************************************************)
(* Properties.                                                             *)
(***************************************************************************)
\* clientsCnt counts the emitters, and an instance that never was listened to
\* is neither removed nor about to be while a client has one.
UserCountExact ==
    /\ emitters = Cardinality({c \in Clients : Has(c)})
    /\ ~listened /\ emitters # 0 => status = "live" /\ ~timers.known

\* A client has one open run, that of its emitter, and none without one:
\* unless init() ran while another run was there or starting.
UserRunsEnd ==
    \A c \in Clients : ~overrun[c] =>
        running[c] = IF emitter[c].close = "open" THEN 1 ELSE 0
=============================================================================
