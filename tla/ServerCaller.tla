---------------------------- MODULE ServerCaller ----------------------------
(***************************************************************************)
(* The client that functions of the server get (packages/server:           *)
(* BasedServerClient): get(), observe(), observeUntil() by name and by     *)
(* query, call() and the requests to the database.  What can go wrong is   *)
(* the listener: it is attached behind two awaits, may be called before    *)
(* its caller knows the subscription, and has to be detached.              *)
(*                                                                         *)
(* Every operation by name makes an instance of its own, so an operation   *)
(* owns its listener.  The instance is external here: SharedObservable and *)
(* UserObservable model it.                                                *)
(***************************************************************************)
EXTENDS Naturals

CONSTANT Ops

VARIABLE op  \* per operation: its kind, promise, listener and locals

Kinds == {"get", "observe", "until", "query", "call", "request"}

Unused == [kind |-> "none",
           pc |-> "idle",          \* "authorizing", "looking", "returning", "done"
           promise |-> "pending",  \* "resolved", "rejected"
           attached |-> FALSE,     \* the listener is attached
           fired |-> FALSE,        \* isFired of get(), initial of observe()
           close |-> FALSE,        \* the caller has, or observeUntil knows, close
           lost |-> FALSE,         \* nobody can detach the listener any more
           silent |-> FALSE]       \* there is no instance, or it has failed

Init == op = [o \in Ops |-> Unused]

Set(o, r) == op' = [op EXCEPT ![o] = r]

\* A promise settles once.
Settle(r, how) == IF r.promise = "pending" THEN [r EXCEPT !.promise = how] ELSE r

Detach(r) == [r EXCEPT !.attached = FALSE]
-----------------------------------------------------------------------------
\* The listener f of get() is called.
\* Mutant: it does not remember that it was called before the subscription
\* was known.
GetFiresUnnoted(r, how) ==
    IF r.pc = "done" THEN Detach(Settle(r, how)) ELSE Settle(r, how)

GetFires(r, how) ==
    IF r.pc = "done" THEN Detach(Settle(r, how))
    ELSE [Settle(r, how) EXCEPT !.fired = TRUE]

\* The listener f of observe(): an error rejects if it comes first; then the
\* caller never gets close().
ObserveFires(r, how) ==
    IF r.fired \/ how = "resolved" THEN [r EXCEPT !.fired = TRUE]
    ELSE [r EXCEPT !.fired = TRUE, !.promise = "rejected", !.lost = TRUE]

\* onData of observeUntil() finds its condition true.  Without close() it
\* leaves a note, on which close() is called while it is still undefined.
UntilMet(r) ==
    IF r.close THEN Detach(Settle(r, "resolved"))
    ELSE [Settle(r, "resolved") EXCEPT !.lost = TRUE]

\* Data of db.observe(): the first resolves with close().
QueryData(r) == [Settle(r, "resolved") EXCEPT !.fired = TRUE, !.close = TRUE]

\* An error before any data ends the query, a later one is ignored, and so is
\* a missing subscription at any time.
QueryError(r, ignored) ==
    IF ignored \/ r.fired THEN r
    ELSE [Detach(Settle(r, "rejected")) EXCEPT !.fired = TRUE]

Fires(r, how, met) ==
    CASE r.kind = "get"     -> GetFires(r, how)
      [] r.kind = "observe" -> ObserveFires(r, how)
      [] r.kind = "until"   -> IF how = "resolved" /\ met
                               THEN UntilMet(ObserveFires(r, how))
                               ELSE ObserveFires(r, how)
      [] r.kind = "query"   -> IF how = "resolved" THEN QueryData(r)
                               ELSE QueryError(r, met)
-----------------------------------------------------------------------------
\* An operation is called and awaits _authorize().
Start(o, k) ==
    /\ op[o] = Unused
    /\ Set(o, [Unused EXCEPT !.kind = k, !.pc = "authorizing"])

\* _authorize() throws or returns true: when there is nothing to ask it does.
Authorized(o, ok) ==
    LET r == op[o] IN
    /\ r.pc = "authorizing"
    /\ Set(o, IF ~ok THEN [r EXCEPT !.promise = "rejected", !.pc = "done", !.silent = TRUE]
              ELSE IF r.kind = "query" THEN [r EXCEPT !.attached = TRUE, !.pc = "done"]
              ELSE [r EXCEPT !.pc = "looking"])

\* getFunction() returns and subscribeFunction() attaches the listener to a
\* new instance, which may have published already.
Found(o, first, met) ==
    LET r == op[o]
        attached == [r EXCEPT !.pc = "returning", !.attached = TRUE]
    IN
    /\ r.pc = "looking" /\ r.kind \in {"get", "observe", "until"}
    /\ Set(o, IF first THEN Fires(attached, "resolved", met) ELSE attached)

\* There is no such function: f gets an error and there is no subscription.
NotFound(o) ==
    LET r == op[o] IN
    /\ r.pc = "looking" /\ r.kind \in {"get", "observe", "until"}
    /\ Set(o, [Fires([r EXCEPT !.pc = "returning"], "rejected", FALSE)
                  EXCEPT !.lost = FALSE, !.silent = TRUE])

\* The await on subscribeFunction() ends: get() detaches what has fired,
\* observe() gives close() to whom it has not been rejected for.
Returned(o) ==
    LET r == op[o] IN
    /\ r.pc = "returning"
    /\ Set(o, IF r.kind = "get"
              THEN [r EXCEPT !.pc = "done", !.attached = @ /\ ~r.fired]
              ELSE IF r.kind = "observe"
              THEN [Settle(r, "resolved") EXCEPT !.pc = "done",
                                                 !.close = r.promise = "pending"]
              ELSE [r EXCEPT !.pc = "done", !.close = ~r.lost])

\* What is attached is called with data, or the query fails.
Data(o, met) ==
    /\ op[o].attached
    /\ Set(o, Fires(op[o], "resolved", met))
QueryFails(o, ignored) ==
    /\ op[o].attached /\ op[o].kind = "query"
    /\ Set(o, Fires(op[o], "rejected", ignored))

\* The user's function rejects: the instance tells the listener it was made
\* with, attached or not.
FunctionFails(o) ==
    /\ op[o].pc \in {"returning", "done"} /\ ~op[o].silent
    /\ op[o].kind \in {"get", "observe", "until"}
    /\ Set(o, [Fires(op[o], "rejected", FALSE) EXCEPT !.silent = TRUE])

\* The caller of observe() closes.
Close(o) ==
    /\ op[o].close /\ op[o].attached /\ op[o].kind \in {"observe", "query"}
    /\ Set(o, Detach(op[o]))

\* call() of a function: one that does not exist resolves with undefined.
CallReturns(o, how) ==
    /\ op[o].pc = "looking" /\ op[o].kind = "call"
    /\ Set(o, [Settle(op[o], how) EXCEPT !.pc = "done"])

\* set(), delete(), copy(), event(), schema() and the like, and get() by
\* query: the database has answered.
RequestReturns(o, how) ==
    /\ op[o].pc = "looking" /\ op[o].kind = "request"
    /\ Set(o, [Settle(op[o], how) EXCEPT !.pc = "done"])

Outcomes == {"resolved", "rejected"}

Next == \E o \in Ops :
    \/ \E k \in Kinds : Start(o, k)
    \/ \E b \in BOOLEAN : Authorized(o, b) \/ Data(o, b) \/ QueryFails(o, b)
    \/ \E b, met \in BOOLEAN : Found(o, b, met)
    \/ NotFound(o) \/ Returned(o) \/ FunctionFails(o) \/ Close(o)
    \/ \E how \in Outcomes : CallReturns(o, how) \/ RequestReturns(o, how)

Spec == Init /\ [][Next]_op
-----------------------------------------------------------------------------
(***************************************************************************)
(* Properties.                                                             *)
(***************************************************************************)
\* Whoever still listens has somebody who can and will detach it: the caller
\* with close(), a get() that waits for data or has not returned, an
\* observeUntil() that waits for its condition, a query that waits.  Two ways
\* of the code lose a listener: an observe() whose first call is an error, and
\* an observeUntil() that is met before it knows close().
ListenersOwned ==
    \A o \in Ops : LET r == op[o] IN
        r.attached /\ ~r.lost =>
            \/ r.close
            \/ r.pc = "returning"
            \/ r.kind \in {"get", "query"} /\ r.promise = "pending"
=============================================================================
