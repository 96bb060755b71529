--------------------------- MODULE FunctionCache ---------------------------
(***************************************************************************)
(* Functions and secrets that the server fetches when they are first used  *)
(* and forgets when they are idle (packages/server: getFromConfig.ts,      *)
(* secrets.ts and the two clear loops of the constructor of BasedServer).  *)
(* A pass of the loop counts up what it finds; what was counted twice      *)
(* without being used is given to functionConfig.clear(), which is awaited *)
(* in the middle of the pass, and then deleted.                            *)
(***************************************************************************)
EXTENDS Integers, FiniteSetsExt

CONSTANT Names

VARIABLES
    fns,       \* config.functions: the cnt of each, Gone if it is not there
    asked,     \* functions that functionConfig.getInitial() is asked for
    passing,   \* the keys this pass of the loop has still to visit
    clearing,  \* the function that clear() is awaited for
    armed,     \* the timer of the loop
    idle,      \* history: passes since a function was used
    certs,     \* config.secrets
    secretTimeouts,  \* Gone if there is no entry
    fetching   \* secrets that secretsConfig.getInitial() is asked for

vars == <<fns, asked, passing, clearing, armed, idle, certs, secretTimeouts, fetching>>
loop == <<passing, clearing, armed>>
secretVars == <<certs, secretTimeouts, fetching>>
fnVars == <<fns, asked, passing, clearing, armed, idle>>

Gone == 0 - 1
Here(n) == fns[n] # Gone

Init ==
    /\ fns = [n \in Names |-> Gone] /\ idle = [n \in Names |-> 0]
    /\ asked = {} /\ passing = {} /\ clearing = {} /\ armed = TRUE
    /\ certs = {} /\ fetching = {}
    /\ secretTimeouts = [n \in Names |-> Gone]

Used(n) ==
    /\ fns' = [fns EXCEPT ![n] = 0]
    /\ idle' = [idle EXCEPT ![n] = 0]
-----------------------------------------------------------------------------
\* Mutant: using a function does not set its count back.
GetFunctionUncounted(n) ==
    /\ asked' = IF Here(n) THEN asked ELSE asked \cup {n}
    /\ idle' = IF Here(n) THEN [idle EXCEPT ![n] = 0] ELSE idle
    /\ UNCHANGED <<loop, fns, secretVars>>

\* getFunction(): a function that is there is used, for another getInitial()
\* is awaited.
GetFunction(n) ==
    /\ IF Here(n) THEN Used(n) /\ UNCHANGED asked
       ELSE asked' = asked \cup {n} /\ UNCHANGED <<fns, idle>>
    /\ UNCHANGED <<loop, secretVars>>

Initial(n, found) ==
    /\ n \in asked /\ asked' = asked \ {n}
    /\ IF found THEN Used(n) ELSE UNCHANGED <<fns, idle>>
    /\ UNCHANGED <<loop, secretVars>>

\* The pass goes on over keys: it counts up until it meets a function that was
\* counted twice, or ends and arms the timer.
Proceed(table, keys) ==
    LET due == {n \in keys : table[n] = 2}
        Count(counted) ==
            /\ fns' = [n \in Names |-> IF n \in counted THEN table[n] + 1 ELSE table[n]]
            /\ idle' = [n \in Names |-> IF n \in counted \/ n \in clearing'
                                        THEN Min({idle[n] + 1, 3}) ELSE idle[n]]
    IN
    IF due = {}
    THEN /\ passing' = {} /\ clearing' = {} /\ armed' = TRUE
         /\ Count(keys)
    ELSE \E n \in due : \E before \in SUBSET (keys \ due) :
         /\ clearing' = {n}
         /\ passing' = keys \ (before \cup {n})
         /\ armed' = FALSE
         /\ Count(before)

\* The timer fires.
Pass ==
    /\ armed
    /\ Proceed(fns, {n \in Names : Here(n)})
    /\ UNCHANGED <<asked, secretVars>>

\* Mutant: the function stays.
ClearedKept ==
    /\ clearing # {}
    /\ Proceed(fns, passing)
    /\ UNCHANGED <<asked, secretVars>>

\* clear() returns: the function is deleted, used meanwhile or not.
Cleared ==
    /\ clearing # {}
    /\ Proceed([n \in Names |-> IF n \in clearing THEN Gone ELSE fns[n]], passing)
    /\ UNCHANGED <<asked, secretVars>>

\* clear() throws: the loop is over.
ClearThrows ==
    /\ clearing # {}
    /\ clearing' = {} /\ passing' = {}
    /\ UNCHANGED <<fns, asked, armed, idle, secretVars>>
-----------------------------------------------------------------------------
\* getSecret(), also for encode() and decode().
GetSecret(n) ==
    /\ IF n \notin certs
       THEN fetching' = fetching \cup {n} /\ UNCHANGED secretTimeouts
       ELSE /\ secretTimeouts' = [secretTimeouts EXCEPT ![n] = IF @ = Gone THEN @ ELSE 0]
            /\ UNCHANGED fetching
    /\ UNCHANGED <<certs, fnVars>>

SecretComes(n, found) ==
    /\ n \in fetching /\ fetching' = fetching \ {n}
    /\ certs' = IF found THEN certs \cup {n} ELSE certs
    /\ secretTimeouts' = [secretTimeouts EXCEPT ![n] = IF found THEN 0 ELSE @]
    /\ UNCHANGED fnVars

\* The loop of the secrets: the entry goes, the secret stays.
SecretPass ==
    /\ certs # {}
    /\ secretTimeouts' = [n \in Names |->
           CASE secretTimeouts[n] = Gone -> Gone
             [] secretTimeouts[n] = 2    -> Gone
             [] OTHER                    -> secretTimeouts[n] + 1]
    /\ UNCHANGED <<certs, fetching, fnVars>>

Next ==
    \/ \E n \in Names : GetFunction(n) \/ GetSecret(n)
    \/ \E n \in Names, found \in BOOLEAN : Initial(n, found) \/ SecretComes(n, found)
    \/ Pass \/ Cleared \/ ClearThrows \/ SecretPass

\* The timer fires; clear() returns or throws.
Fairness == WF_vars(Pass) /\ WF_vars(Cleared \/ ClearThrows)

Spec == Init /\ [][Next]_vars /\ Fairness
-----------------------------------------------------------------------------
(***************************************************************************)
(* Properties.                                                             *)
(***************************************************************************)
\* clear() is only begun for a function that two passes found unused.
ClearsOnlyIdle == [][\A n \in Names : n \in clearing' \ clearing => idle[n] >= 2]_vars

\* A function is used now and again or goes, while the loop lives.
Looping == armed \/ clearing # {}
IdleIsForgotten ==
    \A n \in Names : Here(n) ~> (~Here(n) \/ <>[]~Looping \/ []<>(idle[n] = 0))
=============================================================================
