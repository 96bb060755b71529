----------------------------- MODULE ServerToken ----------------------------
(***************************************************************************)
(* How the server takes the token of one client (packages/server): the     *)
(* Token message (handlers/token.ts, Client.setToken) and the decoded      *)
(* token the client keeps (Client.token).                                  *)
(*                                                                         *)
(* The authorize function is external: it grants or refuses as it likes,   *)
(* when it likes, and may ask for the decoded token.  Every await is a     *)
(* step of its own.                                                        *)
(***************************************************************************)
EXTENDS Naturals

CONSTANTS
    Tokens,
    Subs,      \* what the client may be subscribed to
    None,
    Runs       \* the Token messages that may be under way

VARIABLES
    token,     \* client._token
    unpacked,  \* client._unpackedToken: the token it was decoded from
    decodes,   \* the tokens being decoded for the client
    outdated,  \* history: what was being decoded when the token last changed
    subs,      \* client.subscriptions
    run,       \* the Token messages
    progress   \* client.authorizeInProgress: a run, or None

vars == <<token, unpacked, decodes, outdated, subs, run, progress>>

NoRun == [at |-> "idle", ids |-> {}, todo |-> {}, denied |-> {}, renew |-> FALSE]

Init ==
    /\ token = None /\ unpacked = None /\ decodes = {} /\ outdated = {}
    /\ subs = {}
    /\ run = [r \in Runs |-> NoRun]
    /\ progress = None
-----------------------------------------------------------------------------
\* Mutant: the decoded token outlives the token.
KeepUnpacked(t) == unpacked

\* setToken(): what was decoded from another token is forgotten.
ForgetUnpacked(t) == IF t = None \/ t # token THEN None ELSE unpacked

\* A Token message: setToken() at once, then the authorize function is looked
\* up; without one nothing more happens, and the client is not answered.
TokenMessage(r, t) ==
    /\ run[r].at = "idle"
    /\ token' = t
    /\ unpacked' = ForgetUnpacked(t)
    /\ outdated' = IF t = token THEN outdated ELSE decodes
    /\ run' = [run EXCEPT ![r] = [NoRun EXCEPT !.at = "lookup"]]
    /\ UNCHANGED <<decodes, subs, progress>>

NoAuthorize(r) ==
    /\ run[r].at = "lookup"
    /\ run' = [run EXCEPT ![r] = NoRun]
    /\ UNCHANGED <<token, unpacked, decodes, outdated, subs, progress>>

Judging(r, i) ==
    /\ run' = [run EXCEPT ![r].at = "judging", ![r].ids = i, ![r].todo = {}]
    /\ progress' = r

\* The loop over client.subscriptions, which awaits in between.
Authorize(r) ==
    /\ run[r].at = "lookup"
    /\ IF subs = {} THEN Judging(r, {})
       ELSE /\ run' = [run EXCEPT ![r].at = "collect", ![r].todo = subs]
            /\ UNCHANGED progress
    /\ UNCHANGED <<token, unpacked, decodes, outdated, subs>>

Collect(r, s) ==
    LET left == (run[r].todo \cap subs) \ {s}
        ids  == run[r].ids \cup {s}
    IN
    /\ run[r].at = "collect" /\ s \in run[r].todo
    /\ IF left = {} THEN Judging(r, ids)
       ELSE /\ run' = [run EXCEPT ![r].ids = ids, ![r].todo = left]
            /\ UNCHANGED progress
    /\ UNCHANGED <<token, unpacked, decodes, outdated, subs>>

\* The answers of the authorize functions are there.
Settle(r, denied, renew) ==
    /\ run[r].at = "judging" /\ denied \subseteq run[r].ids
    /\ run' = [run EXCEPT ![r].at = "settled", ![r].denied = denied, ![r].renew = renew]
    /\ UNCHANGED <<token, unpacked, decodes, outdated, subs, progress>>

\* Unsubscribes what was refused and sends the Token message; a subscription
\* that has gone in the meantime makes the callback fail before it is sent,
\* with what comes after it still subscribed.
Answer(r) ==
    LET denied == run[r].denied IN
    \/ /\ denied \subseteq subs
       /\ run' = [run EXCEPT ![r] = NoRun]
       /\ subs' = subs \ denied
    \/ /\ ~(denied \subseteq subs)
       /\ run' = [run EXCEPT ![r].at = "failed"]
       /\ \E before \in SUBSET (denied \cap subs) : subs' = subs \ before

\* The callback of allSettled; it ends authorizeInProgress, whosever that is.
\* An expired token may be renewed first.
Settled(r) ==
    /\ run[r].at = "settled"
    /\ progress' = None
    /\ IF run[r].renew
       THEN run' = [run EXCEPT ![r].at = "renewing"] /\ UNCHANGED subs
       ELSE Answer(r)
    /\ UNCHANGED <<token, unpacked, decodes, outdated>>

\* renewToken gives a new token, which is sent, or fails.  (Without a token in
\* its result nothing is refused: the loop runs over that result.)
Renewed(r) ==
    /\ run[r].at = "renewing"
    /\ run' = [run EXCEPT ![r] = NoRun]
    /\ UNCHANGED <<token, unpacked, decodes, outdated, subs, progress>>

RenewFailed(r) ==
    /\ run[r].at = "renewing"
    /\ Answer(r)
    /\ UNCHANGED <<token, unpacked, decodes, outdated, progress>>
-----------------------------------------------------------------------------
\* client.token() decodes the token unless it was decoded before.
AskToken ==
    /\ unpacked = None /\ token # None /\ token \notin decodes
    /\ decodes' = decodes \cup {token}
    /\ UNCHANGED <<token, unpacked, outdated, subs, run, progress>>

Decoded(t, valid) ==
    /\ t \in decodes
    /\ decodes' = decodes \ {t}
    /\ unpacked' = IF valid THEN t ELSE unpacked
    /\ UNCHANGED <<token, outdated, subs, run, progress>>

\* The client subscribes or unsubscribes (a request that got through).
Subscriptions(s) ==
    /\ subs' = IF s \in subs THEN subs \ {s} ELSE subs \cup {s}
    /\ UNCHANGED <<token, unpacked, decodes, outdated, run, progress>>

Next ==
    \/ \E r \in Runs :
           \/ \E t \in Tokens \cup {None} : TokenMessage(r, t)
           \/ NoAuthorize(r) \/ Authorize(r)
           \/ \E s \in Subs : Collect(r, s)
           \/ \E denied \in SUBSET Subs, renew \in BOOLEAN : Settle(r, denied, renew)
           \/ Settled(r) \/ Renewed(r) \/ RenewFailed(r)
    \/ AskToken
    \/ \E t \in Tokens, valid \in BOOLEAN : Decoded(t, valid)
    \/ \E s \in Subs : Subscriptions(s)

Spec == Init /\ [][Next]_vars
-----------------------------------------------------------------------------
(***************************************************************************)
(* Properties.                                                             *)
(***************************************************************************)
\* The decoded token the server goes by is that of the client's token, or of
\* one that was being decoded when the token last changed: token() stores what
\* it awaited without looking at the token again.  The next change forgets it,
\* and what is decoded for the new token is never taken for another one's.
UnpackedIsAccounted ==
    unpacked \in {None, token} \cup outdated /\ decodes \subseteq {token} \cup outdated
=============================================================================
