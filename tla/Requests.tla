------------------------------ MODULE Requests ------------------------------
(***************************************************************************)
(* Requests and their answers: set(), get(), call(), delete() and the like *)
(* of one client (packages/client: request.ts, queue.ts, Client.onData),   *)
(* their authorization and the handlers of the server (packages/server:    *)
(* handlers/handleRequests.ts, authorize.ts, messageParser.ts and the      *)
(* handlers).  The payloads do not matter, what becomes of a request does. *)
(*                                                                         *)
(* The requests that one timeout sends make a batch.  The server judges a  *)
(* batch as a whole; its handlers await on their own.  A broken connection *)
(* takes with it whatever is not in the queue of the client.               *)
(***************************************************************************)
EXTENDS Naturals, FiniteSets, SequencesExt

CONSTANTS
    Callers,  \* each waits for the promise of one request
    MaxIds    \* bounds requestIdCnt

VARIABLES
    owner,     \* per id: the caller that waits for it, 0 if it is not used
    kind,      \* per id: what the server makes of it
    callback,  \* the ids of client.requestCallbacks
    queue,     \* client.queue
    draining,  \* client.drainInProgress
    online,    \* client.connected
    up,        \* batches on their way to the server
    judging,   \* batches in authorize()
    granted,   \* history: ids that authorize() let through
    handled,   \* history: ids a handler was called for
    working,   \* ids whose handler awaits
    answers,   \* answers on their way to the client
    retrying,  \* client.retryingRenewToken
    renewing,  \* ids for which a new token was asked for
    settled,   \* per caller: how often its promise was settled
    lost       \* history: ids lost with a connection or never answered

vars == <<owner, kind, callback, queue, draining, online, up, judging, granted,
          handled, working, answers, retrying, renewing, settled, lost>>

server == <<judging, granted, handled, working>>
renewal == <<retrying, renewing>>

Ids == 1..MaxIds
NextId == Cardinality({i \in Ids : owner[i] # 0}) + 1

\* What the server makes of a request: whether a refusal is told, and whether
\* the handler throws before its try, so that nobody is told anything.
Kind(told, throws) == [told |-> told, throws |-> throws]

\* A handler has answered once, with its result or its error, when it is done:
\* these do so whatever the database makes of it.
Answers == {Kind(TRUE, FALSE)}
GetRequest       == Answers  \* cached, or read
DeleteRequest    == Answers  \* first its file, if it has one
DigestRequest    == Answers  \* at once
ConfigureRequest == Answers  \* one schema or several at once
GetConfigRequest == Answers  \* the schemas one by one

\* A string for payload throws; a bulk update is not told that it is refused.
SetRequest        == {Kind(TRUE, throws) : throws \in BOOLEAN}
BulkUpdateRequest == {Kind(FALSE, throws) : throws \in BOOLEAN}

RemoveFieldRequest == {Kind(FALSE, FALSE)}
RemoveTypeRequest  == {Kind(FALSE, FALSE)}

\* The function is looked up outside of the try.
CallRequest == {Kind(TRUE, throws) : throws \in BOOLEAN}

Kinds == GetRequest \cup DeleteRequest \cup DigestRequest \cup ConfigureRequest
         \cup GetConfigRequest \cup SetRequest \cup BulkUpdateRequest
         \cup RemoveFieldRequest \cup RemoveTypeRequest \cup CallRequest

Init ==
    /\ owner = [i \in Ids |-> 0]
    /\ kind = [i \in Ids |-> Kind(TRUE, FALSE)]
    /\ callback = {} /\ queue = <<>> /\ draining = FALSE /\ online = TRUE
    /\ up = <<>> /\ judging = {} /\ granted = {} /\ handled = {} /\ working = {}
    /\ answers = {} /\ retrying = FALSE /\ renewing = {} /\ lost = {}
    /\ settled = [c \in Callers |-> 0]
-----------------------------------------------------------------------------
\* addRequest() and addToQueue().
AddRequest(c, k) ==
    /\ NextId \in Ids
    /\ owner' = [owner EXCEPT ![NextId] = c]
    /\ kind' = [kind EXCEPT ![NextId] = k]
    /\ callback' = callback \cup {NextId}
    /\ queue' = Append(queue, NextId)
    /\ draining' = (draining \/ online)

Call(c, k) ==
    /\ \A i \in Ids : owner[i] # c
    /\ AddRequest(c, k)
    /\ UNCHANGED <<server, renewal, online, up, answers, settled, lost>>

\* Mutant: what was sent stays in the queue.
DrainAndKeep ==
    /\ draining /\ draining' = FALSE
    /\ up' = Append(up, queue)
    /\ UNCHANGED <<server, renewal, owner, kind, callback, queue, online, answers, settled, lost>>

\* The timeout of drainQueue().
Drain ==
    /\ draining /\ draining' = FALSE
    /\ up' = IF queue = <<>> THEN up ELSE Append(up, queue)
    /\ queue' = <<>>
    /\ UNCHANGED <<server, renewal, owner, kind, callback, online, answers, settled, lost>>

\* onClose(): stopDrainQueue(); the queue stays.  A renewal may be on the way.
Disconnect(renewals) ==
    /\ online /\ online' = FALSE /\ draining' = FALSE
    /\ lost' = lost \cup working \cup {a.id : a \in answers} \cup renewals
                    \cup UNION {ToSet(b) : b \in judging \cup ToSet(up)}
    /\ up' = <<>> /\ judging' = {} /\ working' = {} /\ answers' = {}
    /\ renewing' = renewing \ renewals
    /\ UNCHANGED <<owner, kind, callback, queue, granted, handled, retrying, settled>>

\* onOpen(): drainQueue().
Reconnect ==
    /\ ~online /\ online' = TRUE
    /\ draining' = (queue # <<>>)
    /\ UNCHANGED <<server, renewal, owner, kind, callback, queue, up, answers, settled, lost>>
-----------------------------------------------------------------------------
Receive ==
    /\ up # <<>>
    /\ judging' = judging \cup {Head(up)}
    /\ up' = Tail(up)
    /\ UNCHANGED <<renewal, owner, kind, callback, queue, draining, online, granted,
                   handled, working, answers, settled, lost>>

\* authorize() takes a refused request out of the rest by its place.
\* Mutant: the place is not corrected for those that were taken out before.
TakeOutUncorrected(a, batch, refused, i) ==
    IF batch[i] \notin refused \/ i > Len(a.rest) THEN a
    ELSE [rest |-> RemoveAt(a.rest, i), out |-> Append(a.out, a.rest[i])]

TakeOut(a, batch, refused, i) ==
    LET k == i - Len(a.out) IN
    IF batch[i] \notin refused THEN a
    ELSE [rest |-> RemoveAt(a.rest, k), out |-> Append(a.out, a.rest[k])]

\* One request of the batch after the other.
Split(batch, refused) ==
    LET after[i \in 0..Len(batch)] ==
            IF i = 0 THEN [rest |-> batch, out |-> <<>>]
            ELSE TakeOut(after[i - 1], batch, refused, i)
    IN  after[Len(batch)]

\* messageParser() calls the handlers of the rest; the refused are told.
Judge(batch, refused, why) ==
    LET split == Split(batch, refused)
        told  == {i \in ToSet(split.out) : kind[i].told}
    IN
    /\ batch \in judging /\ judging' = judging \ {batch}
    /\ granted' = granted \cup (ToSet(batch) \ refused)
    /\ handled' = handled \cup ToSet(split.rest)
    /\ working' = working \cup {i \in ToSet(split.rest) : ~kind[i].throws}
    /\ answers' = answers \cup {[id |-> i, is |-> why] : i \in told}
    /\ lost' = lost \cup (ToSet(split.out) \ told)
                    \cup {i \in ToSet(split.rest) : kind[i].throws}
    /\ UNCHANGED <<renewal, owner, kind, callback, queue, draining, online, up, settled>>

\* A handler answers with its result or its error.
Handled(i) ==
    /\ i \in working
    /\ working' = working \ {i}
    /\ answers' = answers \cup {[id |-> i, is |-> "settled"]}
    /\ UNCHANGED <<renewal, owner, kind, callback, queue, draining, online, up,
                   judging, granted, handled, settled, lost>>
-----------------------------------------------------------------------------
Settle(i) == settled' = [settled EXCEPT ![owner[i]] = @ + 1]

\* Mutant: while a token is renewed, another expired answer is put aside.
AnsweredAside(a) ==
    /\ a \in answers /\ answers' = answers \ {a}
    /\ retrying' = (retrying \/ a.is = "expired")
    /\ renewing' = IF a.is = "expired" /\ ~retrying THEN renewing \cup {a.id} ELSE renewing
    /\ callback' = IF a.is = "expired" THEN callback ELSE callback \ {a.id}
    /\ IF a.is # "expired" /\ a.id \in callback THEN Settle(a.id) ELSE UNCHANGED settled
    /\ UNCHANGED <<server, owner, kind, queue, draining, online, up, lost>>

\* onData(): the first answer that the token expired asks for a new one, any
\* other settles the promise and deletes the callback.
Answered(a) ==
    /\ a \in answers /\ answers' = answers \ {a}
    /\ IF a.is = "expired" /\ ~retrying
       THEN /\ retrying' = TRUE
            /\ renewing' = renewing \cup {a.id}
            /\ UNCHANGED <<callback, settled>>
       ELSE /\ callback' = callback \ {a.id}
            /\ IF a.id \in callback THEN Settle(a.id) ELSE UNCHANGED settled
            /\ UNCHANGED renewal
    /\ UNCHANGED <<server, owner, kind, queue, draining, online, up, lost>>

\* The new token has come: the request is made again under another id.  The
\* callback of the first stays.
Renewed(i) ==
    /\ online /\ i \in renewing
    /\ renewing' = renewing \ {i}
    /\ AddRequest(owner[i], kind[i])
    /\ UNCHANGED <<server, online, up, answers, retrying, settled, lost>>

NotRenewed(i) ==
    /\ online /\ i \in renewing
    /\ renewing' = renewing \ {i}
    /\ IF i \in callback THEN Settle(i) ELSE UNCHANGED settled
    /\ UNCHANGED <<server, owner, kind, callback, queue, draining, online, up,
                   answers, retrying, lost>>

\* The reply to a Token message.
TokenReply ==
    /\ online /\ retrying /\ retrying' = FALSE
    /\ UNCHANGED <<server, owner, kind, callback, queue, draining, online, up,
                   answers, renewing, settled, lost>>

SomeJudged == \E b \in judging, why \in {"settled", "expired"} :
                  \E refused \in SUBSET ToSet(b) : Judge(b, refused, why)
SomeHandled == \E i \in Ids : Handled(i)
SomeAnswered == \E a \in answers : Answered(a)
SomeRenewed == \E i \in Ids : Renewed(i) \/ NotRenewed(i)

Next ==
    \/ \E c \in Callers, k \in Kinds : Call(c, k)
    \/ \E renewals \in SUBSET renewing : Disconnect(renewals)
    \/ Drain \/ Reconnect \/ Receive \/ TokenReply
    \/ SomeJudged \/ SomeHandled \/ SomeAnswered \/ SomeRenewed

\* Timeouts fire and messages travel; functions of the server return.
Fairness ==
    /\ WF_vars(Drain) /\ WF_vars(Receive) /\ WF_vars(SomeJudged)
    /\ WF_vars(SomeHandled) /\ WF_vars(SomeAnswered) /\ WF_vars(SomeRenewed)

Spec == Init /\ [][Next]_vars /\ Fairness
-----------------------------------------------------------------------------
(***************************************************************************)
(* Properties.                                                             *)
(***************************************************************************)
\* The places a request can be in.
Queued == ToSet(queue)
Sent == UNION {ToSet(b) : b \in ToSet(up)}
Judged == UNION {ToSet(b) : b \in judging}
Answering == {a.id : a \in answers}
Places == <<Queued, Sent, Judged, working, Answering, renewing, lost>>

Settled(i) == owner[i] # 0 /\ settled[owner[i]] # 0
Repeated(i) == \E j \in Ids : j > i /\ owner[j] = owner[i]

\* A request whose caller waits is in one place, never in two; and no promise
\* is settled twice, however often the token expires.
RequestAccounted ==
    /\ \A i \in Ids : owner[i] # 0 /\ ~Settled(i) /\ ~Repeated(i) =>
           \E p \in DOMAIN Places : i \in Places[p]
    /\ \A i \in Ids : \A p, q \in DOMAIN Places :
           i \in Places[p] \cap Places[q] => p = q
    /\ \A c \in Callers : settled[c] <= 1

\* No handler is called for a request that was refused.
OnlyGrantedHandled == handled \subseteq granted

\* Callers learn what became of their requests, unless those were lost: while
\* the connection stays there is time and again nobody left who waits.  (A
\* connection that comes and goes for ever, or the bound on ids, may prevent it.)
RequestEnds ==
    []<>(\A i \in callback : Settled(i) \/ Repeated(i) \/ i \in lost
                             \/ ~online \/ NextId \notin Ids)
=============================================================================
