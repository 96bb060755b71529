----------------------------- MODULE ClientAuth -----------------------------
(***************************************************************************)
(* Who the client says it is (packages/client: auth() and observeAuth() of *)
(* Based, auth.ts, token.ts, updateUserState, initUserState and the Token  *)
(* replies in Client.onData).  A Token message has no request id: one      *)
(* reply settles all that wait, for whichever token it was.                *)
(*                                                                         *)
(* The server (ServerToken models it) remembers the token at once and      *)
(* answers when authorize() has, or never: when the program has no such    *)
(* function, or the handler throws before it sends the reply.  The page    *)
(* has a localStorage.                                                     *)
(***************************************************************************)
EXTENDS Naturals, Sequences

CONSTANTS
    Tokens,
    NoToken,  \* also the answer of an auth callback without a token
    MaxAuths  \* bounds the calls of the program

VARIABLES
    clientToken,  \* client.token
    user,         \* client.user is not false
    waiters,      \* client.auth: NoToken for the promise of auth(), otherwise
                  \* the token that updateUserState() waits to store
    beingAuth,    \* client.beingAuth
    localStorage, \* the token stored for the next visit
    seen,         \* what observeAuth() said last: somebody is logged in
    authUp,       \* client.connected
    tokensUp,     \* Token messages on their way to the server
    judged,       \* how many of them authorize() judges
    tokensDown,   \* replies on their way: [valid, renewed]
    serverToken,  \* the token of the server's Client
    authCalls,    \* client.authCallbacks and register(): [is, user]
    auths,        \* how many calls the program made
    apart,        \* history: a renewed token came that the server was not sent
    unasked,      \* history: nothing was sent that a waiter can wait for
    unanswered    \* history: the server let a token of the connection go without
                  \* a reply, and no token was sent since

vars == <<clientToken, user, waiters, beingAuth, localStorage, seen, authUp, tokensUp,
          judged, tokensDown, serverToken, authCalls, auths, apart, unasked, unanswered>>

wires == <<authUp, judged, tokensDown, serverToken>>
OnTheWay == tokensUp # <<>> \/ judged > 0 \/ tokensDown # <<>>

Init ==
    /\ clientToken = NoToken /\ user = FALSE /\ waiters = <<>> /\ beingAuth = FALSE
    /\ localStorage = NoToken /\ seen = FALSE /\ authUp = FALSE
    /\ tokensUp = <<>> /\ judged = 0 /\ tokensDown = <<>> /\ serverToken = NoToken
    /\ authCalls = {} /\ auths = 0 /\ apart = FALSE /\ unasked = FALSE
    /\ unanswered = FALSE
-----------------------------------------------------------------------------
\* Mutant: the token is only remembered for the next connection.
SendTokensLater(ts) ==
    /\ beingAuth' = TRUE
    /\ clientToken' = ts[Len(ts)]
    /\ UNCHANGED tokensUp
    /\ apart' = (apart /\ ~authUp) /\ unasked' = (unasked /\ ~authUp)
    /\ unanswered' = (unanswered /\ ~authUp)

\* sendToken(), for one token after another.
SendTokens(ts) ==
    /\ beingAuth' = TRUE
    /\ clientToken' = ts[Len(ts)]
    /\ tokensUp' = IF authUp THEN tokensUp \o ts ELSE tokensUp
    /\ apart' = (apart /\ ~authUp) /\ unasked' = (unasked /\ ~authUp)
    /\ unanswered' = (unanswered /\ ~authUp)

\* updateUserState(); before are the tokens that were sent just before it.
UpdateUserState(isUser, token, before) ==
    /\ SendTokens(Append(before, token))
    /\ IF token # NoToken
       THEN /\ user' = isUser
            /\ waiters' = Append(waiters, token)
            /\ UNCHANGED <<localStorage, seen>>
       ELSE /\ user' = FALSE /\ localStorage' = NoToken /\ seen' = FALSE
            /\ UNCHANGED waiters

\* initUserState(): a token was stored at an earlier visit.
InitUserState(token) ==
    /\ auths = 0 /\ auths' = 1
    /\ UpdateUserState(TRUE, token, <<>>)
    /\ UNCHANGED <<wires, authCalls>>

MayCall == auths < MaxAuths /\ auths' = auths + 1

\* auth() with the token the client has.
AuthSame ==
    /\ MayCall /\ clientToken # NoToken
    /\ waiters' = IF beingAuth THEN Append(waiters, NoToken) ELSE waiters
    /\ UNCHANGED <<wires, clientToken, user, beingAuth, localStorage, seen, tokensUp,
                   authCalls, apart, unasked, unanswered>>

\* auth() with another token, or false when there is one.
AuthToken(token) ==
    /\ MayCall /\ token # clientToken
    /\ SendTokens(<<token>>)
    /\ waiters' = Append(waiters, NoToken)
    /\ seen' = (user /\ token # NoToken)
    /\ UNCHANGED <<wires, user, localStorage, authCalls>>

\* auth() with a token, a user and a refresh token.
AuthUser(token) ==
    /\ MayCall /\ token # clientToken /\ token # NoToken
    /\ SendTokens(<<token>>)
    /\ user' = TRUE
    /\ waiters' = waiters \o <<NoToken, token>>
    /\ UNCHANGED <<wires, localStorage, seen, authCalls>>

\* auth(false) without a token waits, but sends nothing.
AuthNobody ==
    /\ MayCall /\ clientToken = NoToken
    /\ waiters' = Append(waiters, NoToken)
    /\ unasked' = (unasked \/ ~OnTheWay)
    /\ UNCHANGED <<wires, clientToken, user, beingAuth, localStorage, seen, tokensUp,
                   authCalls, apart, unanswered>>

\* login(), register(), logout() and the renewal of an expired token.
AuthRequest(is) ==
    /\ MayCall /\ authUp
    /\ authCalls' = authCalls \cup {[is |-> is, user |-> user]}
    /\ UNCHANGED <<wires, clientToken, user, waiters, beingAuth, localStorage, seen,
                   tokensUp, apart, unasked, unanswered>>

\* The answer: a token or none.  A renewed token is sent twice.
AuthResponse(call, token) ==
    /\ call \in authCalls /\ authCalls' = authCalls \ {call}
    /\ CASE call.is = "login"  -> UpdateUserState(TRUE, token, <<>>)
         [] call.is = "logout" -> UpdateUserState(FALSE, NoToken, <<>>)
         [] call.is = "renew"  -> UpdateUserState(call.user, token, <<token>>)
    /\ UNCHANGED <<wires, auths>>

AuthRejected(call) ==
    /\ call \in authCalls /\ authCalls' = authCalls \ {call}
    /\ UNCHANGED <<wires, clientToken, user, waiters, beingAuth, localStorage, seen,
                   tokensUp, auths, apart, unasked, unanswered>>
-----------------------------------------------------------------------------
\* onOpen(): the token goes first.
AuthOpen ==
    /\ ~authUp /\ authUp' = TRUE
    /\ IF clientToken # NoToken
       THEN tokensUp' = <<clientToken>> /\ beingAuth' = TRUE /\ unasked' = FALSE
       ELSE UNCHANGED <<tokensUp, beingAuth>> /\ unasked' = TRUE
    /\ apart' = FALSE /\ unanswered' = FALSE
    /\ UNCHANGED <<clientToken, user, waiters, localStorage, seen, judged, tokensDown,
                   serverToken, authCalls, auths>>

\* The connection goes; the server has another Client for the next.
AuthDown ==
    /\ authUp /\ authUp' = FALSE
    /\ tokensUp' = <<>> /\ judged' = 0 /\ tokensDown' = <<>> /\ serverToken' = NoToken
    /\ \E lost \in SUBSET authCalls : authCalls' = authCalls \ lost
    /\ UNCHANGED <<clientToken, user, waiters, beingAuth, localStorage, seen, auths,
                   apart, unasked, unanswered>>

ServerTakes ==
    /\ tokensUp # <<>>
    /\ serverToken' = Head(tokensUp) /\ tokensUp' = Tail(tokensUp)
    /\ judged' = judged + 1
    /\ UNCHANGED <<clientToken, user, waiters, beingAuth, localStorage, seen, authUp,
                   tokensDown, authCalls, auths, apart, unasked, unanswered>>

\* An expired token may be renewed; the server's Client keeps the old one.
ServerReplies(valid, renewed) ==
    /\ judged > 0 /\ judged' = judged - 1
    /\ renewed # NoToken => valid
    /\ tokensDown' = Append(tokensDown, [valid |-> valid, renewed |-> renewed])
    /\ UNCHANGED <<clientToken, user, waiters, beingAuth, localStorage, seen, authUp,
                   tokensUp, serverToken, authCalls, auths, apart, unasked, unanswered>>

\* The program has no authorize function, or the handler throws: a function of
\* a subscription does, or a refused subscription has gone (token.ts).
ServerIsSilent ==
    /\ judged > 0 /\ judged' = judged - 1
    /\ unanswered' = TRUE
    /\ UNCHANGED <<clientToken, user, waiters, beingAuth, localStorage, seen, authUp,
                   tokensUp, tokensDown, serverToken, authCalls, auths, apart, unasked>>

\* A Token reply: all callbacks are called, the last one that stores wins.
TokenData ==
    LET reply == Head(tokensDown)
        adopt == reply.renewed # NoToken /\ user
        stores == SelectSeq(waiters, LAMBDA w : w # NoToken)
    IN
    /\ tokensDown # <<>> /\ tokensDown' = Tail(tokensDown)
    /\ clientToken' = IF adopt THEN reply.renewed ELSE clientToken
    /\ apart' = (apart \/ adopt)
    /\ waiters' = <<>> /\ beingAuth' = FALSE
    /\ IF stores = <<>> THEN UNCHANGED <<localStorage, seen>>
       ELSE /\ localStorage' = IF reply.valid THEN stores[Len(stores)] ELSE NoToken
            /\ seen' = (reply.valid /\ user /\ clientToken' # NoToken)
    /\ unasked' = FALSE /\ unanswered' = FALSE
    /\ UNCHANGED <<user, authUp, tokensUp, judged, serverToken, authCalls, auths>>

Next ==
    \/ \E t \in Tokens : InitUserState(t) \/ AuthUser(t)
    \/ \E t \in Tokens \cup {NoToken} : AuthToken(t)
    \/ AuthSame \/ AuthNobody \/ AuthOpen \/ AuthDown
    \/ ServerTakes \/ ServerIsSilent \/ TokenData
    \/ \E is \in {"login", "logout", "renew"} : AuthRequest(is)
    \/ \E c \in authCalls : AuthRejected(c) \/ \E t \in Tokens \cup {NoToken} : AuthResponse(c, t)
    \/ \E b \in BOOLEAN, t \in Tokens \cup {NoToken} : ServerReplies(b, t)

Spec == Init /\ [][Next]_vars
-----------------------------------------------------------------------------
(***************************************************************************)
(* Properties.                                                             *)
(***************************************************************************)
\* Client and server are in step: when nothing is on its way the server has
\* the token the client has, but for one that was renewed for it; and who
\* waits while the client is connected waits for a reply that may still come,
\* or hangs for one of two reasons: nothing was asked (auth(false) without a
\* token, or a logout whose connection broke), or the server let a token go
\* without a reply and no token was sent after it.
TokenInStep ==
    /\ authUp /\ ~OnTheWay /\ ~apart => serverToken = clientToken
    /\ authUp /\ waiters # <<>> => OnTheWay \/ unasked \/ unanswered
=============================================================================
