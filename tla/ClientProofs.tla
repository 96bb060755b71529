---------------------------- MODULE ClientProofs ----------------------------
(***************************************************************************)
(* Proofs about the parts of the client that share no state with others:   *)
(* Connection (CN), ClientAuth (CA) and Tracking (TR), and the commands    *)
(* (CL).  Each has an inductive invariant of its own, one lemma per action *)
(* of the part, and the theorems that name the properties the runs check.  *)
(***************************************************************************)
EXTENDS Parts, Integers, Sequences, FiniteSetTheorems, TLAPS

-----------------------------------------------------------------------------
(***************************************************************************)
(* A behaviour of Spec is, for every part, one of the part.                *)
(***************************************************************************)
LEMMA ConnectionPart == (Init => CN!Init) /\ ([Next]_vars => [CN!Next]_(CN!vars))
BY DEF Init, Next, In, Others, vars, CN!vars

LEMMA AuthPart == (Init => CA!Init) /\ ([Next]_vars => [CA!Next]_(CA!vars))
BY DEF Init, Next, In, Others, vars, CA!vars

LEMMA TrackPart == (Init => TR!Init) /\ ([Next]_vars => [TR!Next]_(TR!vars))
BY DEF Init, Next, In, Others, vars, TR!vars

LEMMA CliPart == (Init => CL!Init) /\ ([Next]_vars => [CL!Next]_cli)
BY DEF Init, Next, In, Others, vars

\* What is left of a sequence after its first element.
LEMMA HeadAndTail ==
    ASSUME NEW S, NEW s \in Seq(S), s # <<>>
    PROVE  /\ Head(s) \in S /\ Tail(s) \in Seq(S)
           /\ Len(Tail(s)) = Len(s) - 1 /\ Len(s) \in Nat /\ Len(s) >= 1
           /\ \A i \in 1..(Len(s) - 1) : Tail(s)[i] = s[i + 1]
           /\ Tail(s) = <<>> => s[Len(s)] = Head(s)
           /\ Tail(s) # <<>> => Tail(s)[Len(Tail(s))] = s[Len(s)]
<1>1. /\ Head(s) \in S /\ Tail(s) \in Seq(S) /\ Len(s) \in Nat /\ Len(s) >= 1
      /\ Len(Tail(s)) = Len(s) - 1 /\ Head(s) = s[1]
  OBVIOUS
<1>2. \A i \in 1..(Len(s) - 1) : Tail(s)[i] = s[i + 1]
  OBVIOUS
<1>3. ASSUME Tail(s) = <<>> PROVE Len(s) = 1
  <2>1. Len(<<>>) = 0
    OBVIOUS
  <2>2. Len(s) - 1 = 0
    BY <1>1, <1>3, <2>1, Zenon
  <2>3. \A n \in Nat : n - 1 = 0 => n = 1
    OBVIOUS
  <2>4. QED
    BY <1>1, <2>2, <2>3, Zenon
<1>4. Tail(s) # <<>> => Len(s) - 1 \in 1..(Len(s) - 1)
  BY <1>1
<1>5. QED
  BY <1>1, <1>2, <1>3, <1>4

-----------------------------------------------------------------------------
(***************************************************************************)
(* Connecting.                                                             *)
(***************************************************************************)
Live == {"connecting", "open", "closing"}

\* What the timers and listeners refer to is there: a socket that was not
\* made is active, the listener is that of a socket that was made, the timer
\* that sends a page to the background runs in a hidden page only.
ConnectionShape ==
    /\ sockets \in [CN!Sockets -> Live \cup {"none", "closed"}]
    /\ isActive \in [CN!Sockets -> BOOLEAN]
    /\ loading \in Nat /\ timing \in Nat
    /\ listener \in CN!Sockets \cup {0}
    /\ \A s \in CN!Sockets : sockets[s] = "none" => isActive[s]
    /\ listener # 0 => sockets[listener] # "none"
    /\ hiddenTimer => hidden
    /\ disconnected => ~connected

ComesBack ==
    \/ disconnected \/ rejected
    \/ \E s \in CN!Sockets : isActive[s] /\ sockets[s] \in Live
    \/ loading + timing > 0
    \/ hidden /\ listener # 0 /\ ~isActive[listener]

ConnectedIsOpen == connected => \E s \in CN!Sockets : isActive[s] /\ sockets[s] = "open"

ConnectionInv == ConnectionShape /\ ComesBack /\ ConnectedIsOpen

\* connect() puts a url or a timer on its way.
LEMMA ConnectWaits ==
    ASSUME loading \in Nat, timing \in Nat, CN!Connect
    PROVE  loading' \in Nat /\ timing' \in Nat /\ loading' + timing' > 0
BY DEF CN!Connect

LEMMA UrlOK ==
    ASSUME ConnectionInv, CN!UrlLoaded \/ CN!UrlRejected
    PROVE  ConnectionInv'
<1>1. /\ UNCHANGED <<sockets, isActive, listener, disconnected, connected, hidden, hiddenTimer>>
      /\ loading' \in Nat /\ timing' \in Nat
      /\ rejected' \/ (loading' + timing' > 0)
  BY DEF CN!UrlLoaded, CN!UrlRejected, CN!page, ConnectionInv, ConnectionShape
<1>2. ConnectionShape'
  BY <1>1 DEF ConnectionInv, ConnectionShape
<1>3. ComesBack' /\ ConnectedIsOpen'
  BY <1>1 DEF ConnectionInv, ComesBack, ConnectedIsOpen
<1>4. QED
  BY <1>2, <1>3 DEF ConnectionInv

\* The socket the timer makes is active, and the listener is its own.
LEMMA OpenOK ==
    ASSUME ConnectionInv, NEW s \in CN!Sockets, CN!Open(s)
    PROVE  ConnectionInv'
<1>1. /\ UNCHANGED <<isActive, loading, disconnected, connected, hidden, hiddenTimer, rejected>>
      /\ timing' \in Nat /\ sockets[s] = "none" /\ isActive[s] /\ s # 0
  BY BoundsAreNumbers DEF CN!Open, CN!Is, CN!page, ConnectionInv, ConnectionShape, CN!Sockets
<1>2. CASE disconnected
  <2>1. sockets' = sockets /\ listener' = listener
    BY <1>2 DEF CN!Open
  <2>2. QED
    BY <1>1, <1>2, <2>1 DEF ConnectionInv, ConnectionShape, ComesBack, ConnectedIsOpen
<1>3. CASE ~disconnected
  <2>1. sockets' = [sockets EXCEPT ![s] = "connecting"] /\ listener' = s
    BY <1>3 DEF CN!Open
  <2>2. \A t \in CN!Sockets : sockets'[t] = IF t = s THEN "connecting" ELSE sockets[t]
    BY <2>1 DEF ConnectionInv, ConnectionShape
  <2>3. ConnectionShape'
    BY <1>1, <2>1, <2>2 DEF ConnectionInv, ConnectionShape, Live
  <2>4. isActive'[s] /\ sockets'[s] \in Live
    BY <1>1, <2>2 DEF Live
  <2>5. ComesBack'
    BY <2>4 DEF ComesBack
  <2>6. ConnectedIsOpen'
    BY <1>1, <2>2 DEF ConnectionInv, ConnectedIsOpen
  <2>7. QED
    BY <2>3, <2>5, <2>6 DEF ConnectionInv
<1>4. QED
  BY <1>2, <1>3

LEMMA OnOpenOK ==
    ASSUME ConnectionInv, NEW s \in CN!Sockets, CN!OnOpen(s)
    PROVE  ConnectionInv'
<1>1. /\ UNCHANGED <<isActive, loading, timing, listener, disconnected, hidden, hiddenTimer, rejected>>
      /\ sockets[s] = "connecting"
      /\ \A t \in CN!Sockets : sockets'[t] = IF t = s THEN "open" ELSE sockets[t]
      /\ sockets' = [sockets EXCEPT ![s] = "open"]
  BY DEF CN!OnOpen, CN!Is, CN!page, CN!queued, ConnectionInv, ConnectionShape
<1>2. connected' => connected \/ (isActive[s] /\ ~disconnected)
  BY DEF CN!OnOpen
<1>3. ConnectionShape'
  BY <1>1, <1>2 DEF ConnectionInv, ConnectionShape, Live
<1>4. ComesBack'
  BY <1>1 DEF ConnectionInv, ComesBack, Live
<1>5. ConnectedIsOpen'
  BY <1>1, <1>2 DEF ConnectionInv, ConnectedIsOpen
<1>6. QED
  BY <1>3, <1>4, <1>5 DEF ConnectionInv

LEMMA OnCloseOK ==
    ASSUME ConnectionInv, NEW s \in CN!Sockets, CN!OnClose(s)
    PROVE  ConnectionInv'
<1>1. /\ UNCHANGED <<isActive, listener, disconnected, hidden, hiddenTimer, rejected>>
      /\ sockets[s] \in Live
      /\ \A t \in CN!Sockets : sockets'[t] = IF t = s THEN "closed" ELSE sockets[t]
      /\ sockets' = [sockets EXCEPT ![s] = "closed"]
  BY DEF CN!OnClose, CN!Is, CN!page, ConnectionInv, ConnectionShape, Live
<1>2. CASE isActive[s] /\ ~disconnected
  <2>1. connected' = FALSE /\ CN!Connect
    BY <1>2 DEF CN!OnClose
  <2>2. loading' \in Nat /\ timing' \in Nat /\ loading' + timing' > 0
    BY <2>1, ConnectWaits DEF ConnectionInv, ConnectionShape
  <2>3. ConnectionShape'
    BY <1>1, <2>1, <2>2 DEF ConnectionInv, ConnectionShape, Live
  <2>4. QED
    BY <2>1, <2>2, <2>3 DEF ConnectionInv, ComesBack, ConnectedIsOpen
<1>3. CASE ~(isActive[s] /\ ~disconnected)
  <2>1. connected' = connected /\ loading' = loading /\ timing' = timing
    BY <1>3 DEF CN!OnClose, CN!queued
  <2>2. ConnectionShape'
    BY <1>1, <2>1 DEF ConnectionInv, ConnectionShape, Live
  <2>3. ComesBack'
    BY <1>1, <1>3, <2>1 DEF ConnectionInv, ComesBack
  <2>4. ConnectedIsOpen'
    BY <1>1, <1>3, <2>1 DEF ConnectionInv, ConnectionShape, ConnectedIsOpen
  <2>5. QED
    BY <2>2, <2>3, <2>4 DEF ConnectionInv
<1>4. QED
  BY <1>2, <1>3

\* The socket goes with the page; its listener is what will connect again.
LEMMA BackgroundOK ==
    ASSUME ConnectionInv, CN!Hide \/ CN!SendToBackground
    PROVE  ConnectionInv'
<1>1. CASE CN!Hide
  <2>1. /\ UNCHANGED <<sockets, isActive, loading, timing, listener, disconnected, connected, rejected>>
        /\ hidden' = TRUE
    BY <1>1 DEF CN!Hide, CN!queued
  <2>2. QED
    BY <2>1 DEF ConnectionInv, ConnectionShape, ComesBack, ConnectedIsOpen
<1>2. CASE CN!SendToBackground
  <2>1. /\ UNCHANGED <<loading, timing, listener, disconnected, hidden, rejected>>
        /\ hiddenTimer' = FALSE /\ hidden
    BY <1>2 DEF CN!SendToBackground, CN!queued, ConnectionInv, ConnectionShape
  <2>2. CASE listener # 0 /\ ~disconnected /\ isActive[listener]
    <3>1. /\ isActive' = [isActive EXCEPT ![listener] = FALSE]
          /\ connected' = FALSE
          /\ sockets' = CN!Closing(listener)
      BY <1>2, <2>2 DEF CN!SendToBackground
    <3>2. /\ listener \in CN!Sockets /\ sockets[listener] # "none"
          /\ sockets \in [CN!Sockets -> Live \cup {"none", "closed"}]
          /\ isActive \in [CN!Sockets -> BOOLEAN]
      BY <2>2 DEF ConnectionInv, ConnectionShape
    <3>3. /\ sockets' \in [CN!Sockets -> Live \cup {"none", "closed"}]
          /\ \A t \in CN!Sockets : sockets'[t] = "none" => sockets[t] = "none"
          /\ sockets'[listener] # "none"
      BY <3>1, <3>2 DEF CN!Closing, Live
    <3>4. /\ isActive' \in [CN!Sockets -> BOOLEAN]
          /\ \A t \in CN!Sockets : t # listener => isActive'[t] = isActive[t]
          /\ ~isActive'[listener]
      BY <3>1, <3>2
    <3>5. \A t \in CN!Sockets : sockets'[t] = "none" => isActive'[t]
      BY <3>3, <3>4 DEF ConnectionInv, ConnectionShape
    <3>6. ConnectionShape'
      BY <2>1, <3>1, <3>2, <3>3, <3>4, <3>5 DEF ConnectionInv, ConnectionShape
    <3>7. ComesBack' /\ ConnectedIsOpen'
      BY <2>1, <2>2, <3>1, <3>4 DEF ComesBack, ConnectedIsOpen
    <3>8. QED
      BY <3>6, <3>7 DEF ConnectionInv
  <2>3. CASE ~(listener # 0 /\ ~disconnected /\ isActive[listener])
    <3>1. UNCHANGED <<isActive, connected, sockets>>
      BY <1>2, <2>3 DEF CN!SendToBackground
    <3>2. QED
      BY <2>1, <3>1 DEF ConnectionInv, ConnectionShape, ComesBack, ConnectedIsOpen
  <2>4. QED
    BY <2>2, <2>3
<1>3. QED
  BY <1>1, <1>2

LEMMA ShowOK ==
    ASSUME ConnectionInv, CN!Show
    PROVE  ConnectionInv'
<1>1. /\ UNCHANGED <<sockets, isActive, disconnected, connected, rejected>>
      /\ hiddenTimer' = FALSE
  BY DEF CN!Show
<1>2. CASE listener # 0 /\ ~disconnected /\ ~isActive[listener]
  <2>1. listener' = 0 /\ CN!Connect
    BY <1>2 DEF CN!Show
  <2>2. loading' \in Nat /\ timing' \in Nat /\ loading' + timing' > 0
    BY <2>1, ConnectWaits DEF ConnectionInv, ConnectionShape
  <2>3. QED
    BY <1>1, <2>1, <2>2 DEF ConnectionInv, ConnectionShape, ComesBack, ConnectedIsOpen
<1>3. CASE ~(listener # 0 /\ ~disconnected /\ ~isActive[listener])
  <2>1. UNCHANGED <<listener, loading, timing>>
    BY <1>3 DEF CN!Show, CN!queued
  <2>2. QED
    BY <1>1, <1>3, <2>1 DEF ConnectionInv, ConnectionShape, ComesBack, ConnectedIsOpen
<1>4. QED
  BY <1>2, <1>3

LEMMA DisconnectOK ==
    ASSUME ConnectionInv, CN!Disconnect
    PROVE  ConnectionInv'
<1>1. /\ UNCHANGED <<isActive, loading, timing, hidden, hiddenTimer, rejected>>
      /\ disconnected' = TRUE /\ listener' = 0 /\ connected' = FALSE
  BY DEF CN!Disconnect, CN!queued, CN!page
<1>2. /\ sockets' \in [CN!Sockets -> Live \cup {"none", "closed"}]
      /\ \A t \in CN!Sockets : sockets'[t] = "none" => sockets[t] = "none"
  BY DEF CN!Disconnect, CN!Closing, ConnectionInv, ConnectionShape, Live
<1>3. QED
  BY <1>1, <1>2 DEF ConnectionInv, ConnectionShape, ComesBack, ConnectedIsOpen

\* The client is never stranded: for any number of sockets and every order of
\* urls, timers, opens, closes and visits of the page there is something that
\* will connect again, until disconnect() or a url that fails (websocket/).
THEOREM ClientComesBack == Spec => []NeverStranded
<1>1. CN!Init => ConnectionInv
  BY DEF CN!Init, ConnectionInv, ConnectionShape, ComesBack, ConnectedIsOpen
<1>2. ConnectionInv /\ [CN!Next]_(CN!vars) => ConnectionInv'
  <2>1. ConnectionInv /\ UNCHANGED CN!vars => ConnectionInv'
    BY DEF CN!vars, ConnectionInv, ConnectionShape, ComesBack, ConnectedIsOpen
  <2>2. ConnectionInv /\ CN!Next => ConnectionInv'
    BY UrlOK, OpenOK, OnOpenOK, OnCloseOK, BackgroundOK, ShowOK, DisconnectOK DEF CN!Next
  <2>3. QED
    BY <2>1, <2>2
<1>3. ConnectionInv => NeverStranded
  BY DEF NeverStranded, ConnectionInv, ComesBack, ConnectedIsOpen, CN!NeverStranded, CN!Is, Live
<1>4. QED
  BY <1>1, <1>2, <1>3, ConnectionPart, PTL DEF Spec
-----------------------------------------------------------------------------
(***************************************************************************)
(* The token.                                                              *)
(***************************************************************************)
AnyToken == Tokens \cup {NoToken}
TokenReplies == [valid : BOOLEAN, renewed : AnyToken]

\* Nothing is on its way without a connection, and no server knows the client.
AuthTypes ==
    /\ clientToken \in AnyToken
    /\ tokensUp \in Seq(AnyToken) /\ judged \in Nat /\ tokensDown \in Seq(TokenReplies)
    /\ \A c \in authCalls : c.is \in {"login", "logout", "renew"}
    /\ ~authUp => tokensUp = <<>> /\ judged = 0 /\ tokensDown = <<>> /\ serverToken = NoToken

\* The last token on its way is the client's, or the server has it; who is
\* between a token and its reply has one on its way, like who waits, unless the
\* server let it go.
AuthAgrees ==
    /\ authUp /\ ~apart => IF tokensUp = <<>> THEN serverToken = clientToken
                                             ELSE tokensUp[Len(tokensUp)] = clientToken
    /\ authUp /\ waiters # <<>> => CA!OnTheWay \/ unasked \/ unanswered
    /\ authUp /\ beingAuth => CA!OnTheWay \/ unasked \/ unanswered

AuthInv == AuthTypes /\ AuthAgrees

\* The last element of a concatenation is that of its second part.
LEMMA LastOfBoth ==
    ASSUME NEW S, NEW s \in Seq(S), NEW t \in Seq(S), t # <<>>
    PROVE  /\ s \o t \in Seq(S) /\ s \o t # <<>>
           /\ (s \o t)[Len(s \o t)] = t[Len(t)]
           /\ Len(t) \in 1..Len(t)
<1>1. /\ Len(s) \in Nat /\ Len(t) \in Nat /\ Len(t) > 0
      /\ Len(s \o t) = Len(s) + Len(t) /\ s \o t \in Seq(S)
  OBVIOUS
<1>2. s \o t # <<>>
  BY <1>1
<1>3. (s \o t)[Len(s) + Len(t)] = t[Len(t)]
  BY <1>1
<1>4. QED
  BY <1>1, <1>2, <1>3

\* sendToken(): the last token sent is the client's.
LEMMA SendTokensOK ==
    ASSUME AuthInv, NEW ts \in Seq(AnyToken), ts # <<>>, CA!SendTokens(ts),
           UNCHANGED CA!wires,
           \A c \in authCalls' : c.is \in {"login", "logout", "renew"}
    PROVE  AuthInv'
<1>1. /\ UNCHANGED <<authUp, judged, tokensDown, serverToken>>
      /\ clientToken' = ts[Len(ts)]
      /\ tokensUp' = IF authUp THEN tokensUp \o ts ELSE tokensUp
  BY DEF CA!SendTokens, CA!wires
<1>2. /\ tokensUp \in Seq(AnyToken) /\ Len(ts) \in 1..Len(ts)
      /\ tokensUp \o ts \in Seq(AnyToken) /\ tokensUp \o ts # <<>>
      /\ (tokensUp \o ts)[Len(tokensUp \o ts)] = ts[Len(ts)]
  BY LastOfBoth DEF AuthInv, AuthTypes
<1>3. clientToken' \in AnyToken
  BY <1>1, <1>2
<1>4. AuthTypes'
  BY <1>1, <1>2, <1>3 DEF AuthInv, AuthTypes
<1>5. AuthAgrees'
  BY <1>1, <1>2 DEF AuthAgrees, CA!OnTheWay
<1>6. QED
  BY <1>4, <1>5 DEF AuthInv

LEMMA UpdateUserStateOK ==
    ASSUME AuthInv, NEW u, NEW t \in AnyToken, NEW before \in Seq(AnyToken),
           CA!UpdateUserState(u, t, before), UNCHANGED CA!wires,
           \A c \in authCalls' : c.is \in {"login", "logout", "renew"}
    PROVE  AuthInv'
<1>1. Append(before, t) \in Seq(AnyToken) /\ Append(before, t) # <<>>
  OBVIOUS
<1>2. CA!SendTokens(Append(before, t))
  BY DEF CA!UpdateUserState
<1>3. QED
  BY <1>1, <1>2, SendTokensOK

\* What the program calls.
LEMMA AuthCallsOK ==
    ASSUME AuthInv, NEW t \in AnyToken,
           CA!InitUserState(t) \/ CA!AuthUser(t) \/ CA!AuthToken(t)
    PROVE  AuthInv'
<1>1. <<>> \in Seq(AnyToken) /\ <<t>> \in Seq(AnyToken) /\ <<t>> # <<>>
  OBVIOUS
<1>2. UNCHANGED CA!wires /\ authCalls' = authCalls
  BY DEF CA!InitUserState, CA!AuthUser, CA!AuthToken
<1>3. \A c \in authCalls' : c.is \in {"login", "logout", "renew"}
  BY <1>2 DEF AuthInv, AuthTypes
<1>4. CASE CA!InitUserState(t)
  <2>1. CA!UpdateUserState(TRUE, t, <<>>)
    BY <1>4 DEF CA!InitUserState
  <2>2. QED
    BY <1>1, <1>2, <1>3, <2>1, UpdateUserStateOK
<1>5. CASE CA!AuthUser(t) \/ CA!AuthToken(t)
  <2>1. CA!SendTokens(<<t>>)
    BY <1>5 DEF CA!AuthUser, CA!AuthToken
  <2>2. QED
    BY <1>1, <1>2, <1>3, <2>1, SendTokensOK
<1>6. QED
  BY <1>4, <1>5

LEMMA AuthResponseOK ==
    ASSUME AuthInv, NEW call \in authCalls, NEW t \in AnyToken, CA!AuthResponse(call, t)
    PROVE  AuthInv'
<1>1. UNCHANGED CA!wires /\ authCalls' = authCalls \ {call}
  BY DEF CA!AuthResponse
<1>2. call.is \in {"login", "logout", "renew"}
  BY DEF AuthInv, AuthTypes
<1>3. \A c \in authCalls' : c.is \in {"login", "logout", "renew"}
  BY <1>1 DEF AuthInv, AuthTypes
<1>4. /\ <<>> \in Seq(AnyToken) /\ <<t>> \in Seq(AnyToken) /\ NoToken \in AnyToken
  BY DEF AnyToken
<1>5. \/ CA!UpdateUserState(TRUE, t, <<>>)
      \/ CA!UpdateUserState(FALSE, NoToken, <<>>)
      \/ CA!UpdateUserState(call.user, t, <<t>>)
  BY <1>2 DEF CA!AuthResponse
<1>6. QED
  BY <1>1, <1>3, <1>4, <1>5, UpdateUserStateOK

\* Calls that send no token.
LEMMA AuthQuietOK ==
    ASSUME AuthInv,
           \/ CA!AuthSame \/ CA!AuthNobody
           \/ \E is \in {"login", "logout", "renew"} : CA!AuthRequest(is)
           \/ \E c \in authCalls : CA!AuthRejected(c)
    PROVE  AuthInv'
<1>1. /\ UNCHANGED <<authUp, judged, tokensDown, serverToken, clientToken, beingAuth, tokensUp, apart,
                     unanswered>>
      /\ unasked => unasked'
      /\ \A c \in authCalls' : c.is \in {"login", "logout", "renew"}
  <2>1. CASE CA!AuthSame
    BY <2>1 DEF CA!AuthSame, CA!wires, AuthInv, AuthTypes
  <2>2. CASE CA!AuthNobody
    BY <2>2 DEF CA!AuthNobody, CA!wires, AuthInv, AuthTypes
  <2>3. CASE \E is \in {"login", "logout", "renew"} : CA!AuthRequest(is)
    BY <2>3 DEF CA!AuthRequest, CA!wires, AuthInv, AuthTypes
  <2>4. CASE \E c \in authCalls : CA!AuthRejected(c)
    BY <2>4 DEF CA!AuthRejected, CA!wires, AuthInv, AuthTypes
  <2>5. QED
    BY <2>1, <2>2, <2>3, <2>4
<1>2. waiters' = waiters \/ beingAuth \/ CA!OnTheWay \/ unasked'
  BY DEF CA!AuthSame, CA!AuthNobody, CA!AuthRequest, CA!AuthRejected
<1>3. AuthTypes'
  BY <1>1 DEF AuthInv, AuthTypes
<1>4. AuthAgrees'
  BY <1>1, <1>2 DEF AuthInv, AuthAgrees, CA!OnTheWay
<1>5. QED
  BY <1>3, <1>4 DEF AuthInv

\* A connection begins with the client's token, or with none at both ends.
LEMMA AuthConnectionOK ==
    ASSUME AuthInv, CA!AuthOpen \/ CA!AuthDown
    PROVE  AuthInv'
<1>1. CASE CA!AuthOpen
  <2>1. /\ UNCHANGED <<clientToken, waiters, judged, tokensDown, serverToken, authCalls>>
        /\ ~authUp /\ authUp'
        /\ \/ tokensUp' = <<clientToken>>
           \/ clientToken = NoToken /\ tokensUp' = tokensUp /\ unasked'
    BY <1>1 DEF CA!AuthOpen
  <2>2. <<clientToken>> \in Seq(AnyToken) /\ Len(<<clientToken>>) = 1
        /\ <<clientToken>>[1] = clientToken /\ <<clientToken>> # <<>>
    BY DEF AuthInv, AuthTypes
  <2>3. AuthTypes'
    BY <2>1, <2>2 DEF AuthInv, AuthTypes
  <2>4. AuthAgrees'
    BY <2>1, <2>2 DEF AuthInv, AuthTypes, AuthAgrees, CA!OnTheWay
  <2>5. QED
    BY <2>3, <2>4 DEF AuthInv
<1>2. CASE CA!AuthDown
  <2>1. /\ clientToken' = clientToken /\ ~authUp' /\ authCalls' \subseteq authCalls
        /\ tokensUp' = <<>> /\ judged' = 0 /\ tokensDown' = <<>> /\ serverToken' = NoToken
    BY <1>2 DEF CA!AuthDown
  <2>2. <<>> \in Seq(AnyToken) /\ <<>> \in Seq(TokenReplies)
    OBVIOUS
  <2>3. AuthTypes'
    BY <2>1, <2>2 DEF AuthInv, AuthTypes
  <2>4. AuthAgrees'
    BY <2>1 DEF AuthAgrees
  <2>5. QED
    BY <2>3, <2>4 DEF AuthInv
<1>3. QED
  BY <1>1, <1>2

\* The first token on its way becomes the server's.
LEMMA ServerTakesOK ==
    ASSUME AuthInv, CA!ServerTakes
    PROVE  AuthInv'
<1>1. /\ UNCHANGED <<clientToken, waiters, beingAuth, authUp, tokensDown, authCalls, apart, unasked, unanswered>>
      /\ tokensUp # <<>> /\ serverToken' = Head(tokensUp) /\ tokensUp' = Tail(tokensUp)
      /\ judged' = judged + 1
  BY DEF CA!ServerTakes
<1>2. tokensUp \in Seq(AnyToken) /\ judged \in Nat /\ authUp
  BY <1>1 DEF AuthInv, AuthTypes
<1>3. /\ tokensUp' \in Seq(AnyToken)
      /\ tokensUp' = <<>> => tokensUp[Len(tokensUp)] = serverToken'
      /\ tokensUp' # <<>> => tokensUp'[Len(tokensUp')] = tokensUp[Len(tokensUp)]
  BY <1>1, <1>2, HeadAndTail
<1>4. judged' \in Nat /\ judged' > 0
  BY <1>1, <1>2
<1>5. AuthTypes'
  BY <1>1, <1>2, <1>3, <1>4 DEF AuthInv, AuthTypes
<1>6. AuthAgrees'
  BY <1>1, <1>3, <1>4 DEF AuthInv, AuthAgrees, CA!OnTheWay
<1>7. QED
  BY <1>5, <1>6 DEF AuthInv

LEMMA ServerRepliesOK ==
    ASSUME AuthInv, NEW b \in BOOLEAN, NEW t \in AnyToken, CA!ServerReplies(b, t)
    PROVE  AuthInv'
<1> DEFINE reply == [valid |-> b, renewed |-> t]
<1>1. /\ UNCHANGED <<clientToken, waiters, beingAuth, authUp, tokensUp, serverToken, authCalls, apart, unasked, unanswered>>
      /\ judged > 0 /\ judged' = judged - 1
      /\ tokensDown' = Append(tokensDown, reply)
  BY DEF CA!ServerReplies
<1>2. reply \in TokenReplies
  BY DEF TokenReplies
<1>3. tokensDown' \in Seq(TokenReplies) /\ tokensDown' # <<>>
  BY <1>1, <1>2 DEF AuthInv, AuthTypes
<1>4. judged' \in Nat /\ authUp
  BY <1>1 DEF AuthInv, AuthTypes
<1>5. AuthTypes'
  BY <1>1, <1>3, <1>4 DEF AuthInv, AuthTypes
<1>6. AuthAgrees'
  BY <1>1, <1>3 DEF AuthInv, AuthAgrees, CA!OnTheWay
<1>7. QED
  BY <1>5, <1>6 DEF AuthInv

\* A token that is let go is noted.
LEMMA ServerIsSilentOK ==
    ASSUME AuthInv, CA!ServerIsSilent
    PROVE  AuthInv'
<1>1. /\ UNCHANGED <<clientToken, waiters, beingAuth, authUp, tokensUp, tokensDown,
                     serverToken, authCalls, apart, unasked>>
      /\ judged > 0 /\ judged' = judged - 1 /\ unanswered'
  BY DEF CA!ServerIsSilent
<1>2. judged' \in Nat /\ authUp
  BY <1>1 DEF AuthInv, AuthTypes
<1>3. AuthTypes'
  BY <1>1, <1>2 DEF AuthInv, AuthTypes
<1>4. AuthAgrees'
  BY <1>1 DEF AuthInv, AuthAgrees
<1>5. QED
  BY <1>3, <1>4 DEF AuthInv

\* A reply lets everybody go; a renewed token sets client and server apart.
LEMMA TokenDataOK ==
    ASSUME AuthInv, CA!TokenData
    PROVE  AuthInv'
<1> DEFINE reply == Head(tokensDown)
<1>1. /\ UNCHANGED <<authUp, tokensUp, judged, serverToken, authCalls>>
      /\ tokensDown # <<>> /\ tokensDown' = Tail(tokensDown)
      /\ waiters' = <<>> /\ beingAuth' = FALSE
      /\ \/ clientToken' = clientToken /\ (apart => apart')
         \/ clientToken' = reply.renewed /\ apart'
  BY Zenon DEF CA!TokenData
<1>2. tokensDown \in Seq(TokenReplies)
  BY DEF AuthInv, AuthTypes
<1>3. tokensDown' \in Seq(TokenReplies) /\ reply \in TokenReplies
  BY <1>1, <1>2, HeadAndTail
<1>4. clientToken' \in AnyToken
  <2>1. reply.renewed \in AnyToken
    BY <1>3 DEF TokenReplies
  <2>2. QED
    BY <1>1, <2>1 DEF AuthInv, AuthTypes
<1>5. authUp
  BY <1>1 DEF AuthInv, AuthTypes
<1>6. AuthTypes'
  BY <1>1, <1>3, <1>4, <1>5 DEF AuthInv, AuthTypes
<1>7. AuthAgrees'
  BY <1>1 DEF AuthInv, AuthAgrees
<1>8. QED
  BY <1>6, <1>7 DEF AuthInv

\* With nothing on its way the server has the token the client has, unless it
\* was renewed for it (apart); and who waits for auth() waits for a reply that
\* may still come, unless nothing was asked (unasked) or the server let the
\* last token go without a reply (unanswered): for any tokens and every order
\* of calls, connections, answers and replies (auth.ts, token.ts,
\* Client.onData, handlers/token.ts).
THEOREM TokenStaysInStep == Spec => []TokenInStep
<1>1. CA!Init => AuthInv
  BY DEF CA!Init, AuthInv, AuthTypes, AuthAgrees, AnyToken
<1>2. AuthInv /\ [CA!Next]_(CA!vars) => AuthInv'
  <2>1. AuthInv /\ UNCHANGED CA!vars => AuthInv'
    BY DEF CA!vars, AuthInv, AuthTypes, AuthAgrees, CA!OnTheWay
  <2>2. AuthInv /\ CA!Next => AuthInv'
    BY AuthCallsOK, AuthResponseOK, AuthQuietOK, AuthConnectionOK, ServerTakesOK,
       ServerRepliesOK, ServerIsSilentOK, TokenDataOK
       DEF CA!Next, AnyToken
  <2>3. QED
    BY <2>1, <2>2
<1>3. AuthInv => TokenInStep
  BY DEF TokenInStep, AuthInv, AuthAgrees, CA!TokenInStep, CA!OnTheWay
<1>4. QED
  BY <1>1, <1>2, <1>3, AuthPart, PTL DEF Spec
-----------------------------------------------------------------------------
(***************************************************************************)
(* Tracking.                                                               *)
(***************************************************************************)
\* Messages say whether a key is tracked, or nothing about it.
Says == {"track", "untrack"}
Concerns(m, k) == m.t = k /\ m.is \in Says
Silent(s, k) == \A i \in 1..Len(s) : ~Concerns(s[i], k)

\* The last that s says of k is w.
LastSays(s, k, w) ==
    \E i \in 1..Len(s) :
        /\ s[i].t = k /\ s[i].is = w
        /\ \A j \in i..Len(s) : Concerns(s[j], k) => s[j].is = w

Word(k) == IF k \in tracking THEN "track" ELSE "untrack"

\* The wire of the open connection; what lies on a wire names its frame.
Wire == trackWire["open"]
Framed == [t : Keys, is : {"track", "untrack", "event", "remove"}, frame : Nat]

TrackTypes ==
    /\ tracking \subseteq Keys /\ IsFiniteSet(tracking) /\ tracks \in Nat
    /\ serverTrack \in [TR!Wires -> SUBSET Keys]
    /\ trackQueue \in Seq(TR!TrackMsgs)
    /\ trackWire \in [TR!Wires -> Seq(Framed)]
    /\ trackUp \in BOOLEAN
    /\ ~trackUp => Wire = <<>> /\ serverTrack["open"] = {}

\* What is queued, or else what is on its way, or else the server, is up to
\* date about a key, unless its last word went amiss.
UpToDate(k) ==
    /\ Silent(trackQueue, k) \/ (LastSays(trackQueue, k, Word(k)) /\ k \notin unsaid)
    /\ k \notin amiss /\ Silent(trackQueue, k) =>
          Silent(Wire, k) \/ (LastSays(Wire, k, Word(k)) /\ k \notin unsaid)
    /\ k \notin amiss /\ trackUp /\ Silent(trackQueue, k) /\ Silent(Wire, k) =>
          (k \in serverTrack["open"] <=> k \in tracking \ unsaid)

CountersAgree ==
    /\ active \in [Keys -> Int] /\ perServer \in [Keys -> Int] /\ counted \in [Keys -> Int]
    /\ \A k \in Keys : active[k] = perServer[k] - counted[k]

TrackInv == TrackTypes /\ (\A k \in Keys : UpToDate(k)) /\ CountersAgree

\* What one more message says.
LEMMA AppendSays ==
    ASSUME NEW s \in Seq(TR!TrackMsgs), NEW m \in TR!TrackMsgs, NEW k
    PROVE  /\ Append(s, m) \in Seq(TR!TrackMsgs)
           /\ ~Concerns(m, k) => /\ Silent(Append(s, m), k) <=> Silent(s, k)
                                 /\ \A w : LastSays(s, k, w) => LastSays(Append(s, m), k, w)
           /\ Concerns(m, k) => LastSays(Append(s, m), k, m.is) /\ ~Silent(Append(s, m), k)
<1> DEFINE a == Append(s, m)
           n == Len(s)
<1>1. /\ n \in Nat /\ Len(a) = n + 1 /\ a \in Seq(TR!TrackMsgs)
      /\ \A i \in 1..n : a[i] = s[i]
      /\ a[n + 1] = m
  OBVIOUS
<1> HIDE DEF a
<1>2. ASSUME ~Concerns(m, k) PROVE Silent(a, k) <=> Silent(s, k)
  BY <1>1, <1>2 DEF Silent
<1>3. ASSUME ~Concerns(m, k), NEW w, LastSays(s, k, w) PROVE LastSays(a, k, w)
  <2>1. PICK i \in 1..n : /\ s[i].t = k /\ s[i].is = w
                          /\ \A j \in i..n : Concerns(s[j], k) => s[j].is = w
    BY <1>3 DEF LastSays
  <2>2. \A j \in i..(n + 1) : Concerns(a[j], k) => a[j].is = w
    <3>1. TAKE j \in i..(n + 1)
    <3>2. CASE j = n + 1
      BY <3>2, <1>1, <1>3
    <3>3. CASE j # n + 1
      BY <3>3, <2>1, <1>1
    <3>4. QED
      BY <3>2, <3>3
  <2>3. i \in 1..(n + 1) /\ a[i] = s[i]
    BY <1>1
  <2>4. QED
    BY <1>1, <2>1, <2>2, <2>3 DEF LastSays
<1>4. ASSUME Concerns(m, k) PROVE LastSays(a, k, m.is) /\ ~Silent(a, k)
  <2>1. n + 1 \in 1..Len(a) /\ \A j \in (n + 1)..Len(a) : j = n + 1
    BY <1>1
  <2>2. a[n + 1].t = k
    BY <1>1, <1>4 DEF Concerns
  <2>3. QED
    BY <1>1, <1>4, <2>1, <2>2 DEF LastSays, Silent
<1>5. QED
  BY <1>1, <1>2, <1>3, <1>4 DEF a

\* What one sequence after another says.
LEMMA BothSay ==
    ASSUME NEW S, NEW s \in Seq(S), NEW t \in Seq(S), NEW k
    PROVE  /\ s \o t \in Seq(S)
           /\ Silent(s \o t, k) <=> Silent(s, k) /\ Silent(t, k)
           /\ \A w : Silent(t, k) /\ LastSays(s, k, w) => LastSays(s \o t, k, w)
           /\ \A w : LastSays(t, k, w) => LastSays(s \o t, k, w)
<1> DEFINE a == s \o t
           n == Len(s)
           p == Len(t)
<1>1. /\ n \in Nat /\ p \in Nat /\ Len(a) = n + p /\ a \in Seq(S)
      /\ \A i \in 1..n : a[i] = s[i]
      /\ \A i \in 1..p : a[n + i] = t[i]
  OBVIOUS
<1>a. \A i \in (n + 1)..(n + p) : i - n \in 1..p /\ a[i] = t[i - n]
  BY <1>1
<1> HIDE DEF a
<1>2. Silent(a, k) <=> Silent(s, k) /\ Silent(t, k)
  <2>1. ASSUME Silent(s, k), Silent(t, k), NEW i \in 1..(n + p) PROVE ~Concerns(a[i], k)
    <3>1. CASE i <= n
      BY <1>1, <2>1, <3>1 DEF Silent
    <3>2. CASE i > n
      BY <1>1, <1>a, <2>1, <3>2 DEF Silent
    <3>3. QED
      BY <1>1, <3>1, <3>2
  <2>2. ASSUME Silent(a, k) PROVE Silent(s, k)
    BY <1>1, <2>2 DEF Silent
  <2>3. ASSUME Silent(a, k), NEW i \in 1..p PROVE ~Concerns(t[i], k)
    <3>1. n + i \in 1..(n + p)
      BY <1>1
    <3>2. QED
      BY <1>1, <2>3, <3>1 DEF Silent
  <2>4. QED
    BY <1>1, <2>1, <2>2, <2>3 DEF Silent
<1>3. ASSUME NEW w, Silent(t, k), LastSays(s, k, w) PROVE LastSays(a, k, w)
  <2>1. PICK i \in 1..n : /\ s[i].t = k /\ s[i].is = w
                          /\ \A j \in i..n : Concerns(s[j], k) => s[j].is = w
    BY <1>3 DEF LastSays
  <2>2. ASSUME NEW j \in i..(n + p), Concerns(a[j], k) PROVE a[j].is = w
    <3>1. CASE j <= n
      BY <3>1, <2>1, <2>2, <1>1
    <3>2. CASE j > n
      <4>1. j - n \in 1..p /\ a[j] = t[j - n]
        BY <3>2, <1>1, <1>a
      <4>2. ~Concerns(a[j], k)
        BY <4>1, <1>1, <1>3 DEF Silent
      <4>3. QED
        BY <4>2, <2>2
    <3>3. QED
      BY <1>1, <3>1, <3>2
  <2>3. i \in 1..(n + p) /\ a[i] = s[i]
    BY <1>1
  <2>4. QED
    BY <1>1, <2>1, <2>2, <2>3 DEF LastSays
<1>4. ASSUME NEW w, LastSays(t, k, w) PROVE LastSays(a, k, w)
  <2>1. PICK i \in 1..p : /\ t[i].t = k /\ t[i].is = w
                          /\ \A j \in i..p : Concerns(t[j], k) => t[j].is = w
    BY <1>4 DEF LastSays
  <2>2. ASSUME NEW j \in (n + i)..(n + p), Concerns(a[j], k) PROVE a[j].is = w
    <3>1. j - n \in i..p /\ a[j] = t[j - n]
      BY <1>1, <1>a, <2>1
    <3>2. QED
      BY <3>1, <2>1, <2>2
  <2>3. n + i \in 1..(n + p) /\ a[n + i] = t[i]
    BY <1>1
  <2>4. QED
    BY <1>1, <2>1, <2>2, <2>3 DEF LastSays
<1>5. QED
  BY <1>1, <1>2, <1>3, <1>4 DEF a

\* A frame says what the queue said.
LEMMA FrameSays ==
    ASSUME NEW s \in Seq(TR!TrackMsgs), tracks \in Nat, NEW k
    PROVE  /\ TR!Frame(s) \in Seq(Framed)
           /\ Silent(TR!Frame(s), k) <=> Silent(s, k)
           /\ \A w : LastSays(s, k, w) => LastSays(TR!Frame(s), k, w)
<1> DEFINE f == TR!Frame(s)
           n == Len(s)
<1>1. n \in Nat /\ DOMAIN s = 1..n /\ \A i \in 1..n : s[i] \in TR!TrackMsgs
  OBVIOUS
<1>2. f = [i \in 1..n |-> [t |-> s[i].t, is |-> s[i].is, frame |-> tracks]]
  BY <1>1 DEF TR!Frame
<1>3. \A i \in 1..n : [t |-> s[i].t, is |-> s[i].is, frame |-> tracks] \in Framed
  BY <1>1 DEF Framed, TR!TrackMsgs
<1>4. f \in Seq(Framed) /\ Len(f) = n
  BY <1>1, <1>2, <1>3
<1>5. \A i \in 1..n : f[i].t = s[i].t /\ f[i].is = s[i].is
  BY <1>2
<1> HIDE DEF f
<1>6. QED
  BY <1>1, <1>4, <1>5 DEF Silent, LastSays, Concerns, f

\* What is left to say when one message was taken.
LEMMA WithoutSays ==
    ASSUME NEW S, NEW s \in Seq(S), NEW i \in 1..Len(s), NEW k
    PROVE  /\ TR!Without(s, i) \in Seq(S)
           /\ ~Concerns(s[i], k) =>
                 /\ Silent(s, k) => Silent(TR!Without(s, i), k)
                 /\ \A w \in Says : LastSays(s, k, w) => LastSays(TR!Without(s, i), k, w)
           /\ (\E e \in 1..Len(s) : e > i /\ Concerns(s[e], k)) =>
                 \A w : LastSays(s, k, w) => LastSays(TR!Without(s, i), k, w)
           /\ (\A e \in 1..Len(s) : Concerns(s[e], k) => e = i) =>
                 Silent(TR!Without(s, i), k)
<1> DEFINE r == TR!Without(s, i)
           n == Len(s)
<1>1. /\ n \in Nat /\ i \in 1..n /\ n - 1 \in Nat /\ \A e \in 1..n : s[e] \in S
  OBVIOUS
<1>2. /\ r = [j \in 1..(n - 1) |-> IF j < i THEN s[j] ELSE s[j + 1]]
  BY DEF TR!Without
<1>3. \A j \in 1..(n - 1) : (IF j < i THEN s[j] ELSE s[j + 1]) \in S
  <2>1. \A j \in 1..(n - 1) : j \in 1..n /\ j + 1 \in 1..n
    BY <1>1
  <2>2. QED
    BY <1>1, <2>1
<1>4. r \in Seq(S) /\ Len(r) = n - 1
  BY <1>1, <1>2, <1>3
<1>a. \A j \in 1..(n - 1) : j < i => r[j] = s[j] /\ j \in 1..n
  BY <1>1, <1>2
<1>5. \A j \in 1..(n - 1) : ~(j < i) => r[j] = s[j + 1] /\ j + 1 \in 1..n /\ j + 1 > i /\ j + 1 # i
  BY <1>1, <1>2
<1>6. \A e \in 1..n : /\ e < i => e \in 1..(n - 1) /\ r[e] = s[e]
                     /\ e > i => e - 1 \in 1..(n - 1) /\ r[e - 1] = s[e]
  <2>1. \A e \in 1..n : e > i => ~(e - 1 < i) /\ (e - 1) + 1 = e /\ e - 1 \in 1..(n - 1)
    BY <1>1
  <2>2. \A e \in 1..n : e < i => e \in 1..(n - 1)
    BY <1>1
  <2>3. QED
    BY <1>a, <1>5, <2>1, <2>2
<1> HIDE DEF r
<1>7. ASSUME \A e \in 1..n : Concerns(s[e], k) => e = i PROVE Silent(r, k)
  <2>1. ASSUME NEW j \in 1..(n - 1) PROVE ~Concerns(r[j], k)
    <3>1. CASE j < i
      <4>1. j \in 1..n /\ j # i /\ r[j] = s[j]
        BY <1>1, <1>a, <3>1
      <4>2. QED
        BY <1>7, <4>1
    <3>2. CASE ~(j < i)
      <4>1. j + 1 \in 1..n /\ j + 1 # i /\ r[j] = s[j + 1]
        BY <1>1, <1>5, <3>2
      <4>2. QED
        BY <1>7, <4>1
    <3>3. QED
      BY <3>1, <3>2
  <2>2. QED
    BY <1>4, <2>1 DEF Silent
<1>8. ASSUME ~Concerns(s[i], k), Silent(s, k) PROVE Silent(r, k)
  BY <1>7, <1>8 DEF Silent
\* Any later witness that is left is one of r.
<1>9. ASSUME NEW w, NEW a \in 1..n, a # i, s[a].t = k, s[a].is = w,
             \A j \in a..n : Concerns(s[j], k) => s[j].is = w
      PROVE  LastSays(r, k, w)
  <2> DEFINE b == IF a < i THEN a ELSE a - 1
  <2>a. a < i => b = a
    OBVIOUS
  <2>b. ~(a < i) => b = a - 1 /\ a > i
    BY <1>1, <1>9
  <2> HIDE DEF b
  <2>1. b \in 1..(n - 1) /\ r[b] = s[a]
    <3>1. CASE a < i
      <4>1. a \in 1..(n - 1) /\ r[a] = s[a]
        BY <1>1, <1>a, <3>1, <1>9
      <4>2. QED
        BY <2>a, <3>1, <4>1
    <3>2. CASE ~(a < i)
      BY <1>6, <2>b, <3>2
    <3>3. QED
      BY <3>1, <3>2
  <2>2. ASSUME NEW j \in b..(n - 1), Concerns(r[j], k) PROVE r[j].is = w
    <3>1. j \in 1..(n - 1)
      BY <1>1, <2>1
    <3>2. CASE j < i
      <4>1. r[j] = s[j] /\ j \in 1..n
        BY <1>a, <3>1, <3>2
      <4>a. j >= a
        BY <1>1, <2>1, <2>a, <2>b, <3>1, <3>2
      <4>b. j \in a..n
        BY <1>1, <4>1, <4>a
      <4>2. QED
        BY <1>9, <2>2, <4>1, <4>b
    <3>3. CASE ~(j < i)
      <4>1. r[j] = s[j + 1] /\ j + 1 \in a..n
        BY <1>1, <1>5, <2>1, <2>a, <2>b, <3>1, <3>3
      <4>2. QED
        BY <1>9, <2>2, <4>1
    <3>4. QED
      BY <3>2, <3>3
  <2>3. QED
    BY <1>4, <1>9, <2>1, <2>2 DEF LastSays
<1>10. ASSUME NEW w, LastSays(s, k, w), ~Concerns(s[i], k), w \in Says PROVE LastSays(r, k, w)
  <2>1. PICK a \in 1..n : /\ s[a].t = k /\ s[a].is = w
                          /\ \A j \in a..n : Concerns(s[j], k) => s[j].is = w
    BY <1>10 DEF LastSays
  <2>2. a # i
    BY <1>10, <2>1 DEF Concerns
  <2>3. QED
    BY <1>9, <2>1, <2>2
<1>11. ASSUME NEW w, LastSays(s, k, w), NEW e \in 1..n, e > i, Concerns(s[e], k)
       PROVE  LastSays(r, k, w)
  <2>1. PICK a \in 1..n : /\ s[a].t = k /\ s[a].is = w
                          /\ \A j \in a..n : Concerns(s[j], k) => s[j].is = w
    BY <1>11 DEF LastSays
  <2>2. CASE a # i
    BY <1>9, <2>1, <2>2
  <2>3. CASE a = i
    <3>1. e \in a..n /\ e # i /\ \A j \in e..n : j \in a..n
      BY <1>1, <1>11, <2>3
    <3>2. s[e].t = k /\ s[e].is = w
      BY <1>11, <2>1, <3>1 DEF Concerns
    <3>3. \A j \in e..n : Concerns(s[j], k) => s[j].is = w
      BY <2>1, <3>1
    <3>4. QED
      BY <1>9, <3>1, <3>2, <3>3
  <2>4. QED
    BY <2>2, <2>3
<1>12. QED
  BY <1>4, <1>7, <1>8, <1>10, <1>11 DEF r

\* Nothing says nothing; what says something is not silent.
LEMMA SilenceIs ==
    ASSUME NEW k
    PROVE  /\ Silent(<<>>, k)
           /\ \A s, w : w \in Says /\ LastSays(s, k, w) => ~Silent(s, k)
<1>1. Silent(<<>>, k)
  BY DEF Silent
<1>2. QED
  BY <1>1 DEF Silent, LastSays, Concerns

\* A call of the program: what it queues is the last word on its key.
LEMMA TrackCallOK ==
    ASSUME TrackInv, NEW m \in TR!TrackMsgs, TR!TrackCall(m)
    PROVE  TrackInv'
<1>1. /\ UNCHANGED <<trackWire, trackUp, serverTrack, active, perServer, counted>>
      /\ trackQueue' = Append(trackQueue, m)
      /\ unsaid' = IF m.is \in Says THEN unsaid \ {m.t} ELSE unsaid
      /\ amiss' = IF m.is \in Says THEN amiss \ {m.t} ELSE amiss
      /\ tracks' = tracks + 1
  BY DEF TR!TrackCall, TR!trackServer, TR!counters, Says
<1>2. /\ m.t \in Keys /\ m.is \in {"track", "untrack", "event", "remove"}
      /\ trackQueue \in Seq(TR!TrackMsgs)
  BY DEF TR!TrackMsgs, TrackInv, TrackTypes
<1>3. /\ m.is = "track" => tracking' = tracking \cup {m.t}
      /\ m.is = "untrack" => tracking' = tracking \ {m.t}
      /\ m.is \notin Says => tracking' = tracking
  BY DEF TR!TrackCall, Says
<1>4. TrackTypes'
  <2>1. tracking' \subseteq Keys /\ IsFiniteSet(tracking')
    <3>1. tracking \subseteq Keys /\ IsFiniteSet(tracking)
      BY DEF TrackInv, TrackTypes
    <3>2. IsFiniteSet(tracking \cup {m.t}) /\ IsFiniteSet(tracking \ {m.t})
      BY <3>1, FS_AddElement, FS_RemoveElement
    <3>3. m.is = "track" \/ m.is = "untrack" \/ m.is \notin Says
      BY DEF Says
    <3>4. QED
      BY <1>2, <1>3, <3>1, <3>2, <3>3
  <2>2. trackQueue' \in Seq(TR!TrackMsgs)
    BY <1>1, <1>2
  <2>3. QED
    BY <1>1, <2>1, <2>2 DEF TrackInv, TrackTypes, Wire
<1>5. ASSUME NEW k \in Keys PROVE UpToDate(k)'
  <2>1. CASE Concerns(m, k)
    <3>1. LastSays(trackQueue', k, m.is) /\ ~Silent(trackQueue', k)
      BY <1>1, <1>2, <2>1, AppendSays
    <3>2. Word(k)' = m.is /\ k \notin unsaid'
      BY <1>1, <1>3, <2>1 DEF Word, Concerns, Says
    <3>3. QED
      BY <3>1, <3>2 DEF UpToDate, Wire
  <2>2. CASE ~Concerns(m, k)
    <3>1. /\ Silent(trackQueue', k) <=> Silent(trackQueue, k)
          /\ \A w : LastSays(trackQueue, k, w) => LastSays(trackQueue', k, w)
      BY <1>1, <1>2, <2>2, AppendSays
    <3>2. (k \in tracking' <=> k \in tracking) /\ (k \in unsaid' <=> k \in unsaid)
          /\ (k \in amiss' <=> k \in amiss)
      BY <1>1, <1>3, <2>2 DEF Concerns, Says
    <3>3. Word(k)' = Word(k)
      BY <3>2 DEF Word
    <3>4. UpToDate(k)
      BY DEF TrackInv
    <3>5. QED
      BY <1>1, <3>1, <3>2, <3>3, <3>4 DEF UpToDate, Wire
  <2>3. QED
    BY <2>1, <2>2
<1>6. CountersAgree'
  BY <1>1 DEF TrackInv, CountersAgree
<1>7. QED
  BY <1>4, <1>5, <1>6 DEF TrackInv

\* The queue goes out as it is.
LEMMA TrackSendOK ==
    ASSUME TrackInv, TR!TrackSend
    PROVE  TrackInv'
<1>1. /\ UNCHANGED <<tracking, trackUp, serverTrack, unsaid, amiss, tracks, active, perServer,
                     counted>>
      /\ trackWire' = [trackWire EXCEPT !["open"] = @ \o TR!Frame(trackQueue)]
      /\ trackQueue' = <<>> /\ trackUp
  BY DEF TR!TrackSend, TR!trackServer, TR!counters
<1>2. /\ trackQueue \in Seq(TR!TrackMsgs) /\ trackWire \in [TR!Wires -> Seq(Framed)]
      /\ "open" \in TR!Wires /\ Wire \in Seq(Framed) /\ tracks \in Nat
  BY DEF TrackInv, TrackTypes, TR!Wires, Wire
<1>3. Wire' = Wire \o TR!Frame(trackQueue)
  BY <1>1, <1>2 DEF Wire
<1>4. TR!Frame(trackQueue) \in Seq(Framed)
  BY <1>2, FrameSays
<1>5. TrackTypes'
  <2>1. Wire \o TR!Frame(trackQueue) \in Seq(Framed) /\ <<>> \in Seq(TR!TrackMsgs)
    BY <1>2, <1>4
  <2>2. trackWire' \in [TR!Wires -> Seq(Framed)]
    BY <1>1, <1>2, <2>1 DEF Wire
  <2>3. QED
    BY <1>1, <2>1, <2>2 DEF TrackInv, TrackTypes
<1>6. ASSUME NEW k \in Keys PROVE UpToDate(k)'
  <2> DEFINE f == TR!Frame(trackQueue)
  <2>1. /\ Silent(f, k) <=> Silent(trackQueue, k)
        /\ \A w : LastSays(trackQueue, k, w) => LastSays(f, k, w)
    BY <1>2, FrameSays
  <2>2. /\ Silent(Wire', k) <=> Silent(Wire, k) /\ Silent(f, k)
        /\ \A w : Silent(f, k) /\ LastSays(Wire, k, w) => LastSays(Wire', k, w)
        /\ \A w : LastSays(f, k, w) => LastSays(Wire', k, w)
        /\ Silent(trackQueue', k)
    BY <1>1, <1>2, <1>3, <1>4, BothSay, SilenceIs
  <2> HIDE DEF f
  <2>3. Word(k)' = Word(k)
    BY <1>1 DEF Word
  <2>4. UpToDate(k)
    BY DEF TrackInv
  <2>5. QED
    BY <1>1, <2>1, <2>2, <2>3, <2>4 DEF UpToDate
<1>7. CountersAgree'
  BY <1>1 DEF TrackInv, CountersAgree
<1>8. QED
  BY <1>5, <1>6, <1>7 DEF TrackInv

\* A connection that came back is told everything again.
LEMMA TrackReopenOK ==
    ASSUME TrackInv, NEW again \in BOOLEAN, TR!TrackReopen(again)
    PROVE  TrackInv'
<1>1. /\ UNCHANGED <<tracking, trackWire, serverTrack, amiss, active, perServer, counted>>
      /\ ~trackUp /\ trackUp' = TRUE /\ tracks' = tracks + 1
  BY DEF TR!TrackReopen, TR!trackServer, TR!counters
<1>2. /\ trackQueue \in Seq(TR!TrackMsgs) /\ Wire = <<>> /\ serverTrack["open"] = {}
      /\ trackWire \in [TR!Wires -> Seq(Framed)] /\ serverTrack \in [TR!Wires -> SUBSET Keys]
      /\ tracks' \in Nat /\ tracking \subseteq Keys /\ IsFiniteSet(tracking)
  BY <1>1 DEF TrackInv, TrackTypes
<1>3. CountersAgree'
  BY <1>1 DEF TrackInv, CountersAgree
<1>4. Wire' = <<>> /\ \A k : Silent(Wire', k)
  BY <1>1, <1>2, SilenceIs DEF Wire
<1>5. CASE again
  <2>1. PICK s \in TR!Orders :
           trackQueue' = trackQueue \o [i \in DOMAIN s |-> [t |-> s[i], is |-> "track"]]
    BY <1>5 DEF TR!TrackReopen
  <2> DEFINE q == [i \in DOMAIN s |-> [t |-> s[i], is |-> "track"]]
             n == Cardinality(tracking)
  <2>2. unsaid' = {}
    BY <1>5 DEF TR!TrackReopen
  <2>3. /\ n \in Nat /\ s \in [1..n -> tracking]
        /\ \A k \in tracking : \E i \in 1..n : s[i] = k
    <3>1. TR!Cardinality(tracking) = n
      BY DEF TR!Cardinality, Cardinality
    <3>2. QED
      BY <1>2, <3>1, FS_CardinalityType DEF TR!Orders
  <2>4. /\ q \in Seq(TR!TrackMsgs) /\ Len(q) = n
        /\ \A i \in 1..n : q[i].t = s[i] /\ q[i].is = "track"
    <3>1. \A i \in 1..n : [t |-> s[i], is |-> "track"] \in TR!TrackMsgs
      BY <1>2, <2>3 DEF TR!TrackMsgs
    <3>2. QED
      BY <2>3, <3>1
  <2>5. trackQueue' \in Seq(TR!TrackMsgs)
    BY <1>2, <2>1, <2>4
  <2>6. TrackTypes'
    BY <1>1, <1>2, <2>5 DEF TrackTypes
  <2> HIDE DEF q
  <2>7. ASSUME NEW k \in Keys PROVE UpToDate(k)'
    <3>1. /\ Silent(trackQueue', k) <=> Silent(trackQueue, k) /\ Silent(q, k)
          /\ \A w : Silent(q, k) /\ LastSays(trackQueue, k, w) => LastSays(trackQueue', k, w)
          /\ \A w : LastSays(q, k, w) => LastSays(trackQueue', k, w)
      BY <1>2, <2>1, <2>4, BothSay DEF q
    <3>2. Word(k)' = Word(k)
      BY <1>1 DEF Word
    <3>3. CASE k \in tracking
      <4>1. LastSays(q, k, "track")
        BY <2>3, <2>4, <3>3 DEF LastSays
      <4>2. LastSays(trackQueue', k, Word(k)') /\ ~Silent(trackQueue', k)
        BY <3>1, <3>2, <3>3, <4>1, SilenceIs DEF Word, Says
      <4>3. QED
        BY <2>2, <4>2 DEF UpToDate
    <3>4. CASE k \notin tracking
      <4>1. Silent(q, k)
        BY <2>3, <2>4, <3>4 DEF Silent, Concerns
      <4>2. UpToDate(k)
        BY DEF TrackInv
      <4>3. QED
        BY <1>1, <1>2, <1>4, <2>2, <3>1, <3>2, <3>4, <4>1, <4>2 DEF UpToDate
    <3>5. QED
      BY <3>3, <3>4
  <2>8. QED
    BY <1>3, <2>6, <2>7 DEF TrackInv
<1>6. CASE ~again
  <2>1. trackQueue' = trackQueue /\ unsaid' = tracking \ TR!Queued
    BY <1>6 DEF TR!TrackReopen
  <2>2. TrackTypes'
    BY <1>1, <1>2, <2>1 DEF TrackTypes
  <2>3. ASSUME NEW k \in Keys PROVE UpToDate(k)'
    <3>1. Silent(trackQueue, k) <=> k \notin TR!Queued
      <4>1. DOMAIN trackQueue = 1..Len(trackQueue)
        BY <1>2
      <4>2. QED
        BY <4>1 DEF Silent, Concerns, TR!Queued, TR!Says, Says
    <3>2. UpToDate(k) /\ Word(k)' = Word(k)
      BY <1>1 DEF TrackInv, Word
    <3>3. Silent(trackQueue, k) \/ LastSays(trackQueue, k, Word(k))
      BY <3>2 DEF UpToDate
    <3>4. QED
      BY <1>1, <1>2, <1>4, <2>1, <3>1, <3>2, <3>3 DEF UpToDate
  <2>4. QED
    BY <1>3, <2>2, <2>3 DEF TrackInv
<1>7. QED
  BY <1>5, <1>6

LEMMA TrackDownOK ==
    ASSUME TrackInv, TR!TrackDown
    PROVE  TrackInv'
<1>1. PICK n \in 0..Len(Wire) :
         trackWire' = [w \in TR!Wires |-> IF w = "open" THEN <<>> ELSE SubSeq(Wire, 1, n)]
  BY DEF TR!TrackDown, Wire
<1>2. /\ UNCHANGED <<tracking, trackQueue, unsaid, tracks, active, perServer, counted>>
      /\ trackUp' = FALSE
      /\ serverTrack' = [w \in TR!Wires |-> IF w = "open" THEN {} ELSE serverTrack["open"]]
  BY DEF TR!TrackDown, TR!counters
<1>3. "open" \in TR!Wires /\ Wire \in Seq(Framed) /\ serverTrack["open"] \subseteq Keys
  BY DEF TR!Wires, Wire, TrackInv, TrackTypes
<1>4. Wire' = <<>> /\ serverTrack'["open"] = {}
  BY <1>1, <1>2, <1>3 DEF Wire
<1>5. TrackTypes'
  <2>1. <<>> \in Seq(Framed) /\ SubSeq(Wire, 1, n) \in Seq(Framed)
    BY <1>3
  <2>2. trackWire' \in [TR!Wires -> Seq(Framed)] /\ serverTrack' \in [TR!Wires -> SUBSET Keys]
    BY <1>1, <1>2, <1>3, <2>1
  <2>3. QED
    BY <1>2, <1>4, <2>2 DEF TrackInv, TrackTypes
<1>6. ASSUME NEW k \in Keys PROVE UpToDate(k)'
  <2>1. UpToDate(k) /\ Word(k)' = Word(k) /\ Silent(Wire', k)
    BY <1>2, <1>4, SilenceIs DEF TrackInv, Word
  <2>2. QED
    BY <1>2, <2>1 DEF UpToDate
<1>7. CountersAgree'
  BY <1>2 DEF TrackInv, CountersAgree
<1>8. QED
  BY <1>5, <1>6, <1>7 DEF TrackInv

\* Counting both up or both down keeps what they differ in.
LEMMA IncrOK ==
    ASSUME CountersAgree, NEW k \in Keys, NEW n \in Int,
           active' = TR!Incr(active, k, n), perServer' = TR!Incr(perServer, k, n),
           counted' = counted
    PROVE  CountersAgree'
BY DEF CountersAgree, TR!Incr

\* The server takes a message of one connection, or refuses it.
LEMMA TakenIs ==
    ASSUME TrackInv, NEW w \in TR!Wires, NEW allowed \in BOOLEAN,
           NEW i \in DOMAIN trackWire[w], TR!TrackReceive(w, i, allowed)
    PROVE  /\ UNCHANGED <<tracking, trackQueue, trackUp, unsaid, tracks>>
           /\ trackWire' = [trackWire EXCEPT ![w] = TR!Without(@, i)]
           /\ trackWire[w] \in Seq(Framed) /\ i \in 1..Len(trackWire[w])
           /\ trackWire[w][i].t \in Keys
           /\ serverTrack' \in [TR!Wires -> SUBSET Keys]
           /\ \A v \in TR!Wires : v # w => serverTrack'[v] = serverTrack[v]
           /\ \A k : ~allowed \/ ~Concerns(trackWire[w][i], k) =>
                 (k \in serverTrack'[w] <=> k \in serverTrack[w])
           /\ allowed /\ trackWire[w][i].is = "track" => trackWire[w][i].t \in serverTrack'[w]
           /\ allowed /\ trackWire[w][i].is = "untrack" => trackWire[w][i].t \notin serverTrack'[w]
           /\ CountersAgree'
<1> DEFINE m == trackWire[w][i]
<1>1. /\ UNCHANGED <<tracking, trackQueue, trackUp, unsaid, tracks>>
      /\ trackWire' = [trackWire EXCEPT ![w] = TR!Without(@, i)]
  BY DEF TR!TrackReceive
<1>2. /\ trackWire[w] \in Seq(Framed) /\ serverTrack \in [TR!Wires -> SUBSET Keys]
      /\ CountersAgree
  BY DEF TrackInv, TrackTypes
<1>3. i \in 1..Len(trackWire[w]) /\ m \in Framed
  BY <1>2
<1>4. m.t \in Keys /\ m.is \in {"track", "untrack", "event", "remove"}
  BY <1>3 DEF Framed
<1>5. \/ ~allowed /\ UNCHANGED TR!trackServer
      \/ allowed /\ m.is = "untrack" /\ TR!StopTracking(w, m.t)
      \/ allowed /\ m.is = "remove" /\ UNCHANGED <<serverTrack, TR!counters>>
      \/ allowed /\ m.is = "event" /\ TR!TrackEvent(w, m.t, TRUE)
      \/ allowed /\ m.is = "track" /\ TR!TrackEvent(w, m.t, FALSE)
  <2>1. CASE ~allowed
    BY <2>1 DEF TR!TrackReceive
  <2>2. CASE allowed /\ m.is = "untrack"
    BY <2>2 DEF TR!TrackReceive
  <2>3. CASE allowed /\ m.is = "remove"
    BY <2>3 DEF TR!TrackReceive
  <2>4. CASE allowed /\ m.is = "event"
    <3>1. TR!TrackEvent(w, m.t, m.is = "event")
      BY <2>4 DEF TR!TrackReceive
    <3>2. (m.is = "event") = TRUE
      BY <2>4
    <3>3. TR!TrackEvent(w, m.t, TRUE)
      BY Zenon, <3>1, <3>2
    <3>4. QED
      BY <2>4, <3>3
  <2>5. CASE allowed /\ m.is = "track"
    <3>1. TR!TrackEvent(w, m.t, m.is = "event")
      BY <2>5 DEF TR!TrackReceive
    <3>2. (m.is = "event") = FALSE
      BY <2>5
    <3>3. TR!TrackEvent(w, m.t, FALSE)
      BY Zenon, <3>1, <3>2
    <3>4. QED
      BY <2>5, <3>3
  <2>6. QED
    BY <1>4, <2>1, <2>2, <2>3, <2>4, <2>5
<1> HIDE DEF m
<1>6. /\ allowed /\ m.is = "track" =>
            serverTrack' = [serverTrack EXCEPT ![w] = serverTrack[w] \cup {m.t}]
      /\ allowed /\ m.is = "untrack" =>
            serverTrack' = [serverTrack EXCEPT ![w] = serverTrack[w] \ {m.t}]
      /\ ~allowed \/ m.is \notin Says => serverTrack' = serverTrack
  <2>1. m.t \in serverTrack[w] =>
            serverTrack = [serverTrack EXCEPT ![w] = serverTrack[w] \cup {m.t}]
    <3>1. m.t \in serverTrack[w] => serverTrack[w] \cup {m.t} = serverTrack[w]
      OBVIOUS
    <3>2. QED
      BY <1>2, <3>1
  <2>2. m.t \notin serverTrack[w] =>
            serverTrack = [serverTrack EXCEPT ![w] = serverTrack[w] \ {m.t}]
    <3>1. m.t \notin serverTrack[w] => serverTrack[w] \ {m.t} = serverTrack[w]
      OBVIOUS
    <3>2. QED
      BY <1>2, <3>1
  <2>3. QED
    BY <1>5, <2>1, <2>2 DEF TR!StopTracking, TR!TrackEvent, TR!trackServer, Says
<1>7. CountersAgree'
  <2>1. 1 \in Int /\ 0 - 1 \in Int
    OBVIOUS
  <2>2. counted' = counted
    BY <1>5 DEF TR!StopTracking, TR!TrackEvent, TR!counters, TR!trackServer
  <2>3. \/ active' = active /\ perServer' = perServer
        \/ active' = TR!Incr(active, m.t, 1) /\ perServer' = TR!Incr(perServer, m.t, 1)
        \/ active' = TR!Incr(active, m.t, 0 - 1) /\ perServer' = TR!Incr(perServer, m.t, 0 - 1)
    BY <1>5 DEF TR!StopTracking, TR!TrackEvent, TR!counters, TR!trackServer
  <2>4. CASE active' = active /\ perServer' = perServer
    BY <1>2, <2>2, <2>4 DEF CountersAgree
  <2>5. QED
    BY <1>2, <1>4, <2>1, <2>2, <2>3, <2>4, IncrOK
<1>8. serverTrack' \in [TR!Wires -> SUBSET Keys]
  BY <1>2, <1>4, <1>6 DEF Says
<1>9. \A v \in TR!Wires : v # w => serverTrack'[v] = serverTrack[v]
  BY <1>2, <1>4, <1>6 DEF Says
<1>10. \A k : ~allowed \/ ~Concerns(m, k) => (k \in serverTrack'[w] <=> k \in serverTrack[w])
  BY <1>2, <1>4, <1>6 DEF Says, Concerns
<1>11. /\ allowed /\ m.is = "track" => m.t \in serverTrack'[w]
       /\ allowed /\ m.is = "untrack" => m.t \notin serverTrack'[w]
  BY <1>2, <1>6
<1>12. QED
  BY <1>1, <1>2, <1>3, <1>4, <1>7, <1>8, <1>9, <1>10, <1>11 DEF m

\* The last word on a key is what the server then knows, if it is granted and
\* nothing earlier is left.
LEMMA TrackReceiveOK ==
    ASSUME TrackInv, NEW w \in TR!Wires, NEW allowed \in BOOLEAN,
           NEW i \in DOMAIN trackWire[w], TR!TrackReceive(w, i, allowed)
    PROVE  TrackInv'
<1> DEFINE s == trackWire[w]
           m == s[i]
<1>1. /\ UNCHANGED <<tracking, trackQueue, trackUp, unsaid, tracks>>
      /\ trackWire' = [trackWire EXCEPT ![w] = TR!Without(s, i)]
      /\ s \in Seq(Framed) /\ i \in 1..Len(s)
      /\ serverTrack' \in [TR!Wires -> SUBSET Keys]
      /\ CountersAgree'
  BY TakenIs
<1>2. amiss' = IF w = "open" /\ TR!GoesAmiss(s, i, allowed) THEN amiss \cup {m.t} ELSE amiss
  BY DEF TR!TrackReceive
<1>3. TR!Without(s, i) \in Seq(Framed) /\ trackWire \in [TR!Wires -> Seq(Framed)]
  BY <1>1, WithoutSays DEF TrackInv, TrackTypes
<1>4. CASE w # "open"
  <2>1. Wire' = Wire /\ serverTrack'["open"] = serverTrack["open"] /\ amiss' = amiss
    <3>1. "open" \in TR!Wires
      BY DEF TR!Wires
    <3>2. QED
      BY <1>1, <1>2, <1>3, <1>4, <3>1, TakenIs DEF Wire
  <2>2. TrackTypes'
    BY <1>1, <1>3, <2>1 DEF TrackInv, TrackTypes
  <2>3. ASSUME NEW k \in Keys PROVE UpToDate(k)'
    <3>1. UpToDate(k) /\ Word(k)' = Word(k)
      BY <1>1 DEF TrackInv, Word
    <3>2. QED
      BY <1>1, <2>1, <3>1 DEF UpToDate
  <2>4. QED
    BY <1>1, <2>2, <2>3 DEF TrackInv
<1>5. CASE w = "open"
  <2>1. /\ s = Wire /\ Wire' = TR!Without(s, i)
        /\ trackWire' \in [TR!Wires -> Seq(Framed)]
    BY <1>1, <1>3, <1>5 DEF Wire
  <2>2. trackUp
    <3>1. Len(<<>>) = 0 /\ Len(s) # 0
      BY <1>1
    <3>2. QED
      BY <2>1, <3>1 DEF TrackInv, TrackTypes
  <2>3. TrackTypes'
    BY <1>1, <1>3, <2>1, <2>2 DEF TrackInv, TrackTypes
  <2>4. ASSUME NEW k \in Keys, k \notin amiss', Silent(trackQueue, k)
        PROVE  /\ Silent(Wire', k) \/ (LastSays(Wire', k, Word(k)) /\ k \notin unsaid)
               /\ Silent(Wire', k) =>
                     (k \in serverTrack'["open"] <=> k \in tracking \ unsaid)
    <3>1. k \notin amiss /\ UpToDate(k) /\ Word(k) \in Says
      BY <1>2, <2>4 DEF TrackInv, Word, Says
    <3>2. Silent(s, k) \/ (LastSays(s, k, Word(k)) /\ k \notin unsaid)
      BY <2>1, <2>4, <3>1 DEF UpToDate
    <3>3. Silent(s, k) => (k \in serverTrack["open"] <=> k \in tracking \ unsaid)
      BY <2>1, <2>2, <2>4, <3>1 DEF UpToDate
    <3>4. LastSays(Wire', k, Word(k)) => ~Silent(Wire', k)
      BY <3>1, SilenceIs
    <3>5. LastSays(s, k, Word(k)) => ~Silent(s, k)
      BY <3>1, SilenceIs
    <3>6. CASE ~Concerns(m, k)
      <4>1. /\ Silent(s, k) => Silent(Wire', k)
            /\ LastSays(s, k, Word(k)) => LastSays(Wire', k, Word(k))
        BY <1>1, <2>1, <3>1, <3>6, WithoutSays
      <4>2. k \in serverTrack'["open"] <=> k \in serverTrack["open"]
        BY <1>5, <3>6, TakenIs
      <4>3. QED
        BY <3>2, <3>3, <3>4, <4>1, <4>2
    <3>7. CASE Concerns(m, k)
      <4>1. ~Silent(s, k)
        BY <1>1, <3>7 DEF Silent
      <4>2. LastSays(s, k, Word(k)) /\ k \notin unsaid
        BY <3>2, <4>1
      <4>3. CASE \E e \in 1..Len(s) : e > i /\ Concerns(s[e], k)
        <5>1. LastSays(Wire', k, Word(k))
          BY <1>1, <2>1, <4>2, <4>3, WithoutSays
        <5>2. QED
          BY <3>4, <4>2, <5>1
      <4>4. CASE ~\E e \in 1..Len(s) : e > i /\ Concerns(s[e], k)
        <5>1. DOMAIN s = 1..Len(s) /\ k \notin TR!Queued /\ m.t = k
          <6>1. DOMAIN trackQueue = 1..Len(trackQueue)
            BY DEF TrackInv, TrackTypes
          <6>2. QED
            BY <1>1, <2>4, <3>7, <6>1 DEF TR!Queued, TR!Says, Silent, Concerns, Says
        <5>2. \A e \in 1..Len(s) : e \in TR!Says(s, k) <=> Concerns(s[e], k)
          BY <5>1 DEF TR!Says, Concerns, Says
        <5>3. i \in TR!Says(s, k) /\ \A e \in TR!Says(s, k) : e <= i
          <6>1. \A e \in TR!Says(s, k) : e \in 1..Len(s)
            BY <5>1 DEF TR!Says
          <6>2. QED
            BY <1>1, <3>7, <4>4, <5>2, <6>1
        <5>4. ~TR!GoesAmiss(s, i, allowed)
          BY <1>2, <1>5, <2>4, <5>1
        <5>5. allowed /\ \A e \in TR!Says(s, k) : ~(e < i)
          BY <5>1, <5>3, <5>4 DEF TR!GoesAmiss
        <5>6. \A e \in 1..Len(s) : Concerns(s[e], k) => e = i
          BY <1>1, <5>2, <5>3, <5>5
        <5>7. Silent(Wire', k)
          BY <1>1, <2>1, <5>6, WithoutSays
        <5>8. m.is = Word(k)
          <6>1. PICK a \in 1..Len(s) : s[a].t = k /\ s[a].is = Word(k)
            BY <4>2 DEF LastSays
          <6>2. Concerns(s[a], k)
            BY <3>1, <6>1 DEF Concerns
          <6>3. QED
            BY <5>6, <6>1, <6>2
        <5>9. k \in serverTrack'["open"] <=> k \in tracking
          BY <1>5, <5>1, <5>5, <5>8, TakenIs DEF Word
        <5>10. QED
          BY <4>2, <5>7, <5>9
      <4>5. QED
        BY <4>3, <4>4
    <3>8. QED
      BY <3>6, <3>7
  <2>5. ASSUME NEW k \in Keys PROVE UpToDate(k)'
    <3>1. UpToDate(k) /\ Word(k)' = Word(k)
      BY <1>1 DEF TrackInv, Word
    <3>2. QED
      BY <1>1, <2>4, <3>1 DEF UpToDate
  <2>6. QED
    BY <1>1, <2>3, <2>5 DEF TrackInv
<1>6. QED
  BY <1>4, <1>5

LEMMA DeleteEventOK ==
    ASSUME TrackInv, NEW k \in Keys, TR!DeleteEvent(k)
    PROVE  TrackInv'
<1>1. /\ UNCHANGED <<tracking, trackQueue, trackWire, trackUp, serverTrack, perServer, unsaid,
                     amiss, tracks>>
      /\ active' = [active EXCEPT ![k] = 0]
      /\ counted' = [counted EXCEPT ![k] = perServer[k]]
  BY DEF TR!DeleteEvent
<1>2. CountersAgree'
  BY <1>1 DEF TrackInv, CountersAgree
<1>3. TrackTypes'
  BY <1>1 DEF TrackInv, TrackTypes, Wire
<1>4. \A j \in Keys : UpToDate(j)'
  BY <1>1 DEF TrackInv, UpToDate, Word, Wire
<1>5. QED
  BY <1>2, <1>3, <1>4 DEF TrackInv

\* When nothing is on its way the server tracks what the client tracks, but for
\* what a connection made anew was not told (unsaid) and the keys the last word
\* on which was refused or taken before an earlier one (amiss); and the two
\* counters of active visitors agree: for any keys and every order of calls,
\* connections, authorizations, messages and deletions (track.ts,
\* Client.onReconnect, authorize.ts, handlers/track).
THEOREM ActivityStaysTrue == Spec => []ActivityAgrees
<1>1. TR!Init => TrackInv
  <2>1. ASSUME TR!Init PROVE TrackTypes
    <3>1. <<>> \in Seq(TR!TrackMsgs) /\ <<>> \in Seq(Framed) /\ IsFiniteSet({})
      BY FS_EmptySet
    <3>2. Wire = <<>> /\ serverTrack["open"] = {}
      BY <2>1 DEF TR!Init, TR!Wires, Wire
    <3>3. QED
      BY <2>1, <3>1, <3>2 DEF TR!Init, TrackTypes
  <2>2. ASSUME TR!Init, NEW k \in Keys PROVE UpToDate(k)
    <3>1. Wire = <<>> /\ trackQueue = <<>> /\ ~trackUp
      BY <2>2 DEF TR!Init, TR!Wires, Wire
    <3>2. QED
      BY <3>1, SilenceIs DEF UpToDate
  <2>3. ASSUME TR!Init PROVE CountersAgree
    BY <2>3 DEF TR!Init, TR!Zero, CountersAgree
  <2>4. QED
    BY <2>1, <2>2, <2>3 DEF TrackInv
<1>2. TrackInv /\ [TR!Next]_(TR!vars) => TrackInv'
  <2>1. ASSUME TrackInv, UNCHANGED TR!vars PROVE TrackInv'
    <3>1. UNCHANGED <<tracking, trackQueue, trackWire, trackUp, serverTrack, active,
                      perServer, counted, unsaid, amiss, tracks>>
      BY <2>1 DEF TR!vars
    <3>2. TrackTypes' /\ CountersAgree'
      BY <2>1, <3>1 DEF TrackInv, TrackTypes, CountersAgree, Wire
    <3>3. \A k \in Keys : UpToDate(k)'
      BY <2>1, <3>1 DEF TrackInv, UpToDate, Word, Wire
    <3>4. QED
      BY <3>2, <3>3 DEF TrackInv
  <2>2. ASSUME TrackInv, TR!Next PROVE TrackInv'
    BY <2>2, TrackCallOK, TrackReopenOK, TrackSendOK, TrackDownOK, TrackReceiveOK,
       DeleteEventOK DEF TR!Next
  <2>3. QED
    BY <2>1, <2>2
<1>3. TrackInv => ActivityAgrees
  <2>1. ASSUME TrackInv, trackUp, trackQueue = <<>>, Wire = <<>>, NEW k, k \notin amiss
        PROVE  k \in serverTrack["open"] <=> k \in tracking \ unsaid
    <3>1. CASE k \in Keys
      BY <2>1, <3>1, SilenceIs DEF TrackInv, UpToDate
    <3>2. CASE k \notin Keys
      <4>1. "open" \in TR!Wires
        BY DEF TR!Wires
      <4>2. QED
        BY <2>1, <3>2, <4>1 DEF TrackInv, TrackTypes
    <3>3. QED
      BY <3>1, <3>2
  <2>2. QED
    BY <2>1 DEF TrackInv, CountersAgree, ActivityAgrees, TR!ActivityAgrees, Wire
<1>4. QED
  BY <1>1, <1>2, <1>3, TrackPart, PTL DEF Spec

-----------------------------------------------------------------------------
(***************************************************************************)
(* The commands.                                                           *)
(***************************************************************************)
CliSteps ==
    {s \in [do : {"auth", "auth later", "refuse", "may refuse", "ask", "sure", "read",
                  "write", "wait"},
            when : BOOLEAN, bad : {"0", "1", "crash", "on"}] :
        s.do = "sure" => s.bad \in {"0", "1"}}

\* Steps whose failure is in the exit code ("bad" of a question is how the
\* process ends if the user gives up).
Telling == {s \in CliSteps : s.bad \in {"1", "crash"} \/ s.do = "sure"}

Processes ==
    [cmd : CL!Commands \cup {"none"}, o : CL!Options \cup {<<>>},
     left : Seq(CliSteps), exit : {"idle", "running", "0", "1", "crash"},
     valid : BOOLEAN, failed : BOOLEAN, sure : BOOLEAN, gaveUp : BOOLEAN, did : BOOLEAN]

\* The user was sure, or is not asked.
Excused(c) == c.sure \/ CL!AtOnce(c)

\* Before anything is written it is asked for.
Asked(p) ==
    \A i \in 1..Len(p) : p[i].do = "write" /\ p[i].when =>
        \E j \in 1..(i - 1) : p[j].do = "sure" /\ p[j].when

\* Nothing is asked for.
Quiet(p) == \A i \in 1..Len(p) : ~(p[i].do = "sure" /\ p[i].when)

\* As long as it is neither sure nor excused nothing was removed and what is
\* left asks first; what removes at once does not ask; a command that is not
\* lenient goes on only while no step failed, and what is left of it tells.
CommandOK(c) ==
    /\ c \in Processes
    /\ c.exit = "idle" => ~c.did /\ ~c.failed /\ ~c.sure
    /\ c.cmd \in CL!Removing /\ ~Excused(c) => ~c.did /\ Asked(c.left)
    /\ CL!AtOnce(c) => ~c.sure /\ Quiet(c.left)
    /\ c.cmd \notin CL!Lenient /\ c.exit = "running" => c.left \in Seq(Telling) /\ ~c.failed
    /\ c.cmd \notin CL!Lenient /\ c.exit = "0" /\ ~c.gaveUp => ~c.failed

\* The steps that tell.
LEMMA TellingSteps ==
    /\ CL!Auth \in Telling /\ CL!AuthLater \in Telling
    /\ \A b \in {"1", "crash"} :
        CL!MayRefuse(b) \in Telling /\ CL!Read(b) \in Telling /\ CL!Write(b) \in Telling
    /\ \A w \in BOOLEAN : CL!Ask(w) \in Telling /\ CL!Wait(w) \in Telling
    /\ \A w \in BOOLEAN, b \in {"1", "crash"} :
        /\ CL!Refuse(w, b) \in Telling /\ CL!WriteIf(w, b) \in Telling
        /\ CL!Step("read", w, b) \in Telling
    /\ \A w \in BOOLEAN, b \in {"0", "1"} : CL!Sure(w, b) \in Telling
BY DEF CL!Auth, CL!AuthLater, CL!Refuse, CL!MayRefuse, CL!Ask, CL!Read,
   CL!Write, CL!WriteIf, CL!Wait, CL!Sure, CL!Step, Telling, CliSteps

\* The programs of the commands that are not lenient are made of them.
LEMMA ProgramsTell ==
    ASSUME NEW o \in CL!Options, NEW c \in CL!Commands, c \notin CL!Lenient
    PROVE  CL!Program(c, o) \in Seq(Telling)
<1>1. /\ CL!Ask(TRUE) \in Telling /\ CL!Ask(~o.full) \in Telling
      /\ CL!Ask(~o.full /\ ~o.one) \in Telling /\ CL!Ask(~o.full /\ o.tty) \in Telling
      /\ CL!Wait(TRUE) \in Telling /\ CL!Wait(o.force) \in Telling
      /\ CL!Refuse(~o.tty, "1") \in Telling /\ CL!Refuse(~o.full, "1") \in Telling
      /\ CL!Refuse(o.full, "1") \in Telling /\ CL!Refuse(o.out # "fancy", "1") \in Telling
      /\ CL!Refuse(~o.tty /\ ~o.full, "1") \in Telling
      /\ CL!Refuse(~o.full /\ ~o.tty, "1") \in Telling
      /\ CL!Refuse(o.out = "none" \/ (~o.tty /\ ~o.full), "1") \in Telling
      /\ CL!Refuse(o.out = "none" \/ (~o.tty /\ ~(o.force /\ o.full)), "1") \in Telling
      /\ CL!Step("read", FALSE, "1") \in Telling
      /\ CL!Sure(~o.force, "1") \in Telling /\ CL!Sure(o.force, "0") \in Telling
      /\ CL!Sure(o.out = "fancy", "1") \in Telling
      /\ CL!WriteIf(o.out = "fancy", "crash") \in Telling
  BY TellingSteps DEF CL!Options
<1>2. /\ CL!Auth \in Telling /\ CL!AuthLater \in Telling
      /\ CL!MayRefuse("1") \in Telling /\ CL!Read("1") \in Telling /\ CL!Read("crash") \in Telling
      /\ CL!Write("1") \in Telling /\ CL!Write("crash") \in Telling
  BY TellingSteps
<1>3. \A s, t \in Seq(Telling) : s \o t \in Seq(Telling)
  OBVIOUS
<1>4. /\ CL!FindService(o) \in Seq(Telling)
      /\ CL!EnvsAddAsks(o) \in Seq(Telling) /\ CL!SecretsOrg(o) \in Seq(Telling)
  <2> DEFINE r == IF o.full THEN CL!Step("read", FALSE, "1") ELSE CL!Read("1")
  <2>1. r \in Telling
    BY <1>1, <1>2
  <2> HIDE DEF r
  <2>2. CL!FindService(o) \in Seq(Telling)
    BY <1>1, <1>2 DEF CL!FindService
  <2>3. CL!SecretsOrg(o) = <<CL!Auth, r, CL!Ask(~o.full /\ ~o.one)>>
    BY Zenon DEF CL!SecretsOrg, r
  <2>4. CL!EnvsAddAsks(o) = <<CL!Refuse(~o.tty /\ ~o.full, "1"), r, CL!Ask(~o.full /\ ~o.one),
                              CL!Ask(~o.full), CL!Ask(~o.full /\ o.tty)>>
    BY Zenon DEF CL!EnvsAddAsks, r
  <2>5. QED
    BY <1>1, <1>2, <2>1, <2>2, <2>3, <2>4
<1>5. /\ CL!ServicesAdd(o) \in Seq(Telling) /\ CL!ServicesLs \in Seq(Telling)
      /\ CL!ServicesWait \in Seq(Telling)
  <2>1. CL!ServicesAddAsks(o) \in Seq(Telling)
    BY <1>1, <1>2 DEF CL!ServicesAddAsks
  <2>2. <<CL!Write("1"), CL!Wait(o.force)>> \in Seq(Telling)
    BY <1>1, <1>2
  <2>3. CL!ServicesAdd(o) \in Seq(Telling)
    BY <1>3, <2>1, <2>2, Zenon DEF CL!ServicesAdd
  <2>4. \A w \in Telling : <<CL!Auth, w>> \in Seq(Telling)
    BY <1>2
  <2>5. CL!ServicesWait \in Seq(Telling) /\ CL!ServicesLs \in Seq(Telling)
    BY <1>1, <1>2, <2>4, Zenon DEF CL!ServicesLs, CL!ServicesWait
  <2>6. QED
    BY <2>3, <2>5
<1>6. /\ CL!ServicesRemove(o) \in Seq(Telling) /\ CL!ServicesScale(o) \in Seq(Telling)
      /\ CL!ServicesRestart(o) \in Seq(Telling)
  BY <1>1, <1>2, <1>4 DEF CL!ServicesRemove, CL!ServicesScale, CL!ServicesRestart
<1>7. CL!EnvsAdd(o) \in Seq(Telling)
  <2>1. /\ <<CL!Auth>> \in Seq(Telling)
        /\ \A w \in Telling : <<CL!MayRefuse("1"), CL!Write("1"), w>> \in Seq(Telling)
    BY <1>2
  <2>2. QED
    BY <1>1, <1>3, <1>4, <2>1, Zenon DEF CL!EnvsAdd
<1>8. /\ CL!SecretsLs(o) \in Seq(Telling) /\ CL!SecretsDelete(o) \in Seq(Telling)
      /\ CL!SecretsSet(o) \in Seq(Telling)
  BY <1>1, <1>2, <1>4 DEF CL!SecretsLs, CL!SecretsDelete, CL!SecretsSet
<1>9. /\ CL!FunctionsDelete(o) \in Seq(Telling) /\ CL!FunctionsSet(o) \in Seq(Telling)
      /\ CL!Schema(o) \in Seq(Telling) /\ CL!RestartMachine(o) \in Seq(Telling)
  BY <1>1, <1>2 DEF CL!FunctionsDelete, CL!FunctionsSet, CL!Schema, CL!RestartMachine
<1>10. /\ CL!BackupMake \in Seq(Telling) /\ CL!BackupList \in Seq(Telling)
       /\ CL!BackupDownload(o) \in Seq(Telling) /\ CL!BackupDeleteAll(o) \in Seq(Telling)
  <2>1. /\ \A r, a \in Telling : <<CL!Auth, r, CL!Read("crash"), a, CL!Read("1"), CL!Write("1")>>
                                     \in Seq(Telling)
        /\ <<CL!Auth, CL!Refuse(~o.full, "1"), CL!Read("1"), CL!Write("1")>> \in Seq(Telling)
    BY <1>1, <1>2
  <2>2. CL!BackupDownload(o) \in Seq(Telling)
    BY <1>1, <2>1, Zenon DEF CL!BackupDownload
  <2>3. QED
    BY <1>1, <1>2, <2>2 DEF CL!BackupMake, CL!BackupList, CL!BackupDeleteAll
<1>11. /\ CL!ApiKeysLs \in Seq(Telling) /\ CL!ApiKeysAdd(o) \in Seq(Telling)
       /\ CL!ApiKeysRemove(o) \in Seq(Telling) /\ CL!ApiKeysDownload(o) \in Seq(Telling)
  BY <1>1, <1>2 DEF CL!ApiKeysLs, CL!ApiKeysAdd, CL!ApiKeysRemove, CL!ApiKeysDownload
<1>12. /\ CL!TemplatesLs \in Seq(Telling) /\ CL!TemplatesInstall(o) \in Seq(Telling)
       /\ CL!BuildApp \in Seq(Telling)
  BY <1>1, <1>2 DEF CL!TemplatesLs, CL!TemplatesInstall, CL!BuildApp
<1>13. CL!Log(o) \in Seq(Telling) /\ CL!Login(o) \in Seq(Telling) /\ CL!Logout \in Seq(Telling)
  <2>1. \A r, a, f, w \in Telling : <<CL!Auth, r, CL!Read("1"), a, f, w>> \in Seq(Telling)
    BY <1>2
  <2>2. CL!Log(o) \in Seq(Telling)
    BY <1>1, <2>1, Zenon DEF CL!Log
  <2>3. QED
    BY <1>1, <1>2, <2>2 DEF CL!Login, CL!Logout
<1>14. QED
  BY <1>5, <1>6, <1>7, <1>8, <1>9, <1>10, <1>11, <1>12, <1>13
     DEF CL!Program, CL!Commands, CL!Lenient

\* All programs are made of steps.
LEMMA ProgramsAre ==
    ASSUME NEW o \in CL!Options, NEW c \in CL!Commands
    PROVE  CL!Program(c, o) \in Seq(CliSteps)
<1>1. /\ CL!Refuse(~o.full, "0") \in CliSteps /\ CL!Ask(~o.full) \in CliSteps
      /\ CL!Ask(~o.one) \in CliSteps /\ CL!Sure(~o.one, "0") \in CliSteps
      /\ CL!WriteIf(~o.one, "0") \in CliSteps /\ CL!Sure(o.out = "fancy", "1") \in CliSteps
      /\ CL!WriteIf(o.out = "fancy", "1") \in CliSteps
  BY DEF CL!Refuse, CL!Ask, CL!Sure, CL!WriteIf, CL!Step, CliSteps, CL!Options
<1>2. /\ CL!Auth \in CliSteps /\ CL!AuthLater \in CliSteps /\ CL!MayRefuse("1") \in CliSteps
      /\ CL!Read("0") \in CliSteps /\ CL!Read("1") \in CliSteps /\ CL!Read("on") \in CliSteps
      /\ CL!Read("crash") \in CliSteps /\ CL!Write("1") \in CliSteps
      /\ CL!Write("on") \in CliSteps /\ CL!Write("crash") \in CliSteps
  BY DEF CL!Auth, CL!AuthLater, CL!MayRefuse, CL!Read, CL!Write, CL!Step, CliSteps
<1>3. /\ CL!EnvsLs \in Seq(CliSteps) /\ CL!Events(o) \in Seq(CliSteps)
      /\ CL!Migrate(o) \in Seq(CliSteps) /\ CL!DeployCommand(o) \in Seq(CliSteps)
      /\ CL!BackupDelete(o) \in Seq(CliSteps)
  BY <1>1, <1>2 DEF CL!EnvsLs, CL!Events, CL!Migrate, CL!DeployCommand, CL!BackupDelete
<1>4. CL!EnvsRemove(o) \in Seq(CliSteps)
  <2>1. /\ <<CL!Auth, CL!Write("crash")>> \in Seq(CliSteps)
        /\ <<CL!Auth, CL!Read("0"), CL!Ask(~o.one), CL!Sure(~o.one, "0"),
             CL!WriteIf(~o.one, "0")>> \in Seq(CliSteps)
    BY <1>1, <1>2
  <2>2. QED
    BY <2>1, Zenon DEF CL!EnvsRemove
<1>5. CASE c \in CL!Lenient
  BY <1>3, <1>4, <1>5 DEF CL!Program, CL!Lenient
<1>6. CASE c \notin CL!Lenient
  <2>1. \A s \in Seq(Telling) : s \in Seq(CliSteps)
    BY DEF Telling
  <2>2. QED
    BY <1>6, <2>1, ProgramsTell
<1>7. QED
  BY <1>5, <1>6

LEMMA AskedBefore ==
    ASSUME NEW p \in Seq({s \in CliSteps : s.do # "write"}),
           NEW s \in CliSteps, NEW t \in CliSteps, s.do = "sure", t.when => s.when
    PROVE  Asked(p \o <<s, t>>)
<1> DEFINE q == p \o <<s, t>>
<1>1. Len(p) \in Nat /\ Len(q) = Len(p) + 2 /\ q[Len(p) + 1] = s /\ q[Len(p) + 2] = t
  OBVIOUS
<1>2. \A i \in 1..Len(p) : q[i].do # "write"
  OBVIOUS
<1> HIDE DEF q
<1>3. ASSUME NEW i \in 1..Len(q), q[i].do = "write", q[i].when
      PROVE  \E j \in 1..(i - 1) : q[j].do = "sure" /\ q[j].when
  <2>1. i = Len(p) + 2
    BY <1>1, <1>2, <1>3
  <2>2. Len(p) + 1 \in 1..(i - 1)
    BY <1>1, <2>1
  <2>3. QED
    BY <1>1, <1>3, <2>1, <2>2
<1>4. QED
  BY <1>3 DEF Asked, q

\* A command that removes something and is not excused by its options asks.
LEMMA RemovalsAsk ==
    ASSUME NEW o \in CL!Options
    PROVE  /\ ~o.force => Asked(CL!ServicesRemove(o))
           /\ ~(o.full /\ ~o.tty) => Asked(CL!EnvsRemove(o))
           /\ Asked(CL!BackupDelete(o)) /\ Asked(CL!BackupDeleteAll(o))
           /\ o.force => Asked(CL!RestartMachine(o))
<1> DEFINE S == {s \in CliSteps : s.do # "write"}
<1>1. /\ CL!Auth \in S /\ CL!MayRefuse("1") \in S
      /\ CL!Read("0") \in S /\ CL!Read("1") \in S /\ CL!Read("crash") \in S
      /\ CL!Refuse(o.out = "none" \/ (~o.tty /\ ~(o.force /\ o.full)), "1") \in S
      /\ CL!Refuse(~o.full, "0") \in S /\ CL!Refuse(~o.full, "1") \in S
      /\ CL!Ask(~o.full) \in S /\ CL!Ask(~o.one) \in S
  BY DEF CL!Auth, CL!MayRefuse, CL!Read, CL!Refuse, CL!Ask, CL!Step, CliSteps, CL!Options
<1>2. ASSUME ~o.force PROVE Asked(CL!ServicesRemove(o))
  <2> DEFINE p == <<CL!Auth, CL!Refuse(o.out = "none" \/ (~o.tty /\ ~(o.force /\ o.full)), "1")>>
                      \o CL!FindService(o)
             s == CL!Sure(~o.force, "1")
             t == CL!Write("1")
  <2>1. p \in Seq(S)
    <3>1. CL!FindService(o) \in Seq(S)
      BY <1>1 DEF CL!FindService
    <3> HIDE DEF S
    <3>2. QED
      BY <1>1, <3>1
  <2>2. s \in CliSteps /\ t \in CliSteps /\ s.do = "sure" /\ s.when
    BY <1>2 DEF CL!Sure, CL!Write, CL!Step, CliSteps
  <2> HIDE DEF s, t
  <2>3. CL!ServicesRemove(o) = p \o <<s, t>>
    BY Zenon DEF CL!ServicesRemove, s, t
  <2> HIDE DEF p
  <2>4. QED
    BY <2>1, <2>2, <2>3, AskedBefore
<1>3. ASSUME ~(o.full /\ ~o.tty) PROVE Asked(CL!EnvsRemove(o))
  <2> DEFINE p == <<CL!Auth, CL!Read("0"), CL!Ask(~o.one)>>
             s == CL!Sure(~o.one, "0")
             t == CL!WriteIf(~o.one, "0")
  <2>1. p \in Seq(S)
    BY <1>1
  <2>2. s \in CliSteps /\ t \in CliSteps /\ s.do = "sure" /\ (t.when => s.when)
    BY DEF CL!Sure, CL!WriteIf, CL!Step, CliSteps, CL!Options
  <2>3. CL!EnvsRemove(o) = <<CL!Auth, CL!Read("0"), CL!Ask(~o.one), s, t>>
    BY <1>3, Zenon DEF CL!EnvsRemove
  <2> HIDE DEF s, t
  <2>4. CL!EnvsRemove(o) = p \o <<s, t>>
    BY <2>3
  <2> HIDE DEF p
  <2>5. QED
    BY <2>1, <2>2, <2>4, AskedBefore
<1>4. ASSUME NEW r \in S, NEW b \in {"1", "crash"}
      PROVE  /\ Asked(<<CL!Auth, r, CL!Read("crash"), CL!Sure(o.out = "fancy", "1"),
                        CL!WriteIf(o.out = "fancy", b)>>)
             /\ Asked(<<CL!Auth, CL!Read("crash"), CL!Sure(o.out = "fancy", "1"),
                        CL!WriteIf(o.out = "fancy", b)>>)
  <2> DEFINE s == CL!Sure(o.out = "fancy", "1")
             t == CL!WriteIf(o.out = "fancy", b)
  <2>1. <<CL!Auth, r, CL!Read("crash")>> \in Seq(S) /\ <<CL!Auth, CL!Read("crash")>> \in Seq(S)
    BY <1>1, <1>4
  <2>2. s \in CliSteps /\ t \in CliSteps /\ s.do = "sure" /\ (t.when => s.when)
    BY <1>4 DEF CL!Sure, CL!WriteIf, CL!Step, CliSteps, CL!Options
  <2> HIDE DEF s, t
  <2>3. /\ <<CL!Auth, r, CL!Read("crash"), s, t>> = <<CL!Auth, r, CL!Read("crash")>> \o <<s, t>>
        /\ <<CL!Auth, CL!Read("crash"), s, t>> = <<CL!Auth, CL!Read("crash")>> \o <<s, t>>
    OBVIOUS
  <2>4. /\ Asked(<<CL!Auth, r, CL!Read("crash")>> \o <<s, t>>)
        /\ Asked(<<CL!Auth, CL!Read("crash")>> \o <<s, t>>)
    BY <2>1, <2>2, AskedBefore
  <2>5. QED
    BY <2>3, <2>4, Zenon DEF s, t
<1>5. Asked(CL!BackupDelete(o)) /\ Asked(CL!BackupDeleteAll(o))
  BY <1>1, <1>4, Zenon DEF CL!BackupDelete, CL!BackupDeleteAll
<1>6. ASSUME o.force PROVE Asked(CL!RestartMachine(o))
  <2> DEFINE p == <<CL!Refuse(~o.full, "1"), CL!Auth, CL!Read("crash"), CL!MayRefuse("1")>>
             s == CL!Sure(o.force, "0")
             t == CL!Write("crash")
  <2>1. p \in Seq(S)
    BY <1>1
  <2>2. s \in CliSteps /\ t \in CliSteps /\ s.do = "sure" /\ (t.when => s.when)
    BY <1>6 DEF CL!Sure, CL!Write, CL!Step, CliSteps, CL!Options
  <2>3. CL!RestartMachine(o) = <<CL!Refuse(~o.full, "1"), CL!Auth, CL!Read("crash"),
                                 CL!MayRefuse("1"), s, t>>
    BY Zenon DEF CL!RestartMachine
  <2> HIDE DEF s, t
  <2>4. CL!RestartMachine(o) = p \o <<s, t>>
    BY <2>3
  <2> HIDE DEF p
  <2>5. QED
    BY <2>1, <2>2, <2>4, AskedBefore
<1>7. QED
  BY <1>2, <1>3, <1>5, <1>6

\* What removes at once asks nothing.
LEMMA RemovedAtOnce ==
    ASSUME NEW o \in CL!Options
    PROVE  /\ Quiet(CL!SecretsDelete(o)) /\ Quiet(CL!FunctionsDelete(o))
           /\ Quiet(CL!ApiKeysRemove(o))
           /\ o.force => Quiet(CL!ServicesRemove(o))
           /\ o.full /\ ~o.tty => Quiet(CL!EnvsRemove(o))
           /\ ~o.force => Quiet(CL!RestartMachine(o))
<1> DEFINE Q == {s \in CliSteps : ~(s.do = "sure" /\ s.when)}
<1>1. ASSUME NEW p \in Seq(Q) PROVE Quiet(p)
  BY <1>1 DEF Quiet
<1>2. /\ CL!Auth \in Q /\ CL!MayRefuse("1") \in Q
      /\ CL!Read("1") \in Q /\ CL!Read("crash") \in Q /\ CL!Step("read", FALSE, "1") \in Q
      /\ CL!Refuse(o.out = "none" \/ (~o.tty /\ ~(o.force /\ o.full)), "1") \in Q
      /\ CL!Refuse(~o.full, "1") \in Q
      /\ CL!Ask(~o.full) \in Q /\ CL!Ask(~o.full /\ ~o.one) \in Q
      /\ CL!Write("1") \in Q /\ CL!Write("crash") \in Q
  BY DEF CL!Auth, CL!MayRefuse, CL!Read, CL!Refuse, CL!Ask, CL!Write, CL!Step, CliSteps,
     CL!Options
<1>3. \A s, t \in Seq(Q) : s \o t \in Seq(Q)
  OBVIOUS
<1>4. /\ o.force => CL!Sure(~o.force, "1") \in Q
      /\ ~o.force => CL!Sure(o.force, "0") \in Q
  BY DEF CL!Sure, CL!Step, CliSteps, CL!Options
<1> HIDE DEF Q
<1>5. CL!SecretsDelete(o) \in Seq(Q)
  <2> DEFINE r == IF o.full THEN CL!Step("read", FALSE, "1") ELSE CL!Read("1")
  <2>1. r \in Q
    BY <1>2
  <2> HIDE DEF r
  <2>2. <<CL!Auth, r, CL!Ask(~o.full /\ ~o.one)>> \in Seq(Q) /\ <<CL!Write("1")>> \in Seq(Q)
    BY <1>2, <2>1
  <2>3. CL!SecretsOrg(o) \in Seq(Q)
    BY <2>2, Zenon DEF CL!SecretsOrg, r
  <2>4. QED
    BY <1>3, <2>2, <2>3, Zenon DEF CL!SecretsDelete
<1>6. CL!FunctionsDelete(o) \in Seq(Q) /\ CL!ApiKeysRemove(o) \in Seq(Q)
  BY <1>2 DEF CL!FunctionsDelete, CL!ApiKeysRemove
<1>7. ASSUME o.force PROVE CL!ServicesRemove(o) \in Seq(Q)
  <2> DEFINE w == CL!Refuse(o.out = "none" \/ (~o.tty /\ ~(o.force /\ o.full)), "1")
  <2>1. w \in Q
    BY <1>2
  <2>2. CL!FindService(o) \in Seq(Q)
    BY <1>2 DEF CL!FindService
  <2> HIDE DEF w
  <2>3. <<CL!Auth, w>> \in Seq(Q) /\ <<CL!Sure(~o.force, "1"), CL!Write("1")>> \in Seq(Q)
    BY <1>2, <1>4, <1>7, <2>1
  <2>4. CL!ServicesRemove(o) =
            <<CL!Auth, w>> \o CL!FindService(o) \o <<CL!Sure(~o.force, "1"), CL!Write("1")>>
    BY Zenon DEF CL!ServicesRemove, w
  <2>5. QED
    BY <1>3, <2>2, <2>3, <2>4
<1>8. ASSUME o.full /\ ~o.tty PROVE CL!EnvsRemove(o) \in Seq(Q)
  <2>1. CL!EnvsRemove(o) = <<CL!Auth, CL!Write("crash")>>
    BY <1>8, Zenon DEF CL!EnvsRemove
  <2>2. QED
    BY <1>2, <2>1
<1>9. ASSUME ~o.force PROVE CL!RestartMachine(o) \in Seq(Q)
  BY <1>2, <1>4, <1>9 DEF CL!RestartMachine
<1>10. QED
  BY <1>1, <1>5, <1>6, <1>7, <1>8, <1>9

\* What any step but the last leaves: c is the process but for the step it
\* has taken.
LEMMA CliGoes ==
    ASSUME CommandOK(cli), CL!AtStep, NEW c \in Processes, CL!Go(c),
           c.cmd = cli.cmd, c.o = cli.o, c.exit = cli.exit, c.left = cli.left,
           c.failed = cli.failed \/ c.cmd \in CL!Lenient,
           cli.sure => c.sure, c.did => cli.did \/ c.cmd \notin CL!Removing \/ Excused(c),
           Head(cli.left).do = "sure" /\ Head(cli.left).when => c.sure,
           c.sure => cli.sure \/ (Head(cli.left).do = "sure" /\ Head(cli.left).when)
    PROVE  CommandOK(cli')
<1>1. cli.exit = "running" /\ cli.left # <<>> /\ cli.left \in Seq(CliSteps)
  BY DEF CL!AtStep, CommandOK, Processes
<1>2. /\ cli' = [c EXCEPT !.left = Tail(cli.left)] /\ cli' \in Processes
      /\ cli'.left = Tail(cli.left) /\ cli'.cmd = c.cmd /\ cli'.o = c.o /\ cli'.exit = "running"
      /\ cli'.failed = c.failed /\ cli'.sure = c.sure /\ cli'.did = c.did
      /\ (Excused(cli') <=> Excused(c)) /\ (CL!AtOnce(cli') <=> CL!AtOnce(cli))
  <2>1. Tail(cli.left) \in Seq(CliSteps)
    BY <1>1
  <2>2. cli' = [c EXCEPT !.left = Tail(cli.left)]
    BY DEF CL!Go
  <2>3. QED
    BY <1>1, <2>1, <2>2 DEF Processes, Excused, CL!AtOnce
<1>3. ASSUME cli'.cmd \in CL!Removing, ~Excused(cli') PROVE ~cli'.did /\ Asked(cli'.left)
  <2>1. ~Excused(cli) /\ ~Excused(c) /\ ~c.sure
    BY <1>2, <1>3 DEF Excused, CL!AtOnce
  <2>2. ~cli.did /\ Asked(cli.left)
    BY <1>2, <1>3, <2>1 DEF CommandOK
  <2>3. ~cli'.did
    BY <1>2, <1>3, <2>1, <2>2
  <2>4. ASSUME NEW i \in 1..Len(Tail(cli.left)), Tail(cli.left)[i].do = "write",
               Tail(cli.left)[i].when
        PROVE  \E j \in 1..(i - 1) : Tail(cli.left)[j].do = "sure" /\ Tail(cli.left)[j].when
    <3>1. \A k \in 1..(Len(cli.left) - 1) : Tail(cli.left)[k] = cli.left[k + 1]
      BY <1>1, HeadAndTail
    <3>2. /\ Len(Tail(cli.left)) = Len(cli.left) - 1 /\ Len(cli.left) \in Nat
          /\ Head(cli.left) = cli.left[1]
      BY <1>1
    <3>3. i + 1 \in 1..Len(cli.left) /\ cli.left[i + 1] = Tail(cli.left)[i]
      BY <3>1, <3>2
    <3>4. PICK j \in 1..i : cli.left[j].do = "sure" /\ cli.left[j].when
      BY <2>2, <2>4, <3>3 DEF Asked
    <3>5. j # 1
      BY <2>1, <3>2, <3>4
    <3>6. j - 1 \in 1..(i - 1) /\ Tail(cli.left)[j - 1] = cli.left[j]
      BY <3>1, <3>2, <3>4, <3>5
    <3>7. QED
      BY <3>4, <3>6
  <2>5. QED
    BY <1>2, <2>3, <2>4 DEF Asked
<1>4. ASSUME cli'.cmd \notin CL!Lenient PROVE cli'.left \in Seq(Telling) /\ ~cli'.failed
  <2>1. cli.left \in Seq(Telling) /\ ~cli.failed
    BY <1>1, <1>2, <1>4 DEF CommandOK
  <2>2. QED
    BY <1>1, <1>2, <1>4, <2>1
<1>5. ASSUME CL!AtOnce(cli') PROVE ~cli'.sure /\ Quiet(cli'.left)
  <2>1. ~cli.sure /\ Quiet(cli.left)
    BY <1>2, <1>5 DEF CommandOK
  <2>2. 1 \in 1..Len(cli.left) /\ cli.left[1] = Head(cli.left)
    BY <1>1
  <2>3. ~cli'.sure
    BY <1>2, <2>1, <2>2 DEF Quiet
  <2>4. /\ \A k \in 1..(Len(cli.left) - 1) : Tail(cli.left)[k] = cli.left[k + 1]
        /\ Len(Tail(cli.left)) = Len(cli.left) - 1 /\ Len(cli.left) \in Nat
    BY <1>1, HeadAndTail
  <2>5. Quiet(Tail(cli.left))
    BY <2>1, <2>4 DEF Quiet
  <2>6. QED
    BY <1>2, <2>3, <2>5
<1>6. QED
  BY <1>2, <1>3, <1>4, <1>5 DEF CommandOK

\* The end of the process.
LEMMA CliEnds ==
    ASSUME CommandOK(cli), NEW c \in Processes, NEW code \in {"0", "1", "crash"}, CL!End(c, code),
           c.cmd = cli.cmd, c.o = cli.o, c.did = cli.did, c.sure = cli.sure,
           code = "0" /\ c.cmd \notin CL!Lenient /\ ~c.gaveUp => ~c.failed
    PROVE  CommandOK(cli')
<1>1. cli' = [c EXCEPT !.exit = code, !.left = <<>>]
  BY DEF CL!End
<1>2. <<>> \in Seq(CliSteps) /\ Len(<<>>) = 0
  OBVIOUS
<1>3. /\ cli' \in Processes /\ cli'.exit = code /\ cli'.left = <<>>
      /\ cli'.cmd = c.cmd /\ cli'.o = c.o /\ cli'.did = c.did /\ cli'.sure = c.sure
      /\ cli'.failed = c.failed /\ cli'.gaveUp = c.gaveUp
  BY <1>1, <1>2 DEF Processes
<1>4. Asked(cli'.left) /\ Quiet(cli'.left)
  BY <1>2, <1>3 DEF Asked, Quiet
<1>5. (Excused(cli') <=> Excused(cli)) /\ (CL!AtOnce(cli') <=> CL!AtOnce(cli))
  BY <1>3 DEF Excused, CL!AtOnce
<1>6. QED
  BY <1>3, <1>4, <1>5 DEF CommandOK

\* A failure is told by the exit code of every command that is not lenient.
LEMMA CliFails ==
    ASSUME CommandOK(cli), CL!AtStep, Head(cli.left).do # "sure",
           NEW code \in {"1", "crash", Head(cli.left).bad}, CL!Fail(code)
    PROVE  CommandOK(cli')
<1> DEFINE c == [cli EXCEPT !.failed = TRUE]
<1>1. /\ cli \in Processes /\ cli.exit = "running" /\ cli.left # <<>>
      /\ Head(cli.left) \in CliSteps
      /\ cli.cmd \notin CL!Lenient => Head(cli.left) \in Telling
  BY DEF CL!AtStep, CommandOK, Processes
<1>2. /\ c \in Processes /\ c.cmd = cli.cmd /\ c.o = cli.o /\ c.exit = cli.exit
      /\ c.left = cli.left /\ c.did = cli.did /\ c.sure = cli.sure /\ c.failed
  BY <1>1 DEF Processes
<1>3. /\ code \in {"0", "1", "crash", "on"}
      /\ cli.cmd \notin CL!Lenient => code \in {"1", "crash"}
  BY <1>1 DEF CliSteps, Telling
<1>4. CASE code = "on"
  <2>1. CL!Go(c) /\ c.cmd \in CL!Lenient
    BY <1>2, <1>3, <1>4 DEF CL!Fail
  <2> HIDE DEF c
  <2>2. QED
    BY <1>1, <1>2, <2>1, CliGoes
<1>5. CASE code # "on"
  <2>1. CL!End(c, code)
    BY <1>5 DEF CL!Fail
  <2> HIDE DEF c
  <2>2. QED
    BY <1>2, <1>3, <1>5, <2>1, CliEnds
<1>6. QED
  BY <1>4, <1>5

LEMMA BeginOK ==
    ASSUME CommandOK(cli), NEW c \in CL!Commands, NEW o \in CL!Options, CL!Begin(c, o)
    PROVE  CommandOK(cli')
<1>1. CL!Program(c, o) \in Seq(CliSteps)
  BY ProgramsAre
<1>2. cli.exit = "idle" /\ cli \in Processes /\ ~cli.did /\ ~cli.failed /\ ~cli.sure
  BY DEF CL!Begin, CommandOK
<1>3. /\ cli' \in Processes /\ cli'.cmd = c /\ cli'.o = o /\ cli'.exit = "running"
      /\ cli'.left = CL!Program(c, o) /\ ~cli'.did /\ ~cli'.failed
  BY <1>1, <1>2 DEF CL!Begin, Processes
<1>4. ASSUME c \in CL!Removing, ~Excused(cli') PROVE Asked(CL!Program(c, o))
  <2>1. /\ c = "services remove" => ~o.force
        /\ c = "envs remove" => ~(o.full /\ ~o.tty)
        /\ c = "restart" => o.force
        /\ c \notin {"secrets delete", "functions delete", "api-keys remove"}
    BY <1>3, <1>4 DEF Excused, CL!AtOnce
  <2>2. /\ c = "services remove" => CL!Program(c, o) = CL!ServicesRemove(o)
        /\ c = "envs remove" => CL!Program(c, o) = CL!EnvsRemove(o)
        /\ c = "backup delete" => CL!Program(c, o) = CL!BackupDelete(o)
        /\ c = "backup delete-all" => CL!Program(c, o) = CL!BackupDeleteAll(o)
        /\ c = "restart" => CL!Program(c, o) = CL!RestartMachine(o)
    BY DEF CL!Program
  <2>3. QED
    BY <1>4, <2>1, <2>2, RemovalsAsk, Zenon DEF CL!Removing
<1>5. c \notin CL!Lenient => CL!Program(c, o) \in Seq(Telling)
  BY ProgramsTell
<1>6. ASSUME CL!AtOnce(cli') PROVE ~cli'.sure /\ Quiet(CL!Program(c, o))
  <2>1. \/ c = "secrets delete" \/ c = "functions delete" \/ c = "api-keys remove"
        \/ c = "services remove" /\ o.force
        \/ c = "envs remove" /\ o.full /\ ~o.tty
        \/ c = "restart" /\ ~o.force
    BY <1>3, <1>6 DEF CL!AtOnce
  <2>2. /\ c = "secrets delete" => CL!Program(c, o) = CL!SecretsDelete(o)
        /\ c = "functions delete" => CL!Program(c, o) = CL!FunctionsDelete(o)
        /\ c = "api-keys remove" => CL!Program(c, o) = CL!ApiKeysRemove(o)
        /\ c = "services remove" => CL!Program(c, o) = CL!ServicesRemove(o)
        /\ c = "envs remove" => CL!Program(c, o) = CL!EnvsRemove(o)
        /\ c = "restart" => CL!Program(c, o) = CL!RestartMachine(o)
    BY DEF CL!Program
  <2>3. ~cli'.sure
    BY <1>2 DEF CL!Begin, Processes
  <2>4. QED
    BY <2>1, <2>2, <2>3, RemovedAtOnce, Zenon
<1>7. QED
  BY <1>3, <1>4, <1>5, <1>6 DEF CommandOK

LEMMA CheckAuthOK ==
    ASSUME CommandOK(cli), CL!CheckAuth
    PROVE  CommandOK(cli')
<1>1. /\ CL!AtStep /\ Head(cli.left).do # "sure" /\ cli \in Processes
  BY DEF CL!CheckAuth, CL!At, CommandOK
<1>2. ASSUME NEW good \in BOOLEAN, CL!Go([cli EXCEPT !.valid = good])
      PROVE  CommandOK(cli')
  <2> DEFINE c == [cli EXCEPT !.valid = good]
  <2>1. /\ c \in Processes /\ c.cmd = cli.cmd /\ c.o = cli.o /\ c.exit = cli.exit
        /\ c.left = cli.left /\ c.did = cli.did /\ c.sure = cli.sure /\ c.failed = cli.failed
    BY <1>1 DEF Processes
  <2>2. CL!Go(c)
    BY <1>2
  <2> HIDE DEF c
  <2>3. QED
    BY <1>1, <2>1, <2>2, CliGoes
<1>3. ASSUME CL!Fail("1") PROVE CommandOK(cli')
  BY <1>1, <1>3, CliFails
<1>4. ASSUME CL!NoEmail PROVE CommandOK(cli')
  <2> DEFINE c == [cli EXCEPT !.gaveUp = TRUE]
  <2>1. /\ c \in Processes /\ c.cmd = cli.cmd /\ c.o = cli.o /\ c.did = cli.did
        /\ c.sure = cli.sure /\ c.gaveUp
    BY <1>1 DEF Processes
  <2>2. CL!End(c, "0")
    BY <1>4 DEF CL!NoEmail
  <2> HIDE DEF c
  <2>3. QED
    BY <2>1, <2>2, CliEnds
<1>5. QED
  BY <1>2, <1>3, <1>4 DEF CL!CheckAuth, CL!KeyOk, CL!KeyRefused, CL!Saved, CL!LoginOk, CL!LoginFails

LEMMA FailuresOK ==
    ASSUME CommandOK(cli),
           CL!Refused \/ CL!NobodyThere \/ CL!CallFails \/ CL!WaitFails
    PROVE  CommandOK(cli')
<1>1. /\ CL!AtStep /\ Head(cli.left).do # "sure" /\ cli \in Processes
      /\ \E code \in {"1", Head(cli.left).bad, "crash"} : CL!Fail(code)
  BY DEF CL!Refused, CL!NobodyThere, CL!CallFails, CL!WaitFails, CL!At, CommandOK
<1>2. QED
  BY <1>1, CliFails

LEMMA QuestionOK ==
    ASSUME CommandOK(cli), CL!SaysYes \/ CL!SaysNo
    PROVE  CommandOK(cli')
<1>1. /\ CL!AtStep /\ cli \in Processes /\ Head(cli.left).do = "sure"
      /\ Head(cli.left).bad \in {"0", "1"}
  <2>1. CL!AtStep /\ cli \in Processes /\ Head(cli.left).do = "sure"
    BY DEF CL!SaysYes, CL!SaysNo, CL!At, CommandOK
  <2>2. Head(cli.left) \in CliSteps
    BY <2>1 DEF CL!AtStep, Processes
  <2>3. QED
    BY <2>1, <2>2 DEF CliSteps
<1>2. CASE CL!SaysYes
  <2> DEFINE c == [cli EXCEPT !.sure = TRUE]
  <2>1. /\ c \in Processes /\ c.cmd = cli.cmd /\ c.o = cli.o /\ c.exit = cli.exit
        /\ c.left = cli.left /\ c.did = cli.did /\ c.sure /\ c.failed = cli.failed
    BY <1>1 DEF Processes
  <2>2. CL!Go(c) /\ Head(cli.left).when
    BY <1>2 DEF CL!SaysYes, CL!At
  <2> HIDE DEF c
  <2>3. QED
    BY <1>1, <2>1, <2>2, CliGoes
<1>3. CASE CL!SaysNo
  <2> DEFINE c == [cli EXCEPT !.gaveUp = TRUE]
  <2>1. /\ c \in Processes /\ c.cmd = cli.cmd /\ c.o = cli.o /\ c.did = cli.did
        /\ c.sure = cli.sure /\ c.gaveUp
    BY <1>1 DEF Processes
  <2>2. CL!End(c, Head(cli.left).bad)
    BY <1>3 DEF CL!SaysNo
  <2> HIDE DEF c
  <2>3. QED
    BY <1>1, <2>1, <2>2, CliEnds
<1>4. QED
  BY <1>2, <1>3

\* The steps that succeed, or are left out.
LEMMA ProceedOK ==
    ASSUME CommandOK(cli),
           CL!PassOver \/ CL!NotRefused \/ CL!Answered \/ CL!ReadOk \/ CL!WaitOver
    PROVE  CommandOK(cli')
<1>1. /\ CL!AtStep /\ cli \in Processes /\ CL!Go(cli)
      /\ Head(cli.left).do = "sure" => ~Head(cli.left).when
  BY DEF CL!PassOver, CL!NotRefused, CL!Answered, CL!ReadOk, CL!WaitOver, CL!At, CommandOK
<1>2. QED
  BY <1>1, CliGoes

LEMMA WriteOkOK ==
    ASSUME CommandOK(cli), CL!WriteOk
    PROVE  CommandOK(cli')
<1> DEFINE c == [cli EXCEPT !.did = TRUE]
<1>1. /\ CL!AtStep /\ cli \in Processes /\ CL!Go(c)
      /\ Head(cli.left).do = "write" /\ Head(cli.left).when
  BY DEF CL!WriteOk, CL!At, CommandOK
<1>2. /\ c \in Processes /\ c.cmd = cli.cmd /\ c.o = cli.o /\ c.exit = cli.exit
      /\ c.left = cli.left /\ c.sure = cli.sure /\ c.failed = cli.failed
  BY <1>1 DEF Processes
<1>3. cli.cmd \in CL!Removing => Excused(cli)
  <2>1. ASSUME Asked(cli.left) PROVE FALSE
    <3>1. cli.left \in Seq(CliSteps) /\ cli.left # <<>>
      BY <1>1 DEF Processes, CL!AtStep
    <3>2. 1 \in 1..Len(cli.left) /\ cli.left[1] = Head(cli.left)
      BY <3>1
    <3>3. QED
      BY <1>1, <2>1, <3>2 DEF Asked
  <2>2. QED
    BY <2>1 DEF CommandOK
<1>4. Excused(c) <=> Excused(cli)
  BY <1>2 DEF Excused, CL!AtOnce
<1> HIDE DEF c
<1>5. QED
  BY <1>1, <1>2, <1>3, <1>4, CliGoes

LEMMA FinishedOK ==
    ASSUME CommandOK(cli), CL!Finished
    PROVE  CommandOK(cli')
<1>1. /\ cli \in Processes /\ CL!End(cli, "0")
      /\ cli.cmd \notin CL!Lenient => ~cli.failed
  BY DEF CL!Finished, CommandOK
<1>2. QED
  BY <1>1, CliEnds

\* The invariant of the commands.
LEMMA CommandsStayOK == Spec => []CommandOK(cli)
<1>1. CL!Init => CommandOK(cli)
  BY DEF CL!Init, CL!Idle, CommandOK, Processes, CL!Removing, CL!AtOnce
<1>2. CommandOK(cli) /\ [CL!Next]_cli => CommandOK(cli)'
  <2>1. ASSUME CommandOK(cli), CL!Next PROVE CommandOK(cli')
    BY <2>1, BeginOK, CheckAuthOK, FailuresOK, QuestionOK, ProceedOK, WriteOkOK, FinishedOK
       DEF CL!Next
  <2>2. QED
    BY <2>1
<1>3. QED
  BY <1>1, <1>2, CliPart, PTL DEF Spec

\* Of the commands that remove something, exactly those that remove it at once
\* have done so without a confirmation, whichever of the other steps fail
\* (services/remove.ts, env/remove.ts, backups/delete*.ts, restartMachine.ts;
\* at once: secret.ts, function.ts, apiKeys/remove.ts).
THEOREM RemovalsAreSure == Spec => []SureFirst
<1>1. CommandOK(cli) => SureFirst
  BY DEF CommandOK, Excused, SureFirst, CL!SureFirst
<1>2. QED
  BY <1>1, CommandsStayOK, PTL

\* A command that ends with code 0 met no failure, unless the user gave up or
\* the command is one of the lenient (fail() in tui/index.ts, and the catch of
\* every command).
THEOREM SuccessStaysTrue == Spec => []SuccessIsTrue
<1>1. CommandOK(cli) => SuccessIsTrue
  BY DEF CommandOK, SuccessIsTrue, CL!SuccessIsTrue
<1>2. QED
  BY <1>1, CommandsStayOK, PTL
=============================================================================
