----------------------------- MODULE Connection -----------------------------
(***************************************************************************)
(* How the client keeps a websocket (packages/client: websocket/, and      *)
(* connect() and disconnect() of Based): a promised url and a timer before *)
(* each socket, reconnecting, closing in a hidden page and coming back     *)
(* with it.  Every socket has its own isActive; the activity listener of   *)
(* the connection is that of its last socket.                              *)
(*                                                                         *)
(* One call of connect(), then disconnect() at any time: to connect() anew *)
(* without disconnecting leaves the first connection alive.                *)
(***************************************************************************)
EXTENDS Integers, FiniteSets

CONSTANT MaxSockets  \* bounds the websockets

VARIABLES
    sockets,      \* per socket: "none", "connecting", "open", "closing", "closed"
    isActive,     \* per socket: isActive of its closure
    loading,      \* how many connect() calls await url()
    timing,       \* how many await their timer
    listener,     \* the socket whose listener activityListeners holds, or 0
    connectionWs, \* connection.ws, or 0
    disconnected, \* connection.disconnected
    connected,    \* client.connected
    hidden,       \* document.hidden
    hiddenTimer,  \* activeTimer
    rejected      \* history: url() has rejected

vars == <<sockets, isActive, loading, timing, listener, connectionWs,
          disconnected, connected, hidden, hiddenTimer, rejected>>

Sockets == 1..MaxSockets
page == <<hidden, hiddenTimer>>
queued == <<loading, timing>>

\* connect() is called: a string is its own url, at once.  How long the timer
\* is does not matter here.
Connect ==
    \/ loading' = loading + 1 /\ UNCHANGED timing
    \/ timing' = timing + 1 /\ UNCHANGED loading

Init ==
    /\ sockets = [s \in Sockets |-> "none"]
    /\ isActive = [s \in Sockets |-> TRUE]
    /\ loading = 1 /\ timing = 0
    /\ listener = 0 /\ connectionWs = 0
    /\ disconnected = FALSE /\ connected = FALSE
    /\ hidden = FALSE /\ hiddenTimer = FALSE /\ rejected = FALSE

Is(s, states) == sockets[s] \in states
-----------------------------------------------------------------------------
UrlLoaded ==
    /\ loading > 0
    /\ loading' = loading - 1 /\ timing' = timing + 1
    /\ UNCHANGED <<sockets, isActive, listener, connectionWs, disconnected,
                   connected, page, rejected>>

\* Nobody catches the rejection: this connect() ends here.
UrlRejected ==
    /\ loading > 0 /\ loading' = loading - 1
    /\ rejected' = TRUE
    /\ UNCHANGED <<sockets, isActive, timing, listener, connectionWs,
                   disconnected, connected, page>>

\* The timer fires and makes a socket.
Open(s) ==
    /\ Is(s, {"none"}) /\ \A t \in Sockets : t < s => ~Is(t, {"none"})
    /\ timing > 0 /\ timing' = timing - 1
    /\ IF disconnected
       THEN UNCHANGED <<sockets, listener, connectionWs>>
       ELSE /\ sockets' = [sockets EXCEPT ![s] = "connecting"]
            /\ listener' = s /\ connectionWs' = s
    /\ UNCHANGED <<isActive, loading, disconnected, connected, page, rejected>>

\* onopen.
OnOpen(s) ==
    /\ Is(s, {"connecting"})
    /\ sockets' = [sockets EXCEPT ![s] = "open"]
    /\ connected' = (connected \/ (isActive[s] /\ ~disconnected))
    /\ UNCHANGED <<isActive, queued, listener, connectionWs, disconnected, page, rejected>>

\* Mutant: a socket that fails before it was open is not replaced.
OnCloseIfOpen(s) ==
    /\ Is(s, {"connecting", "open", "closing"})
    /\ sockets' = [sockets EXCEPT ![s] = "closed"]
    /\ IF isActive[s] /\ ~disconnected /\ sockets[s] = "open"
       THEN connected' = FALSE /\ Connect
       ELSE UNCHANGED <<connected, queued>>
    /\ UNCHANGED <<isActive, listener, connectionWs, disconnected, page, rejected>>

\* onclose: of an attempt that failed, of a connection that broke, or of a
\* socket that was closed.
OnClose(s) ==
    /\ Is(s, {"connecting", "open", "closing"})
    /\ sockets' = [sockets EXCEPT ![s] = "closed"]
    /\ IF isActive[s] /\ ~disconnected
       THEN connected' = FALSE /\ Connect
       ELSE UNCHANGED <<connected, queued>>
    /\ UNCHANGED <<isActive, listener, connectionWs, disconnected, page, rejected>>

Closing(s) == [sockets EXCEPT ![s] = IF @ \in {"connecting", "open"} THEN "closing" ELSE @]
-----------------------------------------------------------------------------
\* visibilitychange: a hidden page waits 30 seconds, a visible one tells the
\* listener at once.
Hide ==
    /\ ~hidden /\ hidden' = TRUE /\ hiddenTimer' = TRUE
    /\ UNCHANGED <<sockets, isActive, queued, listener, connectionWs,
                   disconnected, connected, rejected>>

SendToBackground ==
    /\ hiddenTimer /\ hiddenTimer' = FALSE
    /\ IF listener # 0 /\ ~disconnected /\ isActive[listener]
       THEN /\ isActive' = [isActive EXCEPT ![listener] = FALSE]
            /\ connected' = FALSE
            /\ sockets' = Closing(listener)
       ELSE UNCHANGED <<isActive, connected, sockets>>
    /\ UNCHANGED <<queued, listener, connectionWs, disconnected, hidden, rejected>>

Show ==
    /\ hidden /\ hidden' = FALSE /\ hiddenTimer' = FALSE
    /\ IF listener # 0 /\ ~disconnected /\ ~isActive[listener]
       THEN listener' = 0 /\ Connect
       ELSE UNCHANGED <<listener, queued>>
    /\ UNCHANGED <<sockets, isActive, connectionWs, disconnected, connected, rejected>>

\* disconnect().
Disconnect ==
    /\ ~disconnected /\ disconnected' = TRUE
    /\ listener' = 0 /\ connected' = FALSE
    /\ sockets' = IF connectionWs = 0 THEN sockets ELSE Closing(connectionWs)
    /\ UNCHANGED <<isActive, queued, connectionWs, page, rejected>>

Next ==
    \/ UrlLoaded \/ UrlRejected \/ Hide \/ SendToBackground \/ Show \/ Disconnect
    \/ \E s \in Sockets : Open(s) \/ OnOpen(s) \/ OnClose(s)

Spec == Init /\ [][Next]_vars
-----------------------------------------------------------------------------
(***************************************************************************)
(* Properties.                                                             *)
(***************************************************************************)
\* The client is never stranded: until it disconnects or its url fails there
\* is a socket that will report back, a connect() under way, or a hidden page
\* whose listener will connect; and what calls itself connected has an open
\* socket that is not in the background.
NeverStranded ==
    /\ \/ disconnected \/ rejected
       \/ (\E s \in Sockets : isActive[s] /\ Is(s, {"connecting", "open", "closing"}))
       \/ loading + timing > 0
       \/ hidden /\ listener # 0 /\ ~isActive[listener]
    /\ connected => \E s \in Sockets : isActive[s] /\ Is(s, {"open"})
=============================================================================
