----------------------------- MODULE LiveQuery -----------------------------
(***************************************************************************)
(* One client program and the server, about one subscription id: the       *)
(* composition of ClientSubscriptions and SharedObservable over websockets *)
(* that may break.  Each connection of the program is another Client       *)
(* object of the server, which may notice late that the socket is gone.    *)
(*                                                                         *)
(* The observable function exists and does not fail.  authorize(), where   *)
(* the server has it, takes its time but refuses nothing: what becomes of  *)
(* a request that is refused is in module Requests.                        *)
(***************************************************************************)
EXTENDS Messages, Naturals, Sequences, FiniteSets

CONSTANTS
    Callers, MaxSlot, MaxQueue,  \* of ClientSubscriptions
    Instances, Calls,            \* of SharedObservable
    MaxConnections,              \* bounds how often the program connects
    MaxFlight,                   \* bounds the messages on their way, each way
    Authorizes,  \* whether the server authorizes: config.authorize, or a
                 \* functionConfig without noAuth, that has authorize()
    MayReopen   \* whether the program, when it has unsubscribed, subscribes
                \* again while it is connected

ASSUME MayReopenIsBoolean == MayReopen \in BOOLEAN
ASSUME BoundsAreNumbers == MaxSlot \in Nat /\ MaxConnections \in Nat
ASSUME NoneIsNobody == None \notin Callers \cup Instances \cup (1..MaxConnections)

VARIABLES
    connected, cnt, subscribers, call, handle, view, cache, queue, draining,
    asked,       \* of ClientSubscriptions
    obs, registered, subscription, closed, calls, sent,  \* of SharedObservable
    connection,  \* how many connections were made; the last one is in use
    up,          \* the frames that went out on each connection and are not
                 \* handled yet: on their way, or waiting for authorize()
    busy,        \* the connection of which a frame is half handled, or 0
    down         \* what the server sent on the last one and is not received

clientVars == <<connected, cnt, subscribers, call, handle, view, cache, queue,
                draining, asked>>
serverState == <<obs, registered, subscription, closed, calls>>
vars == <<clientVars, serverState, sent, connection, up, busy, down>>

Clients == 1..MaxConnections

Client == INSTANCE ClientSubscriptions
Server == INSTANCE SharedObservable WITH Listeners <- {}

Init ==
    /\ Client!Init
    /\ Server!Init
    /\ connection = 0
    /\ up = [c \in Clients |-> <<>>]
    /\ busy = 0
    /\ down = <<>>
-----------------------------------------------------------------------------
(***************************************************************************)
(* Steps of the server.                                                    *)
(***************************************************************************)
\* What the step sends to the connection in use is on its way.
Transmit ==
    /\ IF connected /\ sent'[connection] # NoMsg
       THEN Len(down) < MaxFlight /\ down' = Append(down, sent'[connection])
       ELSE UNCHANGED down
    /\ UNCHANGED <<clientVars, connection>>

Ignore == Server!SendNothing /\ UNCHANGED serverState

HasData(c) ==
    /\ subscription[c] # None
    /\ obs[subscription[c]].checksum # None
    /\ obs[subscription[c]].clients[c].get # "none"

\* messageParser(), one message of a frame.
HandleMessage(c, m) ==
    \/ m.type = "Subscription" /\ Server!HandleSubscribe(c, m.checksum, m.get)
    \/ m.type = "GetSubscription" /\ Server!HandleGet(c, m.checksum)
    \/ m.type = "Unsubscribe" /\ Server!HandleUnsubscribe(c)
    \/ m.type = "Unsubscribe" /\ subscription[c] = None /\ Ignore
    \/ m.type = "SendSubscriptionData" /\ Server!HandleSendData(c)
    \/ m.type = "SendSubscriptionData" /\ ~HasData(c) /\ Ignore

\* Which frame is handled next.  Without authorize() handleRequests() parses a
\* frame as it comes.  With it each waits for a promise of its own, so that one
\* may overtake another; but not one that is half handled.
MayBeNext(c, f) == f = 1 \/ (Authorizes /\ busy = 0)

\* The frames of a connection but one.
Others(frames, f) == SubSeq(frames, 1, f - 1) \o SubSeq(frames, f + 1, Len(frames))

\* The messages of a frame are handled one at a time; nothing else happens at
\* the server before the whole frame is.
Handle(c) ==
    /\ Server!MayHandle(c)
    /\ busy \in {0, c}
    /\ \E f \in DOMAIN up[c] :
        /\ MayBeNext(c, f)
        /\ HandleMessage(c, Head(up[c][f]))
        /\ LET rest == Tail(up[c][f]) IN
           IF rest = <<>>
           THEN up' = [up EXCEPT ![c] = Others(@, f)] /\ busy' = 0
           ELSE up' = [up EXCEPT ![c] = <<rest>> \o Others(@, f)] /\ busy' = c
    /\ Transmit

\* A handler that awaited goes on.
Resume ==
    /\ busy = 0
    /\ \E s \in Calls : Server!CreateFor(s) \/ Server!JoinForGet(s)
    /\ Transmit
    /\ UNCHANGED <<up, busy>>

Publish ==
    /\ busy = 0
    /\ \E i \in Instances, v \in Versions, patched \in BOOLEAN :
            Server!Update(i, v, patched)
    /\ Transmit
    /\ UNCHANGED <<up, busy>>

RemoveTimeout ==
    /\ busy = 0
    /\ \E i \in Instances : Server!RemoveTimeout(i)
    /\ Transmit
    /\ UNCHANGED <<up, busy>>

\* The server notices that the socket is gone, before or after the program.
\* What was not read is lost; what waits for authorize() is not.
ServerClose(c) ==
    /\ c <= connection
    /\ busy = 0
    /\ Server!Close(c)
    /\ \E n \in 0..(IF Authorizes THEN Len(up[c]) ELSE 0) :
            up' = [up EXCEPT ![c] = SubSeq(@, 1, n)]
    /\ Transmit
    /\ UNCHANGED busy
-----------------------------------------------------------------------------
(***************************************************************************)
(* Steps of the program.                                                   *)
(***************************************************************************)
CallClient ==
    /\ MayReopen \/ cnt # 0 \/ asked = "nothing"
    /\ \E p \in Callers :
            \/ Client!Observe(p) \/ Client!GetFromCache(p)
            \/ Client!GetWaiting(p) \/ Client!Close(p)
    /\ Ignore
    /\ UNCHANGED <<connection, up, busy, down>>

\* What is sent on a socket that the server has closed is lost.
Drain ==
    /\ Client!Drain
    /\ Len(up[connection]) < MaxFlight
    /\ up' = IF queue = <<>> \/ connection \in closed THEN up
             ELSE [up EXCEPT ![connection] = Append(@, queue)]
    /\ Ignore
    /\ UNCHANGED <<connection, busy, down>>

Receive ==
    /\ down # <<>>
    /\ Client!Receive(Head(down))
    /\ down' = Tail(down)
    /\ Ignore
    /\ UNCHANGED <<connection, up, busy>>

Connect ==
    /\ connection < MaxConnections
    /\ Client!Connect
    /\ connection' = connection + 1
    /\ Ignore
    /\ UNCHANGED <<up, busy, down>>

Disconnect ==
    /\ Client!Disconnect
    /\ down' = <<>>
    /\ Ignore
    /\ UNCHANGED <<connection, up, busy>>

Next ==
    \/ CallClient \/ Drain \/ Receive \/ Connect \/ Disconnect
    \/ \E c \in Clients : Handle(c) \/ ServerClose(c)
    \/ Resume \/ Publish \/ RemoveTimeout

Spec == Init /\ [][Next]_vars
-----------------------------------------------------------------------------
(***************************************************************************)
(* Properties.                                                             *)
(***************************************************************************)
\* Everything that was sent is handled.
Quiet ==
    /\ connected
    /\ connection \notin closed
    /\ queue = <<>> /\ up[connection] = <<>> /\ down = <<>>
    /\ \A s \in Calls : calls[s] = Server!Idle

Observed == ~Client!OnlyGets

\* The version that the instance which serves the program has published.
Published ==
    IF subscription[connection] = None THEN None
    ELSE obs[subscription[connection]].checksum

\* When nothing is on its way, what an observer holds is the version that the
\* instance which serves it published last, over all reconnects, refetches,
\* lost sockets and replaced instances.  Not so when the program may reopen: it
\* ignores an update while it has no entry, and nobody tells the server.
Converged ==
    Quiet /\ Observed /\ Published # None => cache.checksum = Published

\* The same of each caller: when nothing is on its way and the server has data,
\* no observe() still waits for its first value, and the last value each onData
\* was called with is the version published last.
ObserverSees ==
    Quiet /\ Published # None =>
        \A p \in Callers :
            /\ call[p] # "observe"
            /\ call[p] = "open" => view[p] = Published

\* When nothing is on its way, an observer has an entry at the server: no
\* reconnect and no message that crosses another leaves it without one.  Not so
\* when a connection has two lookups of the function under way: the entry that
\* one makes goes with the answer to the other.  And not so when the server
\* authorizes: a Subscription that is authorized before the Unsubscribe that
\* went out before it finds an entry, which the Unsubscribe then takes away.
ObserverIsServed == Quiet /\ Observed => subscription[connection] # None

\* The cached value is the one the cached checksum was computed from: a reply
\* that says "you have it" only reaches a cache that has it.  Not so when the
\* program may reopen: the cache can move on while the reply is on its way.
CacheIsGenuine == cache.value = cache.checksum

\* "simply get the data once": when nothing is on its way and the server has
\* data for the program, no get() still waits.  Two places break this.
\* getObservable() does not answer a connection that has an entry; and a get()
\* that was lost with its connection is repeated as a Subscription, which the
\* server answers only if the data are new.
GetsAnswered ==
    Quiet /\ Published # None => \A p \in Callers : call[p] # "get"
=============================================================================
