------------------------------- MODULE Parts -------------------------------
(***************************************************************************)
(* The parts that neither call one another nor share state, side by side:  *)
(* part says which of them a behaviour is about, the others stay as they   *)
(* are.  The states are the sum of those of the parts, not their product,  *)
(* one run explores all of them, and what is proved of a part is proved of *)
(* Spec.                                                                   *)
(***************************************************************************)
EXTENDS Naturals, FiniteSets

CONSTANTS
    None,
    Clients, MaxQueue, MaxTotal, MaxSends, Strings, MaxVersion, MaxCount,
    ConfigClients, MaxObs, MaxTicks,
    UserClients, MaxRuns,
    Tokens, NoToken, Subs, Runs, MaxAuths,
    Callers, MaxIds, Ops, Names, Keys, MaxTracks, MaxSockets, TreeSize,
    HttpRequests, MaxChunks, Uploads, Size, MaxFiles, MaxLines

\* A server has finitely many clients, an upload finitely many chunks, a form
\* finitely many lines; None is no version, and 0, which no request is owned
\* by, is no caller.
ASSUME ClientsAreFinite == IsFiniteSet(Clients) /\ IsFiniteSet(UserClients)
ASSUME NoneIsNoVersion == None \notin Nat
ASSUME ZeroIsNoCaller == 0 \notin Callers
ASSUME BoundsAreNumbers ==
    /\ Size \in Nat /\ MaxFiles \in Nat /\ MaxLines \in Nat
    /\ MaxSockets \in Nat /\ MaxIds \in Nat

VARIABLE part
VARIABLES backpressureQueue, totalBp, buffered, ended, wire, sends, requoted,
          alive
VARIABLES dbLive, dbClients, dbCnt, version, lastDiff, errorState, retryTimer,
          removeTimer, held, asks, doubled
VARIABLES config, current, named, cache, waits
VARIABLES status, registered, emitter, emitters, timers, running, late,
          overrun, listened
VARIABLES token, unpacked, decodes, outdated, subs, run, progress
VARIABLES owner, kind, callback, queue, draining, online, up, judging,
          granted, handled, working, answers, retrying, renewing, settled,
          lost
VARIABLES op
VARIABLES fns, asked, passing, clearing, armed, idle, certs, secretTimeouts,
          fetching
VARIABLES tracking, tracked, trackQueue, trackWire, trackUp, serverTrack,
          active, perServer, visits, deleting, tracks, counted, unsaid, amiss
VARIABLES sockets, isActive, loading, timing, listener, connectionWs,
          disconnected, connected, hidden, hiddenTimer, rejected
VARIABLES parents, setObjects, stored, copyReply
VARIABLES clientToken, user, waiters, beingAuth, localStorage, seen, authUp,
          tokensUp, judged, tokensDown, serverToken, authCalls, auths, apart,
          unasked, unanswered
VARIABLES rest
VARIABLES upload, urlAsk, urlMemo
VARIABLES files, isWriting, skipping, formEnds, formFault, formSent, cut, formLines
VARIABLES cli

BP == INSTANCE Backpressure
DB == INSTANCE DbSubscription
CO == INSTANCE ConfigObservable WITH Clients <- ConfigClients
UO == INSTANCE UserObservable WITH Clients <- UserClients
ST == INSTANCE ServerToken
RQ == INSTANCE Requests
SC == INSTANCE ServerCaller
FC == INSTANCE FunctionCache
TR == INSTANCE Tracking
CN == INSTANCE Connection
CT == INSTANCE CopyTree WITH Size <- TreeSize
CA == INSTANCE ClientAuth
RR == INSTANCE RestRequest
UP == INSTANCE Upload
FU == INSTANCE FormUpload
CL == INSTANCE Cli

Parts == {"bp", "db", "config", "user", "token", "requests", "caller", "cache",
          "track", "socket", "copy", "auth", "rest", "upload", "form", "cli"}

Others(p) ==
    /\ p # "bp" => UNCHANGED <<backpressureQueue, totalBp, buffered, ended,
          wire, sends, requoted, alive>>
    /\ p # "db" => UNCHANGED <<dbLive, dbClients, dbCnt, version, lastDiff,
          errorState, retryTimer, removeTimer, held, asks, doubled>>
    /\ p # "config" => UNCHANGED <<config, current, named, cache, waits>>
    /\ p # "user" => UNCHANGED <<status, registered, emitter, emitters,
          timers, running, late, overrun, listened>>
    /\ p # "token" => UNCHANGED <<token, unpacked, decodes, outdated, subs, run,
          progress>>
    /\ p # "requests" => UNCHANGED <<owner, kind, callback, queue, draining,
          online, up, judging, granted, handled, working, answers, retrying,
          renewing, settled, lost>>
    /\ p # "caller" => UNCHANGED op
    /\ p # "cache" => UNCHANGED <<fns, asked, passing, clearing, armed, idle,
          certs, secretTimeouts, fetching>>
    /\ p # "track" => UNCHANGED <<tracking, tracked, trackQueue, trackWire,
          trackUp, serverTrack, active, perServer, visits, deleting, tracks,
          counted, unsaid, amiss>>
    /\ p # "socket" => UNCHANGED <<sockets, isActive, loading, timing,
          listener, connectionWs, disconnected, connected, hidden,
          hiddenTimer, rejected>>
    /\ p # "copy" => UNCHANGED <<parents, setObjects, stored, copyReply>>
    /\ p # "auth" => UNCHANGED <<clientToken, user, waiters, beingAuth,
          localStorage, seen, authUp, tokensUp, judged, tokensDown,
          serverToken, authCalls, auths, apart, unasked, unanswered>>
    /\ p # "rest" => UNCHANGED rest
    /\ p # "upload" => UNCHANGED <<upload, urlAsk, urlMemo>>
    /\ p # "form" => UNCHANGED <<files, isWriting, skipping, formEnds,
          formFault, formSent, cut, formLines>>
    /\ p # "cli" => UNCHANGED cli

\* A step of part p.
In(p, A) == part = p /\ A /\ part' = part /\ Others(p)

Init ==
    /\ part \in Parts
    /\ BP!Init /\ DB!Init /\ CO!Init /\ UO!Init /\ ST!Init /\ RQ!Init /\ SC!Init /\ FC!Init
    /\ TR!Init /\ CN!Init /\ CT!Init /\ CA!Init /\ RR!Init /\ UP!Init /\ FU!Init /\ CL!Init

Next ==
    \/ In("bp", BP!Next)
    \/ In("db", DB!Next)
    \/ In("config", CO!Next)
    \/ In("user", UO!Next)
    \/ In("token", ST!Next)
    \/ In("requests", RQ!Next)
    \/ In("caller", SC!Next)
    \/ In("cache", FC!Next)
    \/ In("track", TR!Next)
    \/ In("socket", CN!Next)
    \/ In("copy", CT!Next)
    \/ In("auth", CA!Next)
    \/ In("rest", RR!Next)
    \/ In("upload", UP!Next)
    \/ In("form", FU!Next)
    \/ In("cli", CL!Next)

vars == <<part, backpressureQueue, totalBp, buffered, ended, wire, sends,
          requoted, alive, dbLive, dbClients, dbCnt, version, lastDiff, errorState,
          retryTimer, removeTimer, held, asks, doubled, config, current,
          named, cache, waits, status, registered, emitter, emitters, timers,
          running, late, overrun, listened, token, unpacked, decodes, outdated,
          subs, run, progress, owner, kind, callback, queue, draining, online,
          up, judging, granted, handled, working, answers, retrying, renewing,
          settled, lost, op, fns, asked, passing, clearing, armed, idle,
          certs, secretTimeouts, fetching, tracking, tracked, trackQueue,
          trackWire, trackUp, serverTrack, active, perServer, visits,
          deleting, tracks, counted, unsaid, amiss, sockets, isActive, loading,
          timing, listener, connectionWs, disconnected, connected, hidden,
          hiddenTimer, rejected, parents, setObjects, stored, copyReply,
          clientToken, user, waiters, beingAuth, localStorage, seen, authUp,
          tokensUp, judged, tokensDown, serverToken, authCalls, auths, apart,
          unasked, unanswered, rest, upload, urlAsk, urlMemo, files, isWriting,
          skipping, formEnds, formFault, formSent, cut, formLines, cli>>

\* The fairness of the parts that have one.
Fairness ==
    /\ \A c \in Clients : WF_vars(In("bp", BP!Reads(c)))
    /\ WF_vars(In("db", DB!RemoveTimeout)) /\ WF_vars(In("db", DB!Retry))
    /\ \A i \in 1..MaxObs :
        /\ WF_vars(In("config", CO!RemoveTimeout(i)))
        /\ WF_vars(In("config", \E p \in BOOLEAN : CO!Tick(i, p)))
    /\ WF_vars(In("requests", RQ!Drain)) /\ WF_vars(In("requests", RQ!Receive))
    /\ WF_vars(In("requests", RQ!SomeJudged))
    /\ WF_vars(In("requests", RQ!SomeHandled))
    /\ WF_vars(In("requests", RQ!SomeAnswered))
    /\ WF_vars(In("requests", RQ!SomeRenewed))
    /\ WF_vars(In("cache", FC!Pass))
    /\ WF_vars(In("cache", FC!Cleared \/ FC!ClearThrows))

Spec == Init /\ [][Next]_vars /\ Fairness
-----------------------------------------------------------------------------
(***************************************************************************)
(* The properties of the parts, each stated at length in its module.       *)
(***************************************************************************)
\* Client.send() and drain() of the server deliver what is sent in order, a
\* string that had to wait encoded twice.
ImplementsDelivery == BP!ImplementsDelivery

\* totalBp is at least what waits for all clients.
TotalCoversQueues == BP!TotalCoversQueues

\* What waits for a client goes out, or the client goes.
SentGoesOut == BP!SentGoesOut

\* A database subscription that is used is not removed.
UsedIsKept == DB!UsedIsKept

\* What is noted for a client of a database subscription is what it holds.
ListedIsCurrent == DB!ListedIsCurrent

\* A database subscription that nobody uses is removed in the end.
UnusedIsRemoved == DB!UnusedIsRemoved

\* The subscriptions of the configuration to the functions are counted: one,
\* and those that an early error leaves behind.
ConfigFunctionsCounted == CO!ConfigFunctionsCounted

\* A get() of the configuration that was noted is answered in the end.
ConfigGetAnswered == CO!ConfigGetAnswered

\* A per-user observable counts its emitters.
UserCountExact == UO!UserCountExact

\* Every run of a per-user function ends with its emitter.
UserRunsEnd == UO!UserRunsEnd

\* The decoded token is that of the client's token, or of one whose decode the
\* change of token overtook.
UnpackedIsAccounted == ST!UnpackedIsAccounted

\* A request whose caller waits is in one place; none is settled twice.
RequestAccounted == RQ!RequestAccounted

\* No handler is called for a refused request.
OnlyGrantedHandled == RQ!OnlyGrantedHandled

\* Callers learn what became of a request that was not lost.
RequestEnds == RQ!RequestEnds

\* A server function that listens can be detached by somebody.
ListenersOwned == SC!ListenersOwned

\* Only functions that were idle at two passes are cleared.
ClearsOnlyIdle == FC!ClearsOnlyIdle

\* A function that stays idle is cleared in the end.
IdleIsForgotten == FC!IdleIsForgotten

\* The server knows what the client tracks, but for what it was not told,
\* refused or took too early; its two counters agree.
ActivityAgrees == TR!ActivityAgrees

\* There is always something that will bring the connection back.
NeverStranded == CN!NeverStranded

\* The copy of a tree has the shape of the tree.
ShapeKept == CT!ShapeKept

\* Client and server agree on the token; who waits for auth() has a reply to
\* come, unless nothing was asked or the server will not answer.
TokenInStep == CA!TokenInStep

\* An HTTP response is ended once and its client closed.
AnsweredOnce == RR!AnsweredOnce

\* The object of a file says what the server received of it.
ProgressTrue == UP!ProgressTrue

\* The stream of a stored file ends with the next boundary that is recognized,
\* and the response is ended once.
FilesEnd == FU!FilesEnd

\* The cli removes nothing before somebody is sure, but for what it removes at
\* once.
SureFirst == CL!SureFirst

\* The cli ends with code 0 only if no step failed.
SuccessIsTrue == CL!SuccessIsTrue
=============================================================================
