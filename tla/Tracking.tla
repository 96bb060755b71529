------------------------------ MODULE Tracking ------------------------------
(***************************************************************************)
(* Page-view tracking (packages/client: track.ts, Client.onReconnect;      *)
(* packages/server: handlers/track).  A client remembers what it tracks    *)
(* and says so again after a reconnect; the server remembers it per        *)
(* connection and keeps two counters of active visitors, one per key that  *)
(* deleteEvent() removes and one per server that it does not.              *)
(*                                                                         *)
(* One client over one connection after another.  The server authorizes    *)
(* every frame: it may refuse messages of it, take it after later frames,  *)
(* and take it when its connection is closed.  What onClose of the         *)
(* configuration does with the counters of a closed connection is not in   *)
(* the repository; here they stay.                                         *)
(***************************************************************************)
EXTENDS Integers, Sequences, FiniteSets

CONSTANTS
    Keys,
    MaxTracks  \* bounds the calls of the client and its connections

VARIABLES
    tracking,   \* client.tracking
    tracked,    \* client.tracking is defined
    trackQueue, \* the Track messages of client.queue
    trackWire,  \* those on their way to the server, or being authorized, of the
                \* connection that is open and of the last that was closed
    trackUp,    \* the connection
    serverTrack,\* client.track of the server's Client, for both connections
    active,     \* the counter A_<key>, for one country and for total alike
    perServer,  \* the counter S_<server>, <key>_<country>
    visits,     \* the counter <key>
    deleting,   \* deleteEvent() awaits hgetall()
    tracks,     \* how many calls the client made and connections it had
    counted,    \* history: perServer when active was last removed
    unsaid,     \* history: tracked keys the server was not told of
    amiss       \* history: keys the last word on which the server refused, or
                \* took before an earlier one

vars == <<tracking, tracked, trackQueue, trackWire, trackUp, serverTrack, active,
          perServer, visits, deleting, tracks, counted, unsaid, amiss>>

counters == <<active, perServer, visits, counted>>
trackServer == <<serverTrack, deleting, counters>>

Wires == {"open", "closed"}
TrackMsgs == [t : Keys, is : {"track", "untrack", "event", "remove"}]

Zero == [k \in Keys |-> 0]

Init ==
    /\ tracking = {} /\ tracked = FALSE /\ trackQueue = <<>> /\ trackUp = FALSE
    /\ trackWire = [w \in Wires |-> <<>>] /\ serverTrack = [w \in Wires |-> {}]
    /\ deleting = {} /\ tracks = 0 /\ unsaid = {} /\ amiss = {}
    /\ active = Zero /\ perServer = Zero /\ visits = Zero /\ counted = Zero

\* Where messages say whether the key is tracked.
Says(s, k) == {i \in DOMAIN s : s[i].t = k /\ s[i].is \in {"track", "untrack"}}
-----------------------------------------------------------------------------
\* track(), untrack(), event() and clearAnalytics().  untrack() throws when
\* nothing was ever tracked, before it queues anything.
TrackCall(m) ==
    /\ tracks < MaxTracks /\ tracks' = tracks + 1
    /\ m.is = "untrack" => tracked
    /\ tracked' = (tracked \/ m.is = "track")
    /\ tracking' = CASE m.is = "track"   -> tracking \cup {m.t}
                     [] m.is = "untrack" -> tracking \ {m.t}
                     [] OTHER            -> tracking
    /\ trackQueue' = Append(trackQueue, m)
    /\ IF m.is \in {"track", "untrack"}
       THEN unsaid' = unsaid \ {m.t} /\ amiss' = amiss \ {m.t}
       ELSE UNCHANGED <<unsaid, amiss>>
    /\ UNCHANGED <<trackWire, trackUp, trackServer>>

\* A frame: its messages, with the number of tracks for its name.
Frame(s) == [i \in DOMAIN s |-> [t |-> s[i].t, is |-> s[i].is, frame |-> tracks]]

\* drainQueue().
TrackSend ==
    /\ trackUp /\ trackQueue # <<>>
    /\ trackWire' = [trackWire EXCEPT !["open"] = @ \o Frame(trackQueue)]
    /\ trackQueue' = <<>>
    /\ UNCHANGED <<tracking, tracked, trackUp, trackServer, tracks, unsaid, amiss>>

\* The keys in any order: a Set in the order they were tracked.
Orders == {s \in [1..Cardinality(tracking) -> tracking] :
               \A k \in tracking : \E i \in DOMAIN s : s[i] = k}

Queued == {k \in Keys : Says(trackQueue, k) # {}}

\* Mutant: nothing is said again.
TrackReopenSilently(again) ==
    /\ tracks < MaxTracks /\ tracks' = tracks + 1
    /\ ~trackUp /\ trackUp' = TRUE
    /\ unsaid' = IF again THEN {} ELSE tracking \ Queued
    /\ UNCHANGED <<tracking, tracked, trackQueue, trackWire, trackServer, amiss>>

\* A connection opens: onReconnect() if it is one that came back, not if the
\* program called disconnect() and connect().
TrackReopen(again) ==
    /\ tracks < MaxTracks /\ tracks' = tracks + 1
    /\ ~trackUp /\ trackUp' = TRUE
    /\ IF again
       THEN /\ \E s \in Orders : trackQueue' = trackQueue \o
                   [i \in DOMAIN s |-> [t |-> s[i], is |-> "track"]]
            /\ unsaid' = {}
       ELSE unsaid' = tracking \ Queued /\ UNCHANGED trackQueue
    /\ UNCHANGED <<tracking, tracked, trackWire, trackServer, amiss>>

\* The connection goes; of what is on its way the server may have the first.
TrackDown ==
    /\ trackUp /\ trackUp' = FALSE
    /\ \E n \in 0..Len(trackWire["open"]) :
           trackWire' = [w \in Wires |->
               IF w = "open" THEN <<>> ELSE SubSeq(trackWire["open"], 1, n)]
    /\ serverTrack' = [w \in Wires |-> IF w = "open" THEN {} ELSE serverTrack["open"]]
    /\ amiss' = {}
    /\ UNCHANGED <<tracking, tracked, trackQueue, deleting, counters, tracks, unsaid>>
-----------------------------------------------------------------------------
Incr(counter, k, n) == [counter EXCEPT ![k] = @ + n]

StopTracking(w, k) ==
    /\ IF k \in serverTrack[w]
       THEN /\ serverTrack' = [serverTrack EXCEPT ![w] = @ \ {k}]
            /\ active' = Incr(active, k, 0 - 1)
            /\ perServer' = Incr(perServer, k, 0 - 1)
       ELSE UNCHANGED <<serverTrack, active, perServer>>
    /\ UNCHANGED <<visits, counted, deleting>>

TrackEvent(w, k, isEvent) ==
    /\ visits' = [visits EXCEPT ![k] = 1]  \* not 0
    /\ IF isEvent \/ k \in serverTrack[w]
       THEN UNCHANGED <<serverTrack, active, perServer>>
       ELSE /\ serverTrack' = [serverTrack EXCEPT ![w] = @ \cup {k}]
            /\ active' = Incr(active, k, 1)
            /\ perServer' = Incr(perServer, k, 1)
    /\ UNCHANGED <<counted, deleting>>

Without(s, i) == [j \in 1..(Len(s) - 1) |-> IF j < i THEN s[j] ELSE s[j + 1]]

\* The frames are authorized side by side, the messages of one are taken in
\* their order.
MayBeTaken(s, i) == i \in DOMAIN s /\ \A j \in 1..(i - 1) : s[j].frame # s[i].frame

\* What the client said last of a key is refused, or overtakes what it said
\* before.
GoesAmiss(s, i, granted) ==
    LET k == s[i].t IN
    /\ i \in Says(s, k) /\ (\A j \in Says(s, k) : j <= i) /\ k \notin Queued
    /\ ~granted \/ \E j \in Says(s, k) : j < i

TrackReceive(w, i, granted) ==
    LET s == trackWire[w]  m == s[i] IN
    /\ MayBeTaken(s, i)
    /\ trackWire' = [trackWire EXCEPT ![w] = Without(s, i)]
    /\ amiss' = IF w = "open" /\ GoesAmiss(s, i, granted) THEN amiss \cup {m.t} ELSE amiss
    /\ IF granted
       THEN CASE m.is = "untrack" -> StopTracking(w, m.t)
              [] m.is = "remove"  -> deleting' = deleting \cup {m.t}
                                     /\ UNCHANGED <<serverTrack, counters>>
              [] OTHER            -> TrackEvent(w, m.t, m.is = "event")
       ELSE UNCHANGED trackServer
    /\ UNCHANGED <<tracking, tracked, trackQueue, trackUp, tracks, unsaid>>

\* hgetall() has returned: the counters of the key are removed.
DeleteEvent(k) ==
    /\ k \in deleting /\ deleting' = deleting \ {k}
    /\ visits' = [visits EXCEPT ![k] = 0]
    /\ active' = [active EXCEPT ![k] = 0]
    /\ counted' = [counted EXCEPT ![k] = perServer[k]]
    /\ UNCHANGED <<tracking, tracked, trackQueue, trackWire, trackUp, serverTrack,
                   perServer, tracks, unsaid, amiss>>

Next ==
    \/ \E m \in TrackMsgs : TrackCall(m)
    \/ \E again \in BOOLEAN : TrackReopen(again)
    \/ TrackSend \/ TrackDown
    \/ \E w \in Wires, granted \in BOOLEAN : \E i \in DOMAIN trackWire[w] :
           TrackReceive(w, i, granted)
    \/ \E k \in Keys : DeleteEvent(k)

Spec == Init /\ [][Next]_vars
-----------------------------------------------------------------------------
(***************************************************************************)
(* Properties.                                                             *)
(***************************************************************************)
\* When nothing is on its way the server tracks what the client tracks, but
\* for what a connection made anew was not told, and for the keys of which it
\* refused the last word or took it before an earlier one: nobody notices, and
\* the two disagree until the client says it again or the connection goes.  The
\* two counters of active visitors agree whatever is refused, overtaken or
\* late, but for what was counted when one was removed.
ActivityAgrees ==
    /\ trackUp /\ trackQueue = <<>> /\ trackWire["open"] = <<>> =>
           serverTrack["open"] \ amiss = tracking \ (unsaid \cup amiss)
    /\ \A k \in Keys : active[k] = perServer[k] - counted[k]
=============================================================================
