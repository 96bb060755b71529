----------------------- MODULE SharedObservableProofs -----------------------
(***************************************************************************)
(* Invariants of SharedObservable for every number of connections,         *)
(* listeners, versions, instances and awaiting handlers.                   *)
(*                                                                         *)
(* The methods of the class are operators on one instance, so there is one *)
(* lemma per method: it keeps an instance well formed (Sound) and says     *)
(* who is subscribed afterwards.  The steps then cite these lemmas.        *)
(***************************************************************************)
EXTENDS SharedObservable, FiniteSetTheorems, TLAPS

Sound(o) ==
    /\ o \in Observable
    /\ CountIsExact(o)
    /\ RemovalIsDue(o)
    /\ OnlyLiveServes(o)
    /\ EntriesAreCurrent(o)

LEMMA SubscribersFinite ==
    ASSUME NEW o
    PROVE  /\ IsFiniteSet(Subscribers(o))
           /\ Cardinality(Subscribers(o)) \in Nat
<1>1. Subscribers(o) \subseteq Clients
  BY DEF Subscribers
<1>2. QED
  BY <1>1, ClientsFinite, FS_Subset, FS_CardinalityType

LEMMA UnusedSound == Sound(Unused)
<1>1. Unused \in Observable
  BY DEF Unused, Observable, NoEntry, Entry, Flags, VersionOrNone
<1>2. Subscribers(Unused) = {}
  BY DEF Unused, Subscribers, NoEntry
<1>3. QED
  BY <1>1, <1>2, FS_EmptySet
  DEF Sound, CountIsExact, RemovalIsDue, OnlyLiveServes, EntriesAreCurrent,
      Unused

\* A new instance is sound but for the removal timer, which its first
\* subscriber or listener will make right.
LEMMA NewIsWellFormed ==
    ASSUME NEW r \in Receivers, NEW p \in FirstPublications
    PROVE  LET o == New(r, p[1], p[2]) IN
           /\ o \in Observable
           /\ CountIsExact(o)
           /\ Subscribers(o) = {}
           /\ o.status = "live"
           /\ o.listeners = {}
           /\ o.checksum = p[1]
<1> DEFINE o == New(r, p[1], p[2])
<1>0. p[1] \in VersionOrNone /\ p[2] \in VersionOrNone
  BY DEF FirstPublications
<1>1. o \in Observable
  BY <1>0 DEF New, Unused, Observable, NoEntry, Entry, Flags, VersionOrNone
<1>2. Subscribers(o) = {}
  BY DEF New, Unused, Subscribers, NoEntry
<1>3. QED
  BY <1>1, <1>2, FS_EmptySet DEF CountIsExact, New, Unused

LEMMA EmptyIsUnused ==
    ASSUME NEW o \in Observable, CountIsExact(o)
    PROVE  Empty(o) <=> Subscribers(o) = {} /\ o.listeners = {}
<1>1. o.clientsCnt = 0 <=> Subscribers(o) = {}
  BY SubscribersFinite, FS_EmptySet DEF CountIsExact
<1>2. QED
  BY <1>1 DEF Empty

\* DestroyIfEmpty() makes the timer right for an instance whose timer is off.
LEMMA DestroyIfEmptySound ==
    ASSUME NEW o \in Observable, CountIsExact(o), OnlyLiveServes(o),
           EntriesAreCurrent(o),
           o.removeTimer => Subscribers(o) = {} /\ o.listeners = {}
    PROVE  /\ Sound(DestroyIfEmpty(o))
           /\ Subscribers(DestroyIfEmpty(o)) = Subscribers(o)
           /\ DestroyIfEmpty(o).status = o.status
           /\ DestroyIfEmpty(o).clients = o.clients
           /\ DestroyIfEmpty(o).checksum = o.checksum
<1> DEFINE d == DestroyIfEmpty(o)
<1>1. d \in Observable
  BY DEF DestroyIfEmpty, Observable
<1>2. /\ d.status = o.status /\ d.clients = o.clients
      /\ d.checksum = o.checksum /\ d.clientsCnt = o.clientsCnt
      /\ d.listeners = o.listeners
  BY DEF DestroyIfEmpty, Observable
<1>3. Subscribers(d) = Subscribers(o)
  BY <1>2 DEF Subscribers
<1>4. d.removeTimer <=> Subscribers(d) = {} /\ d.listeners = {}
  BY <1>2, <1>3, EmptyIsUnused DEF DestroyIfEmpty, Observable
<1>5. QED
  BY <1>1, <1>2, <1>3, <1>4
  DEF Sound, CountIsExact, RemovalIsDue, OnlyLiveServes, EntriesAreCurrent

LEMMA UnsubscribeSound ==
    ASSUME NEW o, NEW c \in Clients, Sound(o)
    PROVE  /\ Sound(Unsubscribe(o, c))
           /\ Subscribers(Unsubscribe(o, c)) = Subscribers(o) \ {c}
           /\ Unsubscribe(o, c).status = o.status
<1>1. CASE o.clients[c].get = "none"
  BY <1>1 DEF Unsubscribe, Subscribers
<1>2. CASE o.clients[c].get # "none"
  <2> DEFINE r == [o EXCEPT !.clients[c] = NoEntry, !.clientsCnt = @ - 1]
  <2>1. o \in Observable /\ c \in Subscribers(o)
    BY <1>2 DEF Sound, Subscribers
  <2>2. Subscribers(r) = Subscribers(o) \ {c}
    BY <2>1 DEF Subscribers, Observable, NoEntry
  <2>3. Cardinality(Subscribers(r)) = o.clientsCnt - 1
    BY <2>1, <2>2, SubscribersFinite, FS_RemoveElement
    DEF Sound, CountIsExact
  <2>4. o.clientsCnt - 1 \in Nat
    BY <2>3, SubscribersFinite
  <2>5. r \in Observable
    BY <2>1, <2>4 DEF Observable, NoEntry, Entry, Flags, VersionOrNone
  <2>6. /\ r.status = o.status /\ r.clientsCnt = o.clientsCnt - 1
        /\ r.checksum = o.checksum /\ r.listeners = o.listeners
        /\ r.removeTimer = o.removeTimer
        /\ \A d \in Clients \ {c} : r.clients[d] = o.clients[d]
    BY <2>1 DEF Observable
  <2>7. CountIsExact(r) /\ OnlyLiveServes(r) /\ EntriesAreCurrent(r)
    BY <2>2, <2>3, <2>6
    DEF Sound, CountIsExact, OnlyLiveServes, EntriesAreCurrent, Subscribers
  <2>8. ~r.removeTimer
    BY <2>1, <2>6 DEF Sound, RemovalIsDue, OnlyLiveServes
  <2>9. Unsubscribe(o, c) = DestroyIfEmpty(r)
    BY <1>2 DEF Unsubscribe
  <2>10. QED
    BY <2>2, <2>5, <2>6, <2>7, <2>8, <2>9, DestroyIfEmptySound
<1>3. QED
  BY <1>1, <1>2

LEMMA ReplyIsMessage ==
    ASSUME NEW o \in Observable, NEW k \in VersionOrNone, NEW get
    PROVE  Reply(o, k, get) \in Downstream
BY DEF Reply, Observable, Downstream, NoMsg, Same, Diff, Full, Message,
       VersionOrNone

\* subscribe() for a client without an entry; the instance may be new, so
\* nothing is assumed about its timer.
LEMMA SubscribeSound ==
    ASSUME NEW o \in Observable, NEW c \in Clients, NEW k \in VersionOrNone,
           NEW get \in {"sub", "get", "both"},
           CountIsExact(o), EntriesAreCurrent(o), o.status = "live",
           c \notin Subscribers(o)
    PROVE  /\ Sound(Subscribe(o, c, k, get))
           /\ Subscribers(Subscribe(o, c, k, get)) =
                IF Answered(o, k, get) THEN Subscribers(o)
                                       ELSE Subscribers(o) \cup {c}
           /\ Subscribe(o, c, k, get).status = "live"
<1>1. CASE Answered(o, k, get)
  <2> DEFINE r == [o EXCEPT !.removeTimer = FALSE]
  <2>1. r \in Observable
    BY DEF Observable
  <2>2. /\ r.status = "live" /\ r.clients = o.clients /\ ~r.removeTimer
        /\ r.checksum = o.checksum /\ r.clientsCnt = o.clientsCnt
    BY DEF Observable
  <2>3. Subscribers(r) = Subscribers(o)
    BY <2>2 DEF Subscribers
  <2>4. CountIsExact(r) /\ OnlyLiveServes(r) /\ EntriesAreCurrent(r)
    BY <2>2, <2>3
    DEF CountIsExact, OnlyLiveServes, EntriesAreCurrent
  <2>5. Subscribe(o, c, k, get) = DestroyIfEmpty(r)
    BY <1>1 DEF Subscribe
  <2>6. QED
    BY <1>1, <2>1, <2>2, <2>3, <2>4, <2>5, DestroyIfEmptySound
<1>2. CASE ~Answered(o, k, get)
  <2> DEFINE seen == IF o.checksum = None THEN k ELSE o.checksum
             entry == [checksum |-> seen, get |-> get]
             r == [o EXCEPT !.clients[c] = entry, !.clientsCnt = @ + 1,
                            !.removeTimer = FALSE]
  <2>1. Subscribe(o, c, k, get) = r
    BY <1>2 DEF Subscribe
  <2>2. entry \in Entry
    BY DEF Observable, Entry, Flags
  <2>3. r \in Observable
    <3>1. o.clientsCnt + 1 \in Nat
      BY DEF Observable
    <3>2. [o.clients EXCEPT ![c] = entry] \in [Clients -> Entry]
      BY <2>2 DEF Observable
    <3> HIDE DEF entry
    <3>3. QED
      BY <3>1, <3>2 DEF Observable
  <2>4. /\ r.status = "live" /\ ~r.removeTimer /\ r.checksum = o.checksum
        /\ r.clientsCnt = o.clientsCnt + 1 /\ r.clients[c] = entry
        /\ \A d \in Clients \ {c} : r.clients[d] = o.clients[d]
    BY DEF Observable
  <2>5. Subscribers(r) = Subscribers(o) \cup {c}
    BY <2>4 DEF Subscribers
  <2>6. CountIsExact(r)
    BY <2>4, <2>5, SubscribersFinite, FS_AddElement DEF CountIsExact
  <2>7. EntriesAreCurrent(r)
    <3>1. o.checksum # None => get # "get"
      BY <1>2 DEF Answered, Reply, NoMsg, Same, Diff, Full, Message
    <3>2. QED
      BY <2>4, <2>5, <3>1 DEF EntriesAreCurrent
  <2>8. QED
    BY <1>2, <2>1, <2>3, <2>4, <2>5, <2>6, <2>7
    DEF Sound, RemovalIsDue, OnlyLiveServes
<1>3. QED
  BY <1>1, <1>2

\* A get on an entry that exists, or a second subscription of the client.
LEMMA ReflagSound ==
    ASSUME NEW o, NEW c \in Clients, NEW get \in {"sub", "both"},
           Sound(o), c \in Subscribers(o)
    PROVE  /\ Sound([o EXCEPT !.clients[c].get = get])
           /\ Subscribers([o EXCEPT !.clients[c].get = get]) = Subscribers(o)
           /\ [o EXCEPT !.clients[c].get = get].status = o.status
<1> DEFINE r == [o EXCEPT !.clients[c].get = get]
<1>0. o \in Observable
  BY DEF Sound
<1>1. r \in Observable
  BY <1>0 DEF Observable, Entry, Flags
<1>2. /\ r.status = o.status /\ r.checksum = o.checksum
      /\ r.clientsCnt = o.clientsCnt /\ r.listeners = o.listeners
      /\ r.removeTimer = o.removeTimer
      /\ r.clients[c].get = get /\ r.clients[c].checksum = o.clients[c].checksum
      /\ \A d \in Clients \ {c} : r.clients[d] = o.clients[d]
  BY <1>0 DEF Observable, Entry
<1>3. Subscribers(r) = Subscribers(o)
  BY <1>2 DEF Subscribers
<1>4. QED
  BY <1>1, <1>2, <1>3
  DEF Sound, CountIsExact, RemovalIsDue, OnlyLiveServes, EntriesAreCurrent

\* A listener of a new instance, of a live one, or of a removed one that the
\* caller still held; the timer may be anything on a new instance.
LEMMA AddListenerSound ==
    ASSUME NEW o \in Observable, NEW l \in Listeners,
           CountIsExact(o), OnlyLiveServes(o), EntriesAreCurrent(o),
           l \in o.listeners => RemovalIsDue(o)
    PROVE  /\ Sound(AddListener(o, l))
           /\ Subscribers(AddListener(o, l)) = Subscribers(o)
           /\ AddListener(o, l).status = o.status
<1> DEFINE r == AddListener(o, l)
<1>1. r \in Observable
  BY DEF AddListener, Observable
<1>2. /\ r.status = o.status /\ r.checksum = o.checksum
      /\ r.clientsCnt = o.clientsCnt /\ r.clients = o.clients
      /\ r.listeners = o.listeners \cup {l}
      /\ l \notin o.listeners => ~r.removeTimer
      /\ l \in o.listeners => r.removeTimer = o.removeTimer
  BY DEF AddListener, Observable
<1>3. Subscribers(r) = Subscribers(o)
  BY <1>2 DEF Subscribers
<1>4. QED
  BY <1>1, <1>2, <1>3
  DEF Sound, CountIsExact, RemovalIsDue, OnlyLiveServes, EntriesAreCurrent

LEMMA RemoveListenerSound ==
    ASSUME NEW o, NEW l \in o.listeners, Sound(o)
    PROVE  /\ Sound(RemoveListener(o, l))
           /\ Subscribers(RemoveListener(o, l)) = Subscribers(o)
           /\ RemoveListener(o, l).status = o.status
<1> DEFINE r == [o EXCEPT !.listeners = @ \ {l}]
<1>0. o \in Observable
  BY DEF Sound
<1>1. r \in Observable
  BY <1>0 DEF Observable
<1>2. /\ r.status = o.status /\ r.checksum = o.checksum
      /\ r.clientsCnt = o.clientsCnt /\ r.clients = o.clients
      /\ r.removeTimer = o.removeTimer
  BY <1>0 DEF Observable
<1>3. Subscribers(r) = Subscribers(o)
  BY <1>2 DEF Subscribers
<1>4. ~r.removeTimer
  BY <1>2 DEF Sound, RemovalIsDue
<1>5. CountIsExact(r) /\ OnlyLiveServes(r) /\ EntriesAreCurrent(r)
  BY <1>2, <1>3
  DEF Sound, CountIsExact, OnlyLiveServes, EntriesAreCurrent
<1>6. RemoveListener(o, l) = DestroyIfEmpty(r)
  BY DEF RemoveListener
<1>7. QED
  BY <1>1, <1>2, <1>3, <1>4, <1>5, <1>6, DestroyIfEmptySound

\* update(): the gets that are answered leave, everybody else holds v.
LEMMA PublishSound ==
    ASSUME NEW o, NEW v \in Versions, NEW patched \in BOOLEAN, Sound(o)
    PROVE  /\ Sound(Publish(o, v, patched))
           /\ Subscribers(Publish(o, v, patched)) =
                Subscribers(o) \ Leaving(o, v)
           /\ Publish(o, v, patched).status = o.status
<1> DEFINE leaving == Leaving(o, v)
           entries == [c \in Clients |->
                IF c \in leaving THEN NoEntry
                ELSE IF c \in Served(o, v)
                     THEN [o.clients[c] EXCEPT !.checksum = v]
                ELSE o.clients[c]]
           r == [o EXCEPT !.checksum = v,
                          !.lastDiff = IF patched THEN o.checksum ELSE None,
                          !.clients  = entries,
                          !.clientsCnt = @ - Cardinality(leaving)]
<1>0. o \in Observable
  BY DEF Sound
<1>1. leaving \subseteq Subscribers(o)
  BY DEF Leaving, Served
<1>2. /\ IsFiniteSet(leaving)
      /\ Cardinality(Subscribers(o) \ leaving)
            = o.clientsCnt - Cardinality(leaving)
  <2>1. Subscribers(o) \cap leaving = leaving
    BY <1>1
  <2> HIDE DEF leaving
  <2>2. IsFiniteSet(leaving)
    BY <1>1, SubscribersFinite, FS_Subset
  <2>3. Cardinality(Subscribers(o) \ leaving)
            = Cardinality(Subscribers(o)) - Cardinality(leaving)
    BY <2>1, SubscribersFinite, FS_Difference
  <2>4. QED
    BY <2>2, <2>3 DEF Sound, CountIsExact
<1>3. o.clientsCnt - Cardinality(leaving) \in Nat
  BY <1>2, SubscribersFinite, FS_Difference, FS_CardinalityType
<1>4. v \in VersionOrNone /\ v # None
  BY NoneIsNoVersion DEF VersionOrNone
<1>5. entries \in [Clients -> Entry]
  BY <1>0, <1>4 DEF Observable, Entry, NoEntry, Flags, VersionOrNone
<1>6. r \in Observable
  BY <1>0, <1>3, <1>4, <1>5 DEF Observable, VersionOrNone
<1>7. /\ r.status = o.status /\ r.checksum = v /\ r.clients = entries
      /\ r.clientsCnt = o.clientsCnt - Cardinality(leaving)
      /\ r.listeners = o.listeners /\ r.removeTimer = o.removeTimer
  BY <1>0 DEF Observable
<1>8. \A c \in Clients : entries[c].get =
            IF c \in leaving THEN "none" ELSE o.clients[c].get
  BY <1>0 DEF Observable, Entry, NoEntry
<1>9. Subscribers(r) = Subscribers(o) \ leaving
  BY <1>7, <1>8 DEF Subscribers
<1>10. CountIsExact(r)
  BY <1>2, <1>7, <1>9 DEF CountIsExact
<1>11. EntriesAreCurrent(r)
  <2>1. ASSUME NEW c \in Subscribers(r)
        PROVE  entries[c].checksum = v /\ entries[c].get # "get"
    <3>1. c \in Subscribers(o) /\ c \notin leaving /\ c \in Clients
      BY <1>9, <2>1 DEF Subscribers
    <3>2. CASE c \in Served(o, v)
      BY <1>0, <1>8, <3>1, <3>2 DEF Leaving, Observable, Entry
    <3>3. CASE c \notin Served(o, v)
      BY <1>8, <3>1, <3>3 DEF Served
    <3>4. QED
      BY <3>2, <3>3
  <2>2. QED
    BY <1>7, <2>1 DEF EntriesAreCurrent
<1>12. OnlyLiveServes(r)
  BY <1>7, <1>9 DEF Sound, OnlyLiveServes
<1>13. r.removeTimer => Subscribers(r) = {} /\ r.listeners = {}
  BY <1>7, <1>9 DEF Sound, RemovalIsDue
<1>14. CASE leaving = {}
  <2>1. Publish(o, v, patched) = r
    BY <1>14 DEF Publish
  <2>2. RemovalIsDue(r)
    BY <1>7, <1>9, <1>14 DEF Sound, RemovalIsDue
  <2>3. QED
    BY <1>6, <1>7, <1>9, <1>10, <1>11, <1>12, <2>1, <2>2 DEF Sound
<1>15. CASE leaving # {}
  <2>1. Publish(o, v, patched) = DestroyIfEmpty(r)
    BY <1>15 DEF Publish
  <2>2. QED
    BY <1>6, <1>7, <1>9, <1>10, <1>11, <1>12, <1>13, <2>1,
       DestroyIfEmptySound
<1>16. QED
  BY <1>14, <1>15
-----------------------------------------------------------------------------
(***************************************************************************)
(* The inductive invariant.  RemovalIsDue and the two invariants about who *)
(* names whom need each other: a client is dropped from the instance its   *)
(* `subscription` names, and only an entry there keeps the count exact.    *)
(***************************************************************************)
CallsWellFormed ==
    \A s \in Calls : calls[s] # Idle =>
        \/ /\ calls[s].op \in {"subscribe", "get"}
           /\ calls[s].who \in Clients
           /\ calls[s].get \in {"sub", "get", "both"}
           /\ calls[s].op = "get" => calls[s].get = "get"
           /\ calls[s].old = None
        \/ calls[s].op = "observe" /\ calls[s].who \in Listeners

IInv ==
    /\ TypeOK
    /\ InstancesSound
    /\ InstancesCurrent
    /\ RegisteredIsLive
    /\ ListedHasEntry
    /\ CallsWellFormed

\* The invariants about instances, gathered per instance.
LEMMA AllSound ==
    IInv <=> /\ TypeOK
             /\ \A i \in Instances : Sound(obs[i])
             /\ RegisteredIsLive
             /\ ListedHasEntry
             /\ CallsWellFormed
BY DEF IInv, TypeOK, Sound, InstancesSound, InstancesCurrent

LEMMA InitIInv == Init => IInv
<1> SUFFICES ASSUME Init PROVE IInv
  OBVIOUS
<1>1. \A i \in Instances : Sound(obs[i])
  BY UnusedSound DEF Init
<1>2. Idle \in CallRecords
  BY DEF Idle, Call, CallRecords, Flags, VersionOrNone
<1>3. NoMsg \in Downstream
  BY DEF NoMsg, Message, Downstream, VersionOrNone
<1>4. TypeOK
  BY <1>1, <1>2, <1>3 DEF Init, TypeOK, Sound
<1>5. RegisteredIsLive /\ ListedHasEntry /\ CallsWellFormed
  BY DEF Init, RegisteredIsLive, ListedHasEntry, CallsWellFormed
<1>6. QED
  BY <1>1, <1>4, <1>5, AllSound

LEMMA MessagesAreMessages ==
    /\ NoMsg \in Downstream
    /\ Error \in Downstream
    /\ \A v \in Versions : Full(v) \in Downstream
    /\ \A o \in Observable, c \in Clients, v \in Versions, p \in BOOLEAN :
            PublishMsg(o, c, v, p) \in Downstream
BY DEF NoMsg, Error, Full, Same, Diff, PublishMsg, Message, Downstream,
       VersionOrNone, Observable

LEMMA SendToType ==
    ASSUME NEW who, NEW msg \in Downstream, SendTo(who, msg)
    PROVE  sent' \in [Receivers -> Downstream]
BY MessagesAreMessages DEF SendTo

LEMMA SendNothingType == SendNothing => sent' \in [Receivers -> Downstream]
BY MessagesAreMessages DEF SendNothing

LEMMA IdleIsRecord == Idle \in CallRecords
BY DEF Idle, Call, CallRecords, Flags, VersionOrNone

\* The three things a step does to the awaiting handlers.
CallsKept == calls' \in [Calls -> CallRecords] /\ CallsWellFormed'

LEMMA UnchangedCalls ==
    ASSUME IInv, UNCHANGED calls
    PROVE  CallsKept
BY DEF IInv, TypeOK, CallsWellFormed, CallsKept

LEMMA FinishCalls ==
    ASSUME IInv, NEW s \in Calls, Finish(s)
    PROVE  CallsKept
BY IdleIsRecord DEF IInv, TypeOK, CallsWellFormed, Finish, CallsKept

LEMMA AwaitClientCall ==
    ASSUME IInv, NEW c \in Clients, NEW k \in VersionOrNone,
           NEW op \in {"subscribe", "get"}, NEW get \in {"sub", "get", "both"},
           op = "get" => get = "get",
           Await(Call(op, c, k, get, None))
    PROVE  CallsKept
<1> DEFINE call == Call(op, c, k, get, None)
<1>1. call \in CallRecords
  BY DEF Call, CallRecords, Receivers, Flags
<1>2. /\ call.op \in {"subscribe", "get"} /\ call.who \in Clients
      /\ call.get \in {"sub", "get", "both"} /\ call.old = None
      /\ call.op = "get" => call.get = "get"
  BY DEF Call
<1> HIDE DEF call
<1>3. PICK s \in Calls : calls' = [calls EXCEPT ![s] = call]
  BY DEF Await, call
<1>4. QED
  BY <1>1, <1>2, <1>3 DEF IInv, TypeOK, CallsWellFormed, CallsKept

LEMMA AwaitListenerCall ==
    ASSUME IInv, NEW l \in Listeners, NEW old \in Instances \cup {None},
           Await(Call("observe", l, None, "none", old))
    PROVE  CallsKept
<1> DEFINE call == Call("observe", l, None, "none", old)
<1>1. call \in CallRecords
  BY DEF Call, CallRecords, Receivers, Flags, VersionOrNone
<1>2. call.op = "observe" /\ call.who \in Listeners
  BY DEF Call
<1> HIDE DEF call
<1>3. PICK s \in Calls : calls' = [calls EXCEPT ![s] = call]
  BY DEF Await, call
<1>4. QED
  BY <1>1, <1>2, <1>3 DEF IInv, TypeOK, CallsWellFormed, CallsKept

\* Most steps replace one instance by a sound one.
LEMMA OneInstanceChanges ==
    ASSUME IInv, NEW i \in Instances, NEW n, Sound(n),
           obs' = [obs EXCEPT ![i] = n],
           registered' \in {registered, i, None},
           registered' = i => n.status = "live",
           subscription' \in [Clients -> Instances \cup {None}],
           \A c \in Clients :
               \/ subscription'[c] = None
               \/ subscription'[c] = i /\ c \in Subscribers(n)
               \/ subscription'[c] = subscription[c] /\ subscription[c] # i,
           closed' \subseteq Clients, CallsKept,
           sent' \in [Receivers -> Downstream]
    PROVE  IInv'
<1>1. obs \in [Instances -> Observable] /\ \A j \in Instances : Sound(obs[j])
  BY AllSound DEF TypeOK
<1>2. \A j \in Instances : obs'[j] = IF j = i THEN n ELSE obs[j]
  BY <1>1
<1>3. \A j \in Instances : Sound(obs'[j])
  BY <1>1, <1>2
<1>4. TypeOK'
  <2>1. obs' \in [Instances -> Observable]
    BY <1>1 DEF Sound
  <2>2. registered' \in Instances \cup {None}
    BY DEF IInv, TypeOK
  <2>3. QED
    BY <2>1, <2>2 DEF TypeOK, CallsKept
<1>5. RegisteredIsLive'
  BY <1>2, NoneIsNoInstance DEF IInv, TypeOK, RegisteredIsLive
<1>6. ListedHasEntry'
  BY <1>2 DEF IInv, TypeOK, ListedHasEntry
<1>7. \A j \in Instances :
        CountIsExact(obs'[j]) /\ RemovalIsDue(obs'[j]) /\ OnlyLiveServes(obs'[j])
        /\ EntriesAreCurrent(obs'[j])
  BY <1>3 DEF Sound
<1>8. InstancesSound' /\ InstancesCurrent'
  BY <1>7 DEF InstancesSound, InstancesCurrent
<1>9. QED
  BY <1>4, <1>5, <1>6, <1>8 DEF IInv, CallsKept

\* subscribe() on a live instance that has no entry for the client.
LEMMA EnterStep ==
    ASSUME IInv, NEW i \in Instances, NEW o \in Observable,
           NEW c \in Clients, NEW k \in VersionOrNone,
           NEW get \in {"sub", "get", "both"},
           CountIsExact(o), EntriesAreCurrent(o), o.status = "live",
           c \notin Subscribers(o),
           Subscribers(obs[i]) \subseteq Subscribers(o),
           Enter(i, o, c, k, get),
           registered' \in {registered, i}, UNCHANGED closed, CallsKept
    PROVE  IInv'
<1> DEFINE n == Subscribe(o, c, k, get)
<1>1. /\ Sound(n) /\ n.status = "live"
      /\ Subscribers(n) = IF Answered(o, k, get) THEN Subscribers(o)
                                                 ELSE Subscribers(o) \cup {c}
  BY SubscribeSound
<1>2. obs' = [obs EXCEPT ![i] = n]
  BY DEF Enter
<1>3. subscription' \in [Clients -> Instances \cup {None}]
  BY DEF Enter, IInv, TypeOK
<1>4. \A d \in Clients : subscription[d] = i => d \in Subscribers(o)
  BY NoneIsNoInstance DEF IInv, ListedHasEntry
<1>5. ASSUME NEW d \in Clients
      PROVE  \/ subscription'[d] = i /\ d \in Subscribers(n)
             \/ subscription'[d] = subscription[d] /\ subscription[d] # i
             \/ subscription'[d] = None
  BY <1>1, <1>4 DEF Enter, IInv, TypeOK
<1>6. sent' \in [Receivers -> Downstream]
  BY ReplyIsMessage, SendToType DEF Enter
<1>7. closed' \subseteq Clients
  BY DEF IInv, TypeOK
<1> HIDE DEF n
<1>8. QED
  BY <1>1, <1>2, <1>3, <1>5, <1>6, <1>7, OneInstanceChanges

LEMMA ReflagStep ==
    ASSUME IInv, NEW i \in Instances, NEW c \in Clients,
           NEW get \in {"sub", "both"}, c \in Subscribers(obs[i]),
           Reflag(i, c, get), UNCHANGED <<registered, closed>>, CallsKept
    PROVE  IInv'
<1> DEFINE n == [obs[i] EXCEPT !.clients[c].get = get]
<1>1. /\ Sound(obs[i]) /\ Sound(n) /\ n.status = obs[i].status
      /\ Subscribers(n) = Subscribers(obs[i])
  BY AllSound, ReflagSound
<1>2. obs' = [obs EXCEPT ![i] = n]
  BY DEF Reflag
<1>3. registered' = i => n.status = "live"
  BY <1>1, NoneIsNoInstance DEF IInv, RegisteredIsLive
<1>4. \A d \in Clients : \/ subscription'[d] = None
                         \/ subscription'[d] = i /\ d \in Subscribers(n)
                         \/ subscription'[d] = subscription[d]
                            /\ subscription[d] # i
  BY <1>1, NoneIsNoInstance DEF Reflag, IInv, ListedHasEntry
<1>5. /\ subscription' \in [Clients -> Instances \cup {None}]
      /\ closed' \subseteq Clients
      /\ sent' \in [Receivers -> Downstream]
  BY SendNothingType DEF Reflag, IInv, TypeOK
<1> HIDE DEF n
<1>6. QED
  BY <1>1, <1>2, <1>3, <1>4, <1>5, OneInstanceChanges

\* Steps that only await, finish or send.
LEMMA NoInstanceChanges ==
    ASSUME IInv, UNCHANGED <<obs, registered, subscription>>,
           closed' \subseteq Clients, CallsKept,
           sent' \in [Receivers -> Downstream]
    PROVE  IInv'
BY DEF IInv, TypeOK, InstancesSound, InstancesCurrent, RegisteredIsLive,
       ListedHasEntry, CallsKept

\* Steps in which nobody new is listed and the registry stays.
LEMMA QuietChange ==
    ASSUME IInv, NEW i \in Instances, NEW n, Sound(n),
           n.status = obs[i].status, obs' = [obs EXCEPT ![i] = n],
           \A c \in Clients : \/ subscription'[c] = None
                             \/ /\ subscription'[c] = subscription[c]
                                /\ c \in Subscribers(obs[i]) =>
                                        c \in Subscribers(n),
           subscription' \in [Clients -> Instances \cup {None}],
           UNCHANGED registered, closed' \subseteq Clients, CallsKept,
           sent' \in [Receivers -> Downstream]
    PROVE  IInv'
<1>1. registered' = i => n.status = "live"
  BY NoneIsNoInstance DEF IInv, RegisteredIsLive
<1>2. \A c \in Clients :
        subscription[c] = i => c \in Subscribers(obs[i])
  BY NoneIsNoInstance DEF IInv, ListedHasEntry
<1>3. \A c \in Clients : \/ subscription'[c] = None
                         \/ subscription'[c] = i /\ c \in Subscribers(n)
                         \/ subscription'[c] = subscription[c]
                            /\ subscription[c] # i
  BY <1>2
<1>4. QED
  BY <1>1, <1>3, OneInstanceChanges

LEMMA HandleSubscribeStep ==
    ASSUME IInv, NEW c \in Clients, NEW k \in VersionOrNone,
           NEW get \in {"sub", "both"}, HandleSubscribe(c, k, get)
    PROVE  IInv'
<1>1. CASE registered = None
  <2>1. CallsKept
    BY <1>1, AwaitClientCall DEF HandleSubscribe
  <2>2. QED
    BY <1>1, <2>1, NoInstanceChanges, SendNothingType
    DEF HandleSubscribe, IInv, TypeOK
<1>2. CASE registered # None
  <2>1. /\ registered \in Instances /\ Sound(obs[registered])
        /\ obs[registered].status = "live" /\ CallsKept
    BY <1>2, AllSound, UnchangedCalls
    DEF HandleSubscribe, IInv, TypeOK, RegisteredIsLive
  <2>2. CASE obs[registered].clients[c].get = "none"
    <3>1. Enter(registered, obs[registered], c, k, get)
      BY <1>2, <2>2 DEF HandleSubscribe
    <3>2. c \notin Subscribers(obs[registered])
      BY <2>2 DEF Subscribers
    <3>3. QED
      BY <2>1, <3>1, <3>2, EnterStep DEF HandleSubscribe, Sound
  <2>3. CASE obs[registered].clients[c].get # "none"
    <3> DEFINE old == obs[registered].clients[c].get
               new == IF old = "get" \/ get = "both" THEN "both" ELSE old
    <3>1. Reflag(registered, c, new)
      BY <1>2, <2>3 DEF HandleSubscribe
    <3>2. old \in Flags
      BY <2>1 DEF Sound, Observable, Entry
    <3>3. new \in {"sub", "both"}
      BY <2>3, <3>2 DEF Flags
    <3>4. c \in Subscribers(obs[registered])
      BY <2>3 DEF Subscribers
    <3> HIDE DEF new
    <3>5. QED
      BY <2>1, <3>1, <3>3, <3>4, ReflagStep DEF HandleSubscribe
  <2>4. QED
    BY <2>2, <2>3
<1>3. QED
  BY <1>1, <1>2

LEMMA HandleGetStep ==
    ASSUME IInv, NEW c \in Clients, NEW k \in VersionOrNone, HandleGet(c, k)
    PROVE  IInv'
<1>1. CallsKept
  BY AwaitClientCall DEF HandleGet
<1>2. QED
  BY <1>1, NoInstanceChanges, SendNothingType DEF HandleGet, IInv, TypeOK

LEMMA ObserveStep ==
    ASSUME IInv, NEW l \in Listeners, Observe(l)
    PROVE  IInv'
<1>1. CallsKept
  BY AwaitListenerCall DEF Observe, IInv, TypeOK
<1>2. QED
  BY <1>1, NoInstanceChanges, SendNothingType DEF Observe, IInv, TypeOK

LEMMA NotFoundStep ==
    ASSUME IInv, NEW s \in Calls, NotFound(s)
    PROVE  IInv'
<1> DEFINE call == calls[s]
<1>0. CallsKept /\ closed' \subseteq Clients
  BY FinishCalls DEF NotFound, IInv, TypeOK
<1>1. CASE call.old = None
  <2>1. SendTo(call.who, Error) /\ UNCHANGED <<obs, registered, subscription>>
    BY <1>1 DEF NotFound
  <2>2. QED
    BY <1>0, <2>1, NoInstanceChanges, SendToType, MessagesAreMessages
<1>2. CASE call.old # None
  <2> DEFINE n == AddListener(obs[call.old], call.who)
             msg == IF obs[call.old].checksum = None THEN NoMsg
                    ELSE Full(obs[call.old].checksum)
  <2>1. call \in CallRecords /\ call # Idle
    BY DEF NotFound, IInv, TypeOK
  <2>2. call.old \in Instances /\ call.who \in Listeners
    BY <1>2, <2>1 DEF CallRecords, IInv, CallsWellFormed
  <2>3. Sound(obs[call.old])
    BY <2>2, AllSound
  <2>4. /\ Sound(n) /\ Subscribers(n) = Subscribers(obs[call.old])
        /\ n.status = obs[call.old].status
    BY <2>2, <2>3, AddListenerSound DEF Sound
  <2>5. obs' = [obs EXCEPT ![call.old] = n] /\ SendTo(call.who, msg)
    BY <1>2 DEF NotFound
  <2>6. sent' \in [Receivers -> Downstream]
    <3>1. msg \in Downstream
      BY <2>3, MessagesAreMessages DEF Sound, Observable, VersionOrNone
    <3>2. QED
      BY <2>5, <3>1, SendToType
  <2>7. subscription' = subscription /\ registered' = registered
    BY DEF NotFound
  <2>8. subscription' \in [Clients -> Instances \cup {None}]
    BY <2>7 DEF IInv, TypeOK
  <2> HIDE DEF n, msg
  <2>9. QED
    BY <1>0, <2>2, <2>4, <2>5, <2>6, <2>7, <2>8, QuietChange
<1>3. QED
  BY <1>1, <1>2

LEMMA CreateForStep ==
    ASSUME IInv, NEW s \in Calls, CreateFor(s)
    PROVE  IInv'
<1> DEFINE call == calls[s]
<1>0. CallsKept /\ closed' \subseteq Clients
  BY FinishCalls DEF CreateFor, IInv, TypeOK
<1>1. call \in CallRecords /\ call # Idle
  BY DEF CreateFor, IInv, TypeOK
<1>2. PICK i \in Instances, p \in FirstPublications :
        LET o == New(call.who, p[1], p[2]) IN
        /\ obs[i].status = "unused"
        /\ registered' = i
        /\ IF call.op = "observe"
           THEN /\ obs' = [obs EXCEPT ![i] = AddListener(o, call.who)]
                /\ SendTo(call.who, IF p[1] = None THEN NoMsg ELSE Full(p[1]))
                /\ UNCHANGED subscription
           ELSE Enter(i, o, call.who, call.checksum, call.get)
  BY DEF CreateFor
<1> DEFINE o == New(call.who, p[1], p[2])
           msg == IF p[1] = None THEN NoMsg ELSE Full(p[1])
<1>3. call.who \in Receivers
  BY <1>1 DEF IInv, CallsWellFormed, Receivers
<1>4. /\ o \in Observable /\ CountIsExact(o) /\ Subscribers(o) = {}
      /\ o.status = "live" /\ o.listeners = {} /\ o.checksum = p[1]
  BY <1>3, NewIsWellFormed
<1>5. EntriesAreCurrent(o) /\ OnlyLiveServes(o)
  BY <1>4 DEF EntriesAreCurrent, OnlyLiveServes
<1>6. Subscribers(obs[i]) = {}
  BY <1>2, AllSound DEF Sound, OnlyLiveServes
<1>7. CASE call.op = "observe"
  <2> DEFINE n == AddListener(o, call.who)
  <2>1. call.who \in Listeners
    BY <1>1, <1>7 DEF IInv, CallsWellFormed
  <2>2. Sound(n) /\ n.status = "live"
    BY <1>4, <1>5, <2>1, AddListenerSound
  <2>3. /\ obs' = [obs EXCEPT ![i] = n] /\ SendTo(call.who, msg)
        /\ UNCHANGED subscription /\ registered' = i
    BY <1>2, <1>7
  <2>4. sent' \in [Receivers -> Downstream]
    <3>1. msg \in Downstream
      BY MessagesAreMessages DEF FirstPublications, VersionOrNone
    <3>2. QED
      BY <2>3, <3>1, SendToType
  <2>5. /\ subscription' \in [Clients -> Instances \cup {None}]
        /\ \A c \in Clients : subscription[c] # i
    BY <1>6, <2>3, NoneIsNoInstance DEF IInv, TypeOK, ListedHasEntry
  <2> HIDE DEF n, msg
  <2>6. QED
    BY <1>0, <2>2, <2>3, <2>4, <2>5, OneInstanceChanges
<1>8. CASE call.op # "observe"
  <2>1. /\ call.who \in Clients /\ call.get \in {"sub", "get", "both"}
        /\ call.checksum \in VersionOrNone
    BY <1>1, <1>8 DEF IInv, CallsWellFormed, CallRecords
  <2>2. Enter(i, o, call.who, call.checksum, call.get) /\ registered' = i
    BY <1>2, <1>8
  <2>3. UNCHANGED closed
    BY DEF CreateFor
  <2> HIDE DEF o
  <2>4. QED
    BY <1>0, <1>4, <1>5, <1>6, <2>1, <2>2, <2>3, EnterStep
<1>9. QED
  BY <1>7, <1>8

LEMMA JoinForGetStep ==
    ASSUME IInv, NEW s \in Calls, JoinForGet(s)
    PROVE  IInv'
<1> DEFINE call == calls[s]
<1>1. CallsKept /\ UNCHANGED <<registered, closed>>
  BY FinishCalls DEF JoinForGet
<1>2. /\ call.op = "get" /\ registered # None
      /\ IF obs[registered].clients[call.who].get = "none"
         THEN Enter(registered, obs[registered], call.who, call.checksum, "get")
         ELSE Reflag(registered, call.who, "both")
  BY DEF JoinForGet
<1>3. call.who \in Clients /\ call.checksum \in VersionOrNone
  <2>1. call \in CallRecords /\ call # Idle
    BY <1>2 DEF IInv, TypeOK, Idle, Call
  <2>2. QED
    BY <1>2, <2>1 DEF IInv, CallsWellFormed, CallRecords
<1>4. /\ registered \in Instances /\ Sound(obs[registered])
      /\ obs[registered].status = "live"
  BY <1>2, AllSound DEF IInv, TypeOK, RegisteredIsLive
<1>5. CASE obs[registered].clients[call.who].get = "none"
  <2>1. Enter(registered, obs[registered], call.who, call.checksum, "get")
    BY <1>2, <1>5
  <2>2. call.who \notin Subscribers(obs[registered])
    BY <1>5 DEF Subscribers
  <2>3. QED
    BY <1>1, <1>3, <1>4, <2>1, <2>2, EnterStep DEF Sound
<1>6. CASE obs[registered].clients[call.who].get # "none"
  <2>1. Reflag(registered, call.who, "both")
    BY <1>2, <1>6
  <2>2. call.who \in Subscribers(obs[registered])
    BY <1>3, <1>6 DEF Subscribers
  <2>3. QED
    BY <1>1, <1>3, <1>4, <2>1, <2>2, ReflagStep
<1>7. QED
  BY <1>5, <1>6

\* unsubscribe() through client.subscriptions, alone or as part of destroy().
LEMMA DropStep ==
    ASSUME IInv, NEW c \in Clients, subscription[c] # None,
           obs' = [obs EXCEPT ![subscription[c]] = Unsubscribe(@, c)],
           subscription' = [subscription EXCEPT ![c] = None],
           UNCHANGED registered, closed' \subseteq Clients, CallsKept,
           sent' \in [Receivers -> Downstream]
    PROVE  IInv'
<1> DEFINE i == subscription[c]
           n == Unsubscribe(obs[i], c)
<1>1. i \in Instances
  BY DEF IInv, TypeOK
<1>2. /\ Sound(n) /\ Subscribers(n) = Subscribers(obs[i]) \ {c}
      /\ n.status = obs[i].status
  BY <1>1, AllSound, UnsubscribeSound
<1>3. subscription' \in [Clients -> Instances \cup {None}]
  BY DEF IInv, TypeOK
<1>4. \A d \in Clients : \/ subscription'[d] = None
                         \/ /\ subscription'[d] = subscription[d]
                            /\ d \in Subscribers(obs[i]) => d \in Subscribers(n)
  BY <1>2 DEF IInv, TypeOK
<1>5. obs' = [obs EXCEPT ![i] = n]
  OBVIOUS
<1> HIDE DEF i, n
<1>6. QED
  BY <1>1, <1>2, <1>3, <1>4, <1>5, QuietChange

LEMMA HandleUnsubscribeStep ==
    ASSUME IInv, NEW c \in Clients, HandleUnsubscribe(c)
    PROVE  IInv'
BY UnchangedCalls, SendNothingType, DropStep
DEF HandleUnsubscribe, IInv, TypeOK

LEMMA CloseStep ==
    ASSUME IInv, NEW c \in Clients, Close(c)
    PROVE  IInv'
<1>1. /\ CallsKept /\ closed' \subseteq Clients /\ UNCHANGED registered
      /\ sent' \in [Receivers -> Downstream]
  BY UnchangedCalls, SendNothingType DEF Close, IInv, TypeOK
<1>2. CASE subscription[c] = None
  <2>1. subscription' = subscription
    BY <1>2 DEF Close, IInv, TypeOK
  <2>2. obs' = obs
    BY <1>2 DEF Close
  <2>3. QED
    BY <1>1, <2>1, <2>2, NoInstanceChanges
<1>3. CASE subscription[c] # None
  BY <1>1, <1>3, DropStep DEF Close
<1>4. QED
  BY <1>2, <1>3

LEMMA HandleSendDataStep ==
    ASSUME IInv, NEW c \in Clients, HandleSendData(c)
    PROVE  IInv'
<1> DEFINE i == subscription[c]
           n == [obs[i] EXCEPT !.clients[c].checksum = obs[i].checksum]
<1>1. i \in Instances /\ Sound(obs[i])
  BY AllSound DEF HandleSendData, IInv, TypeOK
<1>2. /\ c \in Subscribers(obs[i])
      /\ obs[i].checksum \in Versions
  BY <1>1 DEF HandleSendData, Subscribers, Sound, Observable, VersionOrNone
<1>3. n = obs[i]
  <2> DEFINE e == obs[i].clients[c]
  <2>1. obs[i] \in Observable /\ e \in Entry /\ c \in Clients
    BY <1>1 DEF Sound, Observable
  <2>2. obs[i].checksum = e.checksum
    BY <1>1, <1>2, NoneIsNoVersion DEF Sound, EntriesAreCurrent
  <2>3. [e EXCEPT !.checksum = obs[i].checksum] = e
    BY <2>1, <2>2 DEF Entry
  <2>4. [obs[i].clients EXCEPT ![c] = e] = obs[i].clients
    BY <2>1 DEF Observable
  <2>5. n = [obs[i] EXCEPT !.clients = [@ EXCEPT ![c] = e]]
    BY <2>3
  <2>6. QED
    BY <2>1, <2>4, <2>5 DEF Observable
<1>4. obs' = [obs EXCEPT ![i] = n]
  BY DEF HandleSendData
<1>5. obs' = obs
  BY <1>1, <1>3, <1>4 DEF IInv, TypeOK
<1>6. sent' \in [Receivers -> Downstream]
  BY <1>2, SendToType, MessagesAreMessages DEF HandleSendData
<1>7. QED
  BY <1>5, <1>6, UnchangedCalls, NoInstanceChanges
  DEF HandleSendData, IInv, TypeOK

LEMMA CloseListenerStep ==
    ASSUME IInv, NEW i \in Instances, NEW l \in Listeners, CloseListener(i, l)
    PROVE  IInv'
<1> DEFINE n == RemoveListener(obs[i], l)
<1>1. /\ Sound(n) /\ Subscribers(n) = Subscribers(obs[i])
      /\ n.status = obs[i].status
  BY AllSound, RemoveListenerSound DEF CloseListener
<1>2. obs' = [obs EXCEPT ![i] = n]
  BY DEF CloseListener
<1> HIDE DEF n
<1>3. QED
  BY <1>1, <1>2, UnchangedCalls, SendNothingType, QuietChange
  DEF CloseListener, IInv, TypeOK

LEMMA UpdateStep ==
    ASSUME IInv, NEW i \in Instances, NEW v \in Versions,
           NEW patched \in BOOLEAN, Update(i, v, patched)
    PROVE  IInv'
<1> DEFINE n == Publish(obs[i], v, patched)
<1>1. Sound(obs[i])
  BY AllSound
<1>2. /\ Sound(n) /\ n.status = obs[i].status
      /\ Subscribers(n) = Subscribers(obs[i]) \ Leaving(obs[i], v)
  BY <1>1, PublishSound
<1>3. obs' = [obs EXCEPT ![i] = n]
  BY DEF Update
<1>4. sent' \in [Receivers -> Downstream]
  <2>1. \A r \in Served(obs[i], v) :
            PublishMsg(obs[i], r, v, patched) \in Downstream
    BY <1>1, MessagesAreMessages DEF Sound, Served, Subscribers
  <2>2. QED
    BY <2>1, MessagesAreMessages DEF Update
<1>5. /\ subscription' \in [Clients -> Instances \cup {None}]
      /\ \A c \in Clients : \/ subscription'[c] = None
                            \/ /\ subscription'[c] = subscription[c]
                               /\ c \in Subscribers(obs[i]) => c \in Subscribers(n)
  BY <1>2 DEF Update, IInv, TypeOK
<1>6. CallsKept /\ closed' \subseteq Clients /\ UNCHANGED registered
  BY UnchangedCalls DEF Update, IInv, TypeOK
<1> HIDE DEF n
<1>7. QED
  BY <1>2, <1>3, <1>4, <1>5, <1>6, QuietChange

\* The function's promise settles: only `starter` is forgotten.
LEMMA SettleStep ==
    ASSUME IInv, NEW i \in Instances, obs' = [obs EXCEPT ![i].starter = None],
           UNCHANGED <<registered, subscription, closed, calls>>,
           sent' \in [Receivers -> Downstream]
    PROVE  IInv'
<1> DEFINE n == [obs[i] EXCEPT !.starter = None]
<1>1. Sound(obs[i]) /\ obs[i] \in Observable
  BY AllSound DEF Sound
<1>2. n \in Observable
  BY <1>1 DEF Observable
<1>3. /\ n.status = obs[i].status /\ n.clients = obs[i].clients
      /\ n.checksum = obs[i].checksum /\ n.clientsCnt = obs[i].clientsCnt
      /\ n.listeners = obs[i].listeners /\ n.removeTimer = obs[i].removeTimer
  BY <1>1 DEF Observable
<1>4. Subscribers(n) = Subscribers(obs[i])
  BY <1>3 DEF Subscribers
<1>5. Sound(n)
  BY <1>1, <1>2, <1>3, <1>4
  DEF Sound, CountIsExact, RemovalIsDue, OnlyLiveServes, EntriesAreCurrent
<1>6. obs' = [obs EXCEPT ![i] = n]
  OBVIOUS
<1> HIDE DEF n
<1>7. QED
  BY <1>3, <1>4, <1>5, <1>6, UnchangedCalls, QuietChange DEF IInv, TypeOK

LEMMA FunctionSettlesStep ==
    ASSUME IInv, NEW i \in Instances, FunctionStarted(i) \/ FunctionFailed(i)
    PROVE  IInv'
BY SettleStep, SendToType, SendNothingType, MessagesAreMessages
DEF FunctionStarted, FunctionFailed

LEMMA RemoveTimeoutStep ==
    ASSUME IInv, NEW i \in Instances, RemoveTimeout(i)
    PROVE  IInv'
<1> DEFINE n == [obs[i] EXCEPT !.removeTimer = FALSE, !.status = "closed"]
<1>1. Sound(obs[i]) /\ obs[i] \in Observable /\ obs[i].removeTimer
  BY AllSound DEF RemoveTimeout, Sound
<1>2. n \in Observable
  BY <1>1 DEF Observable
<1>3. /\ n.status = "closed" /\ n.clients = obs[i].clients
      /\ n.checksum = obs[i].checksum /\ n.clientsCnt = obs[i].clientsCnt
      /\ n.listeners = obs[i].listeners /\ ~n.removeTimer
  BY <1>1 DEF Observable
<1>4. Subscribers(n) = {} /\ Subscribers(obs[i]) = {}
  BY <1>1, <1>3 DEF Sound, RemovalIsDue, Subscribers
<1>5. Sound(n)
  BY <1>1, <1>2, <1>3, <1>4
  DEF Sound, CountIsExact, RemovalIsDue, OnlyLiveServes, EntriesAreCurrent
<1>6. obs' = [obs EXCEPT ![i] = n] /\ registered' = None
  BY DEF RemoveTimeout
<1>7. \A c \in Clients : subscription[c] # i
  BY <1>4, NoneIsNoInstance DEF IInv, ListedHasEntry
<1>8. registered' # i
  BY <1>6, NoneIsNoInstance
<1> HIDE DEF n
<1>9. QED
  BY <1>5, <1>6, <1>7, <1>8, UnchangedCalls, SendNothingType,
     OneInstanceChanges
  DEF RemoveTimeout, IInv, TypeOK

LEMMA NextIInv == IInv /\ [Next]_vars => IInv'
<1> SUFFICES ASSUME IInv, [Next]_vars PROVE IInv'
  OBVIOUS
<1>1. CASE \E c \in Clients, k \in VersionOrNone :
              \/ \E get \in {"sub", "both"} : HandleSubscribe(c, k, get)
              \/ HandleGet(c, k)
  BY <1>1, HandleSubscribeStep, HandleGetStep
<1>2. CASE \E c \in Clients :
              HandleUnsubscribe(c) \/ HandleSendData(c) \/ Close(c)
  BY <1>2, HandleUnsubscribeStep, HandleSendDataStep, CloseStep
<1>3. CASE \E l \in Listeners : Observe(l)
  BY <1>3, ObserveStep
<1>4. CASE \E s \in Calls : NotFound(s) \/ CreateFor(s) \/ JoinForGet(s)
  BY <1>4, NotFoundStep, CreateForStep, JoinForGetStep
<1>5. CASE \E i \in Instances :
              \/ \E v \in Versions, patched \in BOOLEAN : Update(i, v, patched)
              \/ \E l \in Listeners : CloseListener(i, l)
              \/ FunctionStarted(i) \/ FunctionFailed(i) \/ RemoveTimeout(i)
  BY <1>5, UpdateStep, CloseListenerStep, FunctionSettlesStep,
     RemoveTimeoutStep
<1>6. CASE UNCHANGED vars
  BY <1>6 DEF vars, IInv, TypeOK, InstancesSound, InstancesCurrent,
              RegisteredIsLive, ListedHasEntry, CallsWellFormed
<1>7. QED
  BY <1>1, <1>2, <1>3, <1>4, <1>5, <1>6 DEF Next

\* The strengthened invariant holds in every reachable state; the theorems
\* below take from it what the runs check.
THEOREM Invariance == Spec => []IInv
BY InitIInv, NextIInv, PTL DEF Spec
-----------------------------------------------------------------------------
\* The model is well typed, whatever the constants are.
THEOREM TypeCorrect == Spec => []TypeOK
BY Invariance, PTL DEF IInv

\* The counter is exact, an instance is removed only when nobody uses it and
\* an unused one has its removal timer: for every number of connections.
THEOREM InstancesAreSound == Spec => []InstancesSound
BY Invariance, PTL DEF IInv

\* Everybody subscribed to an instance that has published holds its version,
\* and no get still waits there.
THEOREM InstancesAreCurrent == Spec => []InstancesCurrent
BY Invariance, PTL DEF IInv

\* The registry names only instances that still serve.
THEOREM RegistryIsLive == Spec => []RegisteredIsLive
BY Invariance, PTL DEF IInv

\* What a client lists has an entry for it: destroy() misses nothing it lists.
THEOREM ListsAreEntries == Spec => []ListedHasEntry
BY Invariance, PTL DEF IInv

=============================================================================
