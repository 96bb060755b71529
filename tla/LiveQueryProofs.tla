--------------------------- MODULE LiveQueryProofs ---------------------------
(***************************************************************************)
(* Proofs about LiveQuery, for any callers, slots, versions, instances,    *)
(* lookups, connections and bounds, whether or not the program reopens.    *)
(*                                                                         *)
(* The two components are modelled in an environment of their own: a       *)
(* server that may answer anything there is, clients that may ask for      *)
(* anything.  Here each is the environment of the other.  What is on the   *)
(* wire (WireOK) is what each of them is ready for, so that every step of  *)
(* the composition is a step of each component, and what is proved of the  *)
(* components holds in it.                                                 *)
(*                                                                         *)
(* For one caller that does not come back (Steady), the answers are        *)
(* followed from the server's entry to the cache: SInv, and what is said   *)
(* of an observer when nothing is on its way.                              *)
(*                                                                         *)
(* For any callers that come and go, at a server that does not authorize,  *)
(* and as long as lookups of the function do not overlap (Alone), the      *)
(* requests are followed to the server: OInv, and that whoever observes is *)
(* served.                                                                 *)
(***************************************************************************)
EXTENDS LiveQuery, FiniteSetTheorems, SequenceTheorems, TLAPS

CP == INSTANCE ClientSubscriptionsProofs
SP == INSTANCE SharedObservableProofs WITH Listeners <- {}

(***************************************************************************)
(* Client and Server of LiveQuery are the modules the proofs are about:    *)
(* written out, the definitions are the same.                              *)
(***************************************************************************)
LEMMA SameClient ==
    /\ CP!Init <=> Client!Init
    /\ CP!Next <=> Client!Next
    /\ CP!vars = Client!vars
    /\ CP!TypeOK <=> Client!TypeOK
    /\ CP!CountCoversSubscribers <=> Client!CountCoversSubscribers
    /\ CP!ObserversAgree <=> Client!ObserversAgree
    /\ CP!HandlesMatch <=> Client!HandlesMatch
    /\ CP!QueueMatchesEntry <=> Client!QueueMatchesEntry
    /\ CP!ServerIsAsked <=> Client!ServerIsAsked
BY Zenon
DEF
     CP!vars, Client!vars, CP!Slots, Client!Slots, CP!Subscriber,
     Client!Subscriber, CP!Vacant, Client!Vacant, CP!Occupied,
     Client!Occupied, CP!Pending, Client!Pending, CP!OnlyGets,
     Client!OnlyGets, CP!NoCache, Client!NoCache, CP!Cached, Client!Cached,
     CP!Without, Client!Without, CP!Positions, Client!Positions, CP!Queued,
     Client!Queued, CP!Push, Client!Push, CP!KeepQueue, Client!KeepQueue,
     CP!PushUnsubscribe, Client!PushUnsubscribe, CP!Release, Client!Release,
     CP!Init, Client!Init, CP!Join, Client!Join, CP!Observe, Client!Observe,
     CP!GetFromCache, Client!GetFromCache, CP!GetWaiting, Client!GetWaiting,
     CP!Close, Client!Close, CP!Settle, Client!Settle, CP!Getters,
     Client!Getters, CP!Give, Client!Give, CP!Reject, Client!Reject,
     CP!Confirm, Client!Confirm, CP!Deliver, Client!Deliver, CP!Refetch,
     Client!Refetch, CP!IncomingSubscription, Client!IncomingSubscription,
     CP!IncomingSubscriptionDiff, Client!IncomingSubscriptionDiff,
     CP!Receive, Client!Receive, CP!AskedAfter, Client!AskedAfter, CP!Drain,
     Client!Drain, CP!Refresh, Client!Refresh, CP!SendAllSubscriptions,
     Client!SendAllSubscriptions, CP!Connect, Client!Connect, CP!Disconnect,
     Client!Disconnect, CP!Incoming, Client!Incoming, CP!Next, Client!Next,
     CP!EntryTypeOK, Client!EntryTypeOK, CP!TypeOK, Client!TypeOK,
     CP!CountCoversSubscribers, Client!CountCoversSubscribers,
     CP!ObserversAgree, Client!ObserversAgree, CP!HandlesMatch,
     Client!HandlesMatch, CP!QueueMatchesEntry, Client!QueueMatchesEntry,
     CP!ServerIsAsked, Client!ServerIsAsked, CP!VersionOrNone,
     Client!VersionOrNone, CP!Message, Client!Message, CP!NoMsg,
     Client!NoMsg, CP!Full, Client!Full, CP!Same, Client!Same, CP!Diff,
     Client!Diff, CP!Error, Client!Error, CP!Downstream, Client!Downstream,
     CP!Request, Client!Request, CP!SubscribeMsg, Client!SubscribeMsg,
     CP!GetMsg, Client!GetMsg, CP!UnsubscribeMsg, Client!UnsubscribeMsg,
     CP!SendDataMsg, Client!SendDataMsg, CP!Upstream, Client!Upstream,
     CP!Cardinality, Client!Cardinality

LEMMA SameServer ==
    /\ SP!Init <=> Server!Init
    /\ SP!Next <=> Server!Next
    /\ SP!vars = Server!vars
    /\ SP!TypeOK <=> Server!TypeOK
    /\ SP!InstancesSound <=> Server!InstancesSound
    /\ SP!InstancesCurrent <=> Server!InstancesCurrent
    /\ SP!RegisteredIsLive <=> Server!RegisteredIsLive
    /\ SP!ListedHasEntry <=> Server!ListedHasEntry
BY Zenon
DEF
     SP!vars, Server!vars, SP!Receivers, Server!Receivers, SP!Flags,
     Server!Flags, SP!Entry, Server!Entry, SP!NoEntry, Server!NoEntry,
     SP!Observable, Server!Observable, SP!Unused, Server!Unused,
     SP!Subscribers, Server!Subscribers, SP!Empty, Server!Empty, SP!New,
     Server!New, SP!FirstPublications, Server!FirstPublications,
     SP!DestroyIfEmpty, Server!DestroyIfEmpty, SP!Unsubscribe,
     Server!Unsubscribe, SP!Reply, Server!Reply, SP!Answered,
     Server!Answered, SP!Subscribe, Server!Subscribe, SP!AddListener,
     Server!AddListener, SP!RemoveListener, Server!RemoveListener, SP!Served,
     Server!Served, SP!Leaving, Server!Leaving, SP!Publish, Server!Publish,
     SP!PublishMsg, Server!PublishMsg, SP!Call, Server!Call, SP!Idle,
     Server!Idle, SP!CallRecords, Server!CallRecords, SP!Await, Server!Await,
     SP!Finish, Server!Finish, SP!SendTo, Server!SendTo, SP!SendNothing,
     Server!SendNothing, SP!Enter, Server!Enter, SP!Reflag, Server!Reflag,
     SP!Init, Server!Init, SP!MayHandle, Server!MayHandle, SP!HandleSubscribe, Server!HandleSubscribe,
     SP!HandleGet, Server!HandleGet, SP!Observe, Server!Observe, SP!NotFound,
     Server!NotFound, SP!CreateFor, Server!CreateFor, SP!JoinForGet,
     Server!JoinForGet, SP!HandleUnsubscribe, Server!HandleUnsubscribe,
     SP!HandleSendData, Server!HandleSendData, SP!Close, Server!Close,
     SP!CloseListener, Server!CloseListener, SP!Update, Server!Update,
     SP!FunctionStarted, Server!FunctionStarted, SP!FunctionFailed,
     Server!FunctionFailed, SP!RemoveTimeout, Server!RemoveTimeout, SP!Next,
     Server!Next, SP!TypeOK, Server!TypeOK, SP!CountIsExact,
     Server!CountIsExact, SP!RemovalIsDue, Server!RemovalIsDue,
     SP!OnlyLiveServes, Server!OnlyLiveServes, SP!EntriesAreCurrent,
     Server!EntriesAreCurrent, SP!InstancesSound, Server!InstancesSound,
     SP!InstancesCurrent, Server!InstancesCurrent, SP!RegisteredIsLive,
     Server!RegisteredIsLive, SP!ListedHasEntry, Server!ListedHasEntry,
     SP!VersionOrNone, Server!VersionOrNone, SP!Message, Server!Message,
     SP!NoMsg, Server!NoMsg, SP!Full, Server!Full, SP!Same, Server!Same,
     SP!Diff, Server!Diff, SP!Error, Server!Error, SP!Downstream,
     Server!Downstream, SP!Request, Server!Request, SP!SubscribeMsg,
     Server!SubscribeMsg, SP!GetMsg, Server!GetMsg, SP!UnsubscribeMsg,
     Server!UnsubscribeMsg, SP!SendDataMsg, Server!SendDataMsg, SP!Upstream,
     Server!Upstream, SP!Cardinality, Server!Cardinality

\* What the modules assume of their constants.
LEMMA Assumed ==
    /\ SP!IsFiniteSet(Clients)
    /\ Clients \cap {} = {} /\ None \notin Clients \cup {}
    /\ None \notin Instances
    /\ MaxSlot \in Nat /\ None \notin Callers
<1>1. IsFiniteSet(Clients)
  BY BoundsAreNumbers, FS_Interval DEF Clients
<1>2. SP!IsFiniteSet(Clients)
  BY <1>1, Zenon DEF IsFiniteSet, SP!IsFiniteSet
<1>3. QED
  BY <1>2, BoundsAreNumbers, NoneIsNobody DEF Clients
-----------------------------------------------------------------------------
(***************************************************************************)
(* What is on the wire.                                                    *)
(***************************************************************************)
Answers == Client!Incoming

Frames == Seq(CP!Asking) \ {<<>>}

WireOK ==
    /\ connection \in 0..MaxConnections
    /\ connected => connection \in Clients
    /\ up \in [Clients -> Seq(Frames)]
    /\ down \in Seq(Answers)

LInv == WireOK /\ CP!IInv /\ CP!QInv /\ SP!IInv

LEMMA AnswersAre ==
    /\ \A v \in Versions : Server!Full(v) \in Answers /\ Server!Same(v) \in Answers
    /\ \A a, b \in Versions : a # b => Server!Diff(a, b) \in Answers
<1>1. \A v \in Versions : Server!Full(v) \in Answers /\ Server!Same(v) \in Answers
  BY DEF Answers, Client!Incoming, Server!Full, Server!Same, Server!Message,
     Client!Full, Client!Same, Client!Message
<1>2. ASSUME NEW a \in Versions, NEW b \in Versions, a # b
      PROVE  Server!Diff(a, b) \in Answers
  <2>1. <<a, b>> \in {x \in Versions \X Versions : x[1] # x[2]}
    BY <1>2
  <2>2. Server!Diff(a, b) = Client!Diff(<<a, b>>[1], <<a, b>>[2])
    BY DEF Server!Diff, Server!Message, Client!Diff, Client!Message
  <2>3. QED
    BY <2>1, <2>2 DEF Answers, Client!Incoming
<1>3. QED
  BY <1>1, <1>2

LEMMA ReplyIs ==
    ASSUME NEW o \in Server!Observable, NEW k \in Server!VersionOrNone, NEW get
    PROVE  Server!Reply(o, k, get) \in Answers \cup {Server!NoMsg}
<1>1. o.checksum \in Server!VersionOrNone
  BY DEF Server!Observable
<1>2. QED
  BY <1>1, AnswersAre DEF Server!Reply, Server!VersionOrNone

\* What a step of the server sends to a connection.
SentOK(c) == sent'[c] \in Answers \cup {Server!NoMsg}

LEMMA SendIs ==
    ASSUME NEW c \in Clients, NEW who, NEW msg \in Answers \cup {Server!NoMsg},
           Server!SendTo(who, msg)
    PROVE  SentOK(c)
BY DEF Server!SendTo, Server!Receivers, SentOK

LEMMA NothingIs ==
    ASSUME NEW c \in Clients, Server!SendNothing
    PROVE  SentOK(c)
BY DEF Server!SendNothing, Server!Receivers, SentOK

LEMMA EnterIs ==
    ASSUME NEW c \in Clients, NEW i, NEW o \in Server!Observable, NEW who,
           NEW k \in Server!VersionOrNone, NEW get, Server!Enter(i, o, who, k, get)
    PROVE  SentOK(c)
<1> DEFINE msg == Server!Reply(o, k, get)
<1>1. msg \in Answers \cup {Server!NoMsg} /\ Server!SendTo(who, msg)
  BY ReplyIs DEF Server!Enter
<1> HIDE DEF msg
<1>2. QED
  BY <1>1, SendIs

LEMMA HandleSubscribeSends ==
    ASSUME Server!TypeOK, NEW c \in Clients, NEW d \in Clients,
           NEW k \in Server!VersionOrNone, NEW get, Server!HandleSubscribe(d, k, get)
    PROVE  SentOK(c)
<1>1. CASE Server!SendNothing
  BY <1>1, NothingIs
<1>2. CASE registered # None /\ Server!Enter(registered, obs[registered], d, k, get)
  <2>1. obs[registered] \in Server!Observable
    BY <1>2 DEF Server!TypeOK
  <2>2. QED
    BY <1>2, <2>1, EnterIs
<1>3. QED
  BY <1>1, <1>2 DEF Server!HandleSubscribe, Server!Reflag

LEMMA HandleSendDataSends ==
    ASSUME Server!TypeOK, NEW c \in Clients, NEW d \in Clients, Server!HandleSendData(d)
    PROVE  SentOK(c)
<1> DEFINE v == obs[subscription[d]].checksum
<1>1. v \in Versions /\ Server!SendTo(d, Server!Full(v))
  <2>1. subscription[d] \in Instances
    BY DEF Server!HandleSendData, Server!TypeOK
  <2>2. obs[subscription[d]] \in Server!Observable
    BY <2>1 DEF Server!TypeOK
  <2>3. QED
    BY <2>2 DEF Server!HandleSendData, Server!Observable, Server!VersionOrNone
<1> HIDE DEF v
<1>2. Server!Full(v) \in Answers
  BY <1>1, AnswersAre
<1>3. QED
  BY <1>1, <1>2, SendIs

LEMMA CreateForSends ==
    ASSUME Server!TypeOK, NEW c \in Clients, NEW s \in Calls, Server!CreateFor(s)
    PROVE  SentOK(c)
<1> DEFINE who == calls[s].who
           k == calls[s].checksum
           get == calls[s].get
<1>1. calls[s] \in Server!CallRecords
  BY DEF Server!TypeOK
<1>2. k \in Server!VersionOrNone /\ who \in Clients \cup {None}
  BY <1>1 DEF Server!CallRecords, Server!Receivers
<1>3. PICK i \in Instances, p \in Server!FirstPublications :
        LET o == Server!New(who, p[1], p[2]) IN
        IF calls[s].op = "observe"
        THEN Server!SendTo(who, IF p[1] = None THEN Server!NoMsg ELSE Server!Full(p[1]))
        ELSE Server!Enter(i, o, who, k, get)
  BY DEF Server!CreateFor
<1> DEFINE o == Server!New(who, p[1], p[2])
           msg == IF p[1] = None THEN Server!NoMsg ELSE Server!Full(p[1])
<1>4. p[1] \in Server!VersionOrNone /\ p[2] \in Server!VersionOrNone
  BY DEF Server!FirstPublications
<1>5. o \in Server!Observable
  BY <1>2, <1>4
  DEF Server!New, Server!Unused, Server!Observable, Server!NoEntry, Server!Entry,
      Server!Flags, Server!VersionOrNone, Server!Receivers
<1>6. msg \in Answers \cup {Server!NoMsg}
  BY <1>4, AnswersAre DEF Server!VersionOrNone
<1>7. CASE Server!Enter(i, o, who, k, get)
  <2> HIDE DEF o, who, k, get
  <2>1. QED
    BY <1>2, <1>5, <1>7, EnterIs
<1>8. CASE Server!SendTo(who, msg)
  <2> HIDE DEF who, msg
  <2>1. QED
    BY <1>6, <1>8, SendIs
<1>9. QED
  BY <1>3, <1>7, <1>8

LEMMA JoinForGetSends ==
    ASSUME Server!TypeOK, NEW c \in Clients, NEW s \in Calls, Server!JoinForGet(s)
    PROVE  SentOK(c)
<1>1. calls[s].checksum \in Server!VersionOrNone
  BY DEF Server!TypeOK, Server!CallRecords
<1>2. obs[registered] \in Server!Observable
  BY DEF Server!JoinForGet, Server!TypeOK
<1>3. CASE Server!Enter(registered, obs[registered], calls[s].who, calls[s].checksum, "get")
  BY <1>1, <1>2, <1>3, EnterIs
<1>4. CASE Server!SendNothing
  BY <1>4, NothingIs
<1>5. QED
  BY <1>3, <1>4 DEF Server!JoinForGet, Server!Reflag

\* A diff is from the version of the instance to another.
LEMMA UpdateSends ==
    ASSUME Server!TypeOK, NEW c \in Clients, NEW i \in Instances, NEW v \in Versions,
           NEW patched \in BOOLEAN, Server!Update(i, v, patched)
    PROVE  SentOK(c)
<1> DEFINE k == obs[i].checksum
           msg == Server!PublishMsg(obs[i], c, v, patched)
<1>1. k \in Server!VersionOrNone /\ v # k /\ (patched => k # None)
  BY DEF Server!Update, Server!TypeOK, Server!Observable
<1>2. msg \in Answers
  BY <1>1, AnswersAre DEF Server!PublishMsg, Server!VersionOrNone
<1>3. sent'[c] \in {Server!Full(v), msg, Server!NoMsg}
  BY DEF Server!Update, Server!Receivers
<1>4. QED
  BY <1>2, <1>3, AnswersAre DEF SentOK
-----------------------------------------------------------------------------
(***************************************************************************)
(* Steps of the server are steps of SharedObservable.                      *)
(***************************************************************************)
ServerStep == Server!Next \/ Ignore

\* A connection without one of its frames, or with the first ones only.
LEMMA OthersAre ==
    ASSUME NEW S, NEW q \in Seq(S), NEW f \in DOMAIN q
    PROVE  /\ Others(q, f) \in Seq(S)
           /\ f = 1 => Others(q, f) = Tail(q)
<1>1. /\ Len(q) \in Nat /\ f \in 1..Len(q) /\ q # <<>>
      /\ \A j \in 1..Len(q) : q[j] \in S
  OBVIOUS
<1> DEFINE a == SubSeq(q, 1, f - 1)
           b == SubSeq(q, f + 1, Len(q))
<1>2. a \in Seq(S) /\ b \in Seq(S)
  <2>1. (\A j \in 1..(f - 1) : q[j] \in S) /\ (\A j \in (f + 1)..Len(q) : q[j] \in S)
    BY <1>1
  <2>2. QED
    BY <1>1, <2>1, SubSeqProperties
<1>3. f = 1 => a = <<>> /\ b = Tail(q)
  BY <1>1, SubSeqEmpty, TailIsSubSeq
<1> HIDE DEF a, b
<1>4. f = 1 => a \o b = Tail(q)
  BY <1>2, <1>3
<1>5. Others(q, f) = a \o b
  BY DEF Others, a, b
<1>6. QED
  BY <1>2, <1>4, <1>5

LEMMA FirstOnes ==
    ASSUME NEW S, NEW q \in Seq(S), NEW n \in 0..Len(q)
    PROVE  SubSeq(q, 1, n) \in Seq(S)
<1>1. \A j \in 1..n : q[j] \in S
  OBVIOUS
<1>2. QED
  BY <1>1, SubSeqProperties

\* What a step sends goes down the connection in use, and nothing else does.
LEMMA TransmitOK ==
    ASSUME WireOK, Transmit, \A c \in Clients : SentOK(c)
    PROVE  /\ down' \in Seq(Answers)
           /\ UNCHANGED <<connection, connected>>
           /\ UNCHANGED Client!vars
<1>1. UNCHANGED <<clientVars, connection>>
  BY DEF Transmit
<1>2. CASE connected /\ sent'[connection] # NoMsg
  <2>1. sent'[connection] \in Answers
    BY <1>2 DEF WireOK, SentOK, NoMsg, Message, Server!NoMsg, Server!Message
  <2>2. down' = Append(down, sent'[connection]) /\ down \in Seq(Answers)
    BY <1>2 DEF Transmit, WireOK
  <2>3. down' \in Seq(Answers)
    BY <2>1, <2>2
  <2>4. QED
    BY <1>1, <2>3 DEF clientVars, Client!vars
<1>3. CASE ~(connected /\ sent'[connection] # NoMsg)
  BY <1>1, <1>3 DEF Transmit, WireOK, clientVars, Client!vars
<1>4. QED
  BY <1>2, <1>3

\* A message of a frame is one that a handler is for.
LEMMA HandleOK ==
    ASSUME WireOK, Server!TypeOK, NEW c \in Clients, Handle(c)
    PROVE  WireOK' /\ ServerStep /\ UNCHANGED Client!vars
<1>1. PICK f \in DOMAIN up[c] :
        /\ HandleMessage(c, Head(up[c][f]))
        /\ up' = IF Tail(up[c][f]) = <<>> THEN [up EXCEPT ![c] = Others(@, f)]
                 ELSE [up EXCEPT ![c] = <<Tail(up[c][f])>> \o Others(@, f)]
  BY DEF Handle
<1> DEFINE m == Head(up[c][f])
           rest == Tail(up[c][f])
<1>2. /\ up \in [Clients -> Seq(Frames)] /\ up[c] \in Seq(Frames) /\ up[c][f] \in Frames
      /\ Transmit
  BY <1>1 DEF Handle, WireOK
<1>3. up[c][f] \in Seq(CP!Asking) /\ up[c][f] # <<>> /\ Others(up[c], f) \in Seq(Frames)
  BY <1>2, OthersAre DEF Frames
<1>4. m \in CP!Asking /\ rest \in Seq(CP!Asking)
  BY <1>3
<1>5. up' \in [Clients -> Seq(Frames)]
  <2> DEFINE others == Others(up[c], f)
  <2>0. up' = IF rest = <<>> THEN [up EXCEPT ![c] = others]
              ELSE [up EXCEPT ![c] = <<rest>> \o others]
    BY <1>1
  <2>00. others \in Seq(Frames)
    BY <1>3
  <2> HIDE DEF rest, others
  <2>1. CASE rest = <<>>
    BY <1>2, <2>0, <2>00, <2>1
  <2>2. CASE rest # <<>>
    <3>1. rest \in Frames
      BY <1>4, <2>2 DEF Frames
    <3>2. <<rest>> \o others \in Seq(Frames)
      BY <2>00, <3>1
    <3>3. QED
      BY <1>2, <2>0, <2>2, <3>2
  <2>3. QED
    BY <2>1, <2>2
<1>50. \/ m.type = "Subscription" /\ Server!HandleSubscribe(c, m.checksum, m.get)
       \/ m.type = "GetSubscription" /\ Server!HandleGet(c, m.checksum)
       \/ m.type = "Unsubscribe" /\ Server!HandleUnsubscribe(c)
       \/ m.type = "Unsubscribe" /\ subscription[c] = None /\ Ignore
       \/ m.type = "SendSubscriptionData" /\ Server!HandleSendData(c)
       \/ m.type = "SendSubscriptionData" /\ ~HasData(c) /\ Ignore
  BY <1>1 DEF HandleMessage
<1> HIDE DEF m, rest
<1>6. m.checksum \in Server!VersionOrNone
      /\ (m.type = "Subscription" => m.get \in {"sub", "both"})
  BY <1>4 DEF CP!Asking, CP!Upstream, CP!VersionOrNone, Server!VersionOrNone
<1>7. ServerStep /\ \A d \in Clients : SentOK(d)
  <2>1. CASE m.type = "Subscription" /\ Server!HandleSubscribe(c, m.checksum, m.get)
    <3>1. Server!Next
      BY <1>6, <2>1 DEF Server!Next
    <3>2. \A d \in Clients : SentOK(d)
      BY <1>6, <2>1, HandleSubscribeSends
    <3>3. QED
      BY <3>1, <3>2 DEF ServerStep
  <2>2. CASE Server!HandleGet(c, m.checksum)
    BY <1>6, <2>2, NothingIs DEF Server!Next, ServerStep, Server!HandleGet
  <2>3. CASE Server!HandleUnsubscribe(c)
    BY <2>3, NothingIs DEF Server!Next, ServerStep, Server!HandleUnsubscribe
  <2>4. CASE Ignore
    BY <2>4, NothingIs DEF ServerStep, Ignore
  <2>5. CASE Server!HandleSendData(c)
    <3>1. Server!Next
      BY <2>5 DEF Server!Next
    <3>2. \A d \in Clients : SentOK(d)
      BY <2>5, HandleSendDataSends
    <3>3. QED
      BY <3>1, <3>2 DEF ServerStep
  <2>6. QED
    BY <1>50, <2>1, <2>2, <2>3, <2>4, <2>5
<1>8. down' \in Seq(Answers) /\ UNCHANGED <<connection, connected>> /\ UNCHANGED Client!vars
  BY <1>2, <1>7, TransmitOK
<1>9. QED
  BY <1>5, <1>7, <1>8 DEF WireOK

LEMMA ServerGoesOn ==
    ASSUME WireOK, Server!TypeOK, Resume \/ Publish \/ RemoveTimeout
    PROVE  WireOK' /\ ServerStep /\ UNCHANGED Client!vars
<1>1. Transmit /\ up' = up
  BY DEF Resume, Publish, RemoveTimeout
<1>2. ServerStep /\ \A d \in Clients : SentOK(d)
  <2>1. CASE Resume
    <3>1. PICK s \in Calls : Server!CreateFor(s) \/ Server!JoinForGet(s)
      BY <2>1 DEF Resume
    <3>2. Server!Next
      BY <3>1 DEF Server!Next
    <3>3. QED
      BY <3>1, <3>2, CreateForSends, JoinForGetSends DEF ServerStep
  <2>2. CASE Publish
    <3>1. PICK i \in Instances, v \in Versions, patched \in BOOLEAN :
            Server!Update(i, v, patched)
      BY <2>2 DEF Publish
    <3>2. Server!Next
      BY <3>1 DEF Server!Next
    <3>3. QED
      BY <3>1, <3>2, UpdateSends DEF ServerStep
  <2>3. CASE RemoveTimeout
    <3>1. PICK i \in Instances : Server!RemoveTimeout(i)
      BY <2>3 DEF RemoveTimeout
    <3>2. Server!Next /\ Server!SendNothing
      BY <3>1 DEF Server!Next, Server!RemoveTimeout
    <3>3. QED
      BY <3>2, NothingIs DEF ServerStep
  <2>4. QED
    BY <2>1, <2>2, <2>3
<1>3. down' \in Seq(Answers) /\ UNCHANGED <<connection, connected>> /\ UNCHANGED Client!vars
  BY <1>1, <1>2, TransmitOK
<1>4. QED
  BY <1>1, <1>2, <1>3 DEF WireOK

LEMMA ServerCloseOK ==
    ASSUME WireOK, Server!TypeOK, NEW c \in Clients, ServerClose(c)
    PROVE  WireOK' /\ ServerStep /\ UNCHANGED Client!vars
<1>1. /\ Server!Close(c) /\ Transmit
      /\ up \in [Clients -> Seq(Frames)] /\ up[c] \in Seq(Frames)
  BY DEF ServerClose, WireOK
<1>2. ServerStep /\ \A d \in Clients : SentOK(d)
  BY <1>1, NothingIs DEF ServerStep, Server!Next, Server!Close
<1>3. down' \in Seq(Answers) /\ UNCHANGED <<connection, connected>> /\ UNCHANGED Client!vars
  BY <1>1, <1>2, TransmitOK
<1>4. up' \in [Clients -> Seq(Frames)]
  <2>0. PICK n \in 0..(IF Authorizes THEN Len(up[c]) ELSE 0) :
            up' = [up EXCEPT ![c] = SubSeq(@, 1, n)]
    BY DEF ServerClose
  <2>1. n \in 0..Len(up[c]) /\ up' = [up EXCEPT ![c] = SubSeq(@, 1, n)]
    <3>1. Len(up[c]) \in Nat
      BY <1>1
    <3>2. QED
      BY <2>0, <3>1
  <2>2. SubSeq(up[c], 1, n) \in Seq(Frames)
    BY <1>1, FirstOnes
  <2>3. QED
    BY <1>1, <2>1, <2>2
<1>5. QED
  BY <1>2, <1>3, <1>4 DEF WireOK
-----------------------------------------------------------------------------
(***************************************************************************)
(* Steps of the program are steps of ClientSubscriptions.                  *)
(***************************************************************************)
\* Nothing is added to the wire but by Drain.
LEMMA ProgramOK ==
    ASSUME WireOK, CallClient \/ Receive \/ Connect \/ Disconnect
    PROVE  WireOK' /\ Client!Next /\ Ignore
<1>1. CASE CallClient
  <2>1. /\ Ignore /\ UNCHANGED <<connection, up, busy, down>>
        /\ \E p \in Callers :
              \/ Client!Observe(p) \/ Client!GetFromCache(p)
              \/ Client!GetWaiting(p) \/ Client!Close(p)
    BY <1>1 DEF CallClient
  <2>2. PICK p \in Callers : \/ Client!Observe(p) \/ Client!GetFromCache(p)
                            \/ Client!GetWaiting(p) \/ Client!Close(p)
    BY <2>1
  <2>3. Client!Next
    BY <2>2, Zenon DEF Client!Next
  <2>4. connected' = connected
    BY <2>2 DEF Client!Observe, Client!GetFromCache, Client!GetWaiting, Client!Close
  <2>5. QED
    BY <2>1, <2>3, <2>4 DEF WireOK
<1>2. CASE Receive
  <2>1. Head(down) \in Answers /\ down' \in Seq(Answers)
    BY <1>2 DEF Receive, WireOK
  <2>2. Client!Next
    BY <1>2, <2>1 DEF Receive, Client!Next, Answers
  <2>3. connected' = connected
    BY <1>2
    DEF Receive, Client!Receive, Client!vars
  <2>4. QED
    BY <1>2, <2>1, <2>2, <2>3 DEF Receive, WireOK
<1>3. CASE Connect
  <2>1. connection' \in 0..MaxConnections /\ connection' \in Clients
    BY <1>3, BoundsAreNumbers DEF Connect, WireOK, Clients
  <2>2. QED
    BY <1>3, <2>1 DEF Connect, WireOK, Client!Next
<1>4. CASE Disconnect
  <2>1. <<>> \in Seq(Answers) /\ connected' = FALSE
    BY <1>4 DEF Disconnect, Client!Disconnect
  <2>2. QED
    BY <1>4, <2>1 DEF Disconnect, WireOK, Client!Next
<1>5. QED
  BY <1>1, <1>2, <1>3, <1>4

\* What is queued goes out as one frame, while there is a connection.
LEMMA DrainOK ==
    ASSUME WireOK, CP!QInv, Drain
    PROVE  WireOK' /\ Client!Next /\ Ignore
<1>1. /\ Client!Drain /\ Ignore /\ UNCHANGED <<connection, busy, down>>
      /\ up' = IF queue = <<>> \/ connection \in closed THEN up
               ELSE [up EXCEPT ![connection] = Append(@, queue)]
  BY DEF Drain
<1>2. connection \in Clients /\ queue \in Seq(CP!Asking) /\ connected' = connected
  BY <1>1 DEF Client!Drain, CP!QInv, WireOK
<1>3. up' \in [Clients -> Seq(Frames)]
  <2>1. CASE queue = <<>>
    BY <1>1, <2>1 DEF WireOK
  <2>2. CASE queue # <<>>
    <3>1. queue \in Frames
      BY <1>2, <2>2 DEF Frames
    <3>2. Append(up[connection], queue) \in Seq(Frames)
      BY <1>2, <3>1 DEF WireOK
    <3>3. QED
      BY <1>1, <3>2 DEF WireOK
  <2>3. QED
    BY <2>1, <2>2
<1>4. QED
  BY <1>1, <1>2, <1>3 DEF WireOK, Client!Next
-----------------------------------------------------------------------------
(***************************************************************************)
(* The components in the composition.                                      *)
(***************************************************************************)

\* Every step leaves the wire in order and is one of each component, or
\* nothing to it.
LEMMA StepsAre ==
    ASSUME LInv, [Next]_vars
    PROVE  WireOK' /\ [CP!Next]_(CP!vars) /\ [ServerStep]_(Server!vars)
<1>0. WireOK /\ CP!QInv /\ Server!TypeOK
  BY SameServer DEF LInv, SP!IInv
<1>1. CASE CallClient \/ Drain \/ Receive \/ Connect \/ Disconnect
  <2>1. WireOK' /\ Client!Next /\ Ignore
    BY <1>0, <1>1, ProgramOK, DrainOK
  <2>2. CP!Next
    BY <2>1, SameClient, Zenon
  <2>3. QED
    BY <2>1, <2>2 DEF ServerStep
<1>2. CASE \E c \in Clients : Handle(c) \/ ServerClose(c)
  <2>1. PICK c \in Clients : Handle(c) \/ ServerClose(c)
    BY <1>2
  <2>2. WireOK' /\ ServerStep /\ UNCHANGED Client!vars
    BY <1>0, <2>1, HandleOK, ServerCloseOK
  <2>3. UNCHANGED CP!vars
    BY <2>2 DEF CP!vars, Client!vars
  <2>4. QED
    BY <2>2, <2>3
<1>3. CASE Resume \/ Publish \/ RemoveTimeout
  <2>1. WireOK' /\ ServerStep /\ UNCHANGED Client!vars
    BY <1>0, <1>3, ServerGoesOn
  <2>2. UNCHANGED CP!vars
    BY <2>1 DEF CP!vars, Client!vars
  <2>3. QED
    BY <2>1, <2>2
<1>4. CASE UNCHANGED vars
  <2>1. WireOK' /\ UNCHANGED CP!vars /\ UNCHANGED Server!vars
    BY <1>0, <1>4
    DEF vars, clientVars, serverState, WireOK, CP!vars, Server!vars
  <2>2. QED
    BY <2>1
<1>6. QED
  BY <1>1, <1>2, <1>3, <1>4 DEF Next

\* A frame that needs no handler takes nothing from the server but what it
\* last sent.
LEMMA IgnoreKeeps ==
    ASSUME SP!IInv, Ignore
    PROVE  SP!IInv'
<1>1. UNCHANGED <<obs, registered, subscription, closed, calls>>
  BY DEF Ignore, serverState
<1>2. SP!TypeOK'
  <2>1. sent' \in [SP!Receivers -> SP!Downstream]
    BY DEF Ignore, Server!SendNothing, SP!Receivers, Server!Receivers,
       SP!Downstream, Server!NoMsg, Server!Message, SP!VersionOrNone
  <2>2. QED
    BY <1>1, <2>1
    DEF SP!IInv, SP!TypeOK, SP!Observable, SP!Receivers, SP!Entry, SP!Flags,
        SP!CallRecords, SP!VersionOrNone
<1>3. (SP!InstancesSound /\ SP!InstancesCurrent)'
  BY <1>1
  DEF SP!IInv, SP!InstancesSound, SP!InstancesCurrent
<1>4. (SP!RegisteredIsLive /\ SP!ListedHasEntry /\ SP!CallsWellFormed)'
  BY <1>1
  DEF SP!IInv, SP!RegisteredIsLive, SP!ListedHasEntry, SP!CallsWellFormed
<1>5. QED
  BY <1>2, <1>3, <1>4 DEF SP!IInv

LEMMA InitLInv == Init => LInv
<1> SUFFICES ASSUME Init PROVE LInv
  OBVIOUS
<1>1. CP!IInv /\ CP!QInv
  BY SameClient, Assumed, NoneIsNoVersion, CP!InitIInv, CP!InitQInv DEF Init
<1>2. SP!IInv
  BY SameServer, Assumed, NoneIsNoVersion, SP!InitIInv DEF Init
<1>3. WireOK
  <2>1. ~connected
    BY DEF Init, Client!Init
  <2>2. <<>> \in Seq(Frames) /\ <<>> \in Seq(Answers)
    OBVIOUS
  <2>3. QED
    BY <2>1, <2>2, BoundsAreNumbers DEF Init, WireOK
<1>4. QED
  BY <1>1, <1>2, <1>3 DEF LInv

LEMMA NextLInv == LInv /\ [Next]_vars => LInv'
<1> SUFFICES ASSUME LInv, [Next]_vars PROVE LInv'
  OBVIOUS
<1>1. WireOK' /\ [CP!Next]_(CP!vars) /\ [ServerStep]_(Server!vars)
  BY StepsAre
<1>2. CP!IInv /\ CP!QInv /\ SP!IInv
  BY DEF LInv
<1>3. CP!IInv'
  BY <1>1, <1>2, Assumed, NoneIsNoVersion, CP!NextIInv
<1>4. CP!QInv'
  BY <1>1, <1>2, Assumed, NoneIsNoVersion, CP!NextQInv
<1>5. SP!IInv'
  <2>1. CASE Ignore
    BY <1>2, <2>1, IgnoreKeeps
  <2>2. CASE [Server!Next]_(Server!vars)
    <3>1. [SP!Next]_(SP!vars)
      BY <2>2, SameServer DEF SP!vars, Server!vars
    <3>2. QED
      BY <1>2, <3>1, Assumed, NoneIsNoVersion, SP!NextIInv
  <2>3. QED
    BY <1>1, <2>1, <2>2 DEF ServerStep
<1>6. QED
  BY <1>1, <1>3, <1>4, <1>5 DEF LInv

\* The frames, the answers and the invariants of the two components.
THEOREM Invariance == Spec => []LInv
BY InitLInv, NextLInv, PTL DEF Spec
-----------------------------------------------------------------------------
\* The program in the composition is the client that ClientSubscriptions
\* models: the messages that this server sends it over these connections are
\* among those that module lets arrive.
THEOREM ClientImplemented == Spec => Client!Spec
<1>1. Init => Client!Init
  BY DEF Init
<1>2. LInv /\ [Next]_vars => [Client!Next]_(Client!vars)
  <2> SUFFICES ASSUME LInv, [Next]_vars PROVE [Client!Next]_(Client!vars)
    OBVIOUS
  <2>1. [CP!Next]_(CP!vars)
    BY StepsAre
  <2>2. CASE CP!Next
    BY <2>2, SameClient, Zenon
  <2>3. CASE UNCHANGED CP!vars
    BY <2>3 DEF CP!vars, Client!vars
  <2>4. QED
    BY <2>1, <2>2, <2>3
<1>3. QED
  BY <1>1, <1>2, Invariance, PTL DEF Spec, Client!Spec

\* The server in the composition only takes steps that SharedObservable
\* models, and steps at which no handler of it runs.
THEOREM ServerSteps == Spec => Server!Init /\ [][ServerStep]_(Server!vars)
<1>1. Init => Server!Init
  BY DEF Init
<1>2. LInv /\ [Next]_vars => [ServerStep]_(Server!vars)
  BY StepsAre
<1>3. QED
  BY <1>1, <1>2, Invariance, PTL DEF Spec

\* What is proved of a client that may be told anything holds of the program
\* that this server talks to: no subscriber loses its entry, the observers
\* agree with the cache, a caller closes its own subscriber, the queue asks
\* for what the entry needs, and the server is asked for it.
THEOREM ClientHolds ==
    Spec => [](/\ Client!CountCoversSubscribers
               /\ Client!ObserversAgree
               /\ Client!HandlesMatch
               /\ Client!QueueMatchesEntry
               /\ Client!ServerIsAsked)
<1>1. Spec => CP!Spec
  <2>1. Init => CP!Init
    BY SameClient, Zenon DEF Init
  <2>2. LInv /\ [Next]_vars => [CP!Next]_(CP!vars)
    BY StepsAre
  <2>3. QED
    BY <2>1, <2>2, Invariance, PTL DEF Spec, CP!Spec
<1>2. CP!Spec => []CP!CountCoversSubscribers /\ []CP!ObserversAgree
                 /\ []CP!HandlesMatch /\ []CP!QueueMatchesEntry /\ []CP!ServerIsAsked
  <2>1. MaxSlot \in Nat /\ None \notin Callers /\ None \notin Versions
    BY Assumed, NoneIsNoVersion
  <2>2. QED
    BY <2>1, CP!CountCovers, CP!ObserversHoldTheCache, CP!HandlesAreRight,
       CP!QueueIsRight, CP!ServerKnows, PTL
<1>3. /\ CP!CountCoversSubscribers <=> Client!CountCoversSubscribers
      /\ CP!ObserversAgree <=> Client!ObserversAgree
      /\ CP!HandlesMatch <=> Client!HandlesMatch
      /\ CP!QueueMatchesEntry <=> Client!QueueMatchesEntry
      /\ CP!ServerIsAsked <=> Client!ServerIsAsked
  BY SameClient
<1>4. QED
  BY <1>1, <1>2, <1>3, PTL

\* What is proved of a server whose clients may ask for anything holds of the
\* one that this program talks to, over all the connections it makes: the
\* counts are exact, an instance is removed when nobody uses it and then only,
\* every entry is at the published version, the registered instance is alive,
\* and each connection finds its entry.
THEOREM ServerHolds ==
    Spec => [](/\ Server!InstancesSound
               /\ Server!InstancesCurrent
               /\ Server!RegisteredIsLive
               /\ Server!ListedHasEntry)
<1>1. LInv => /\ Server!InstancesSound
              /\ Server!InstancesCurrent
              /\ Server!RegisteredIsLive
              /\ Server!ListedHasEntry
  BY SameServer DEF LInv, SP!IInv
<1>2. QED
  BY <1>1, Invariance, PTL
-----------------------------------------------------------------------------
(***************************************************************************)
(* A single caller that does not come back while it is connected: then     *)
(* each connection carries one request for the entry, and the answers to   *)
(* it are followed from the server to the cache.                           *)
(***************************************************************************)
Steady == ~MayReopen /\ \A p, q \in Callers : p = q

\* The entry has the caller's subscriber and no other.
OneCaller ==
    /\ \/ cnt = 0 /\ Client!Occupied = {}
       \/ cnt = 1 /\ Client!Occupied = {1}
    /\ \A p \in Callers : call[p] # "idle" => cnt = 1

\* The cached checksum after the messages on their way down: each of them is
\* made for what the one before it leaves.
Before(j) == IF j = 1 THEN cache.checksum ELSE down[j - 1].checksum

Latest == IF down = <<>> THEN cache.checksum ELSE down[Len(down)].checksum

Fits(k, m) ==
    \/ m.type = "data"
    \/ m.type = "same" /\ m.checksum = k
    \/ m.type = "diff" /\ m.from = k

InChain == \A j \in DOMAIN down : Fits(Before(j), down[j])

\* A request for the entry, while it is queued and after.
IsRequest(m, get) ==
    /\ m.checksum = cache.checksum
    /\ m.type = IF get THEN "GetSubscription" ELSE "Subscription"

QueueIs ==
    /\ cnt = 0 => \A j \in DOMAIN queue : queue[j].type = "Unsubscribe"
    /\ cnt = 1 /\ asked # "nothing" => queue = <<>>
    /\ cnt = 1 /\ asked = "nothing" =>
        \/ queue = <<>> /\ ~connected
        \/ /\ Len(queue) = 1
           /\ IsRequest(queue[1], Client!OnlyGets) \/ IsRequest(queue[1], FALSE)

\* What the server knows of a connection: nothing of it yet ...
NoEntryFor(c) ==
    subscription[c] = None /\ \A i \in Instances : obs[i].clients[c].get = "none"

NoCallFor(c) == \A s \in Calls : calls[s].who # c

Untouched(c) == up[c] = <<>> /\ NoCallFor(c) /\ NoEntryFor(c)

\* ... its request is on its way ...
Coming(c) ==
    /\ down = <<>>
    /\ Len(up[c]) = 1 /\ Len(up[c][1]) = 1
    /\ IsRequest(up[c][1][1], asked = "get")
    /\ NoCallFor(c) /\ NoEntryFor(c)

\* ... the handler of the request awaits ...
Awaited(c) ==
    /\ down = <<>>
    /\ up[c] = <<>>
    /\ \E s \in Calls :
        /\ calls[s].who = c
        /\ calls[s].checksum = cache.checksum
        /\ calls[s].op = IF asked = "get" THEN "get" ELSE "subscribe"
        /\ asked # "get" => calls[s].get # "get"
        /\ \A t \in Calls : calls[t].who = c => t = s
    /\ NoEntryFor(c)

\* ... one instance has an entry for it, at the version that was sent last ...
Entered(c) ==
    /\ up[c] = <<>>
    /\ NoCallFor(c)
    /\ subscription[c] # None
    /\ \A i \in Instances : obs[i].clients[c].get # "none" => i = subscription[c]
    /\ obs[subscription[c]].clients[c].checksum = Latest
    /\ obs[subscription[c]].clients[c].get = "get" <=> asked = "get"

\* ... or it was a get, and is answered.
Told(c) == Untouched(c) /\ asked = "get" /\ down # <<>>

Followed(c) == Coming(c) \/ Awaited(c) \/ Entered(c) \/ Told(c)

SInv ==
    /\ OneCaller
    /\ QueueIs
    /\ CacheIsGenuine
    /\ asked = "nothing" => down = <<>>
    /\ \A c \in Clients : c > connection => c \notin closed /\ Untouched(c)
    /\ connected /\ asked = "nothing" /\ connection \notin closed => Untouched(connection)
    /\ cnt = 1 /\ asked # "nothing" =>
        /\ InChain
        /\ connection \notin closed => Followed(connection)
\* What a step leaves to a connection that it is not about.
KeptFor(c) ==
    /\ subscription'[c] = subscription[c]
    /\ \A i \in Instances :
        /\ obs'[i].clients[c].get = obs[i].clients[c].get
        /\ obs[i].clients[c].get # "none" => obs'[i].clients[c] = obs[i].clients[c]
    /\ \A s \in Calls : calls[s].who = c \/ calls'[s].who = c => calls'[s] = calls[s]
    /\ sent'[c] = NoMsg
-----------------------------------------------------------------------------
(***************************************************************************)
(* Steps of the server about another connection.                           *)
(***************************************************************************)
LEMMA NoMsgIs == Server!NoMsg = NoMsg
BY DEF NoMsg, Message, Server!NoMsg, Server!Message

LEMMA NobodyIs == \A c \in Clients : c # None
BY NoneIsNobody DEF Clients

LEMMA SendToOther ==
    ASSUME NEW c \in Clients, NEW d, NEW msg, Server!SendTo(d, msg), c # d \/ c \in closed
    PROVE  sent'[c] = NoMsg
BY NoMsgIs DEF Server!SendTo, Server!Receivers

LEMMA SendToNobody ==
    ASSUME NEW c \in Clients, Server!SendNothing
    PROVE  sent'[c] = NoMsg
BY NoMsgIs DEF Server!SendNothing, Server!Receivers

LEMMA AwaitKeeps ==
    ASSUME NEW c \in Clients, NEW lookup, lookup.who # c, Server!Await(lookup), Server!TypeOK
    PROVE  \A s \in Calls : calls[s].who = c \/ calls'[s].who = c => calls'[s] = calls[s]
BY NobodyIs DEF Server!Await, Server!Idle, Server!Call, Server!TypeOK

LEMMA FinishKeeps ==
    ASSUME NEW c \in Clients, NEW s \in Calls, calls[s].who # c, Server!Finish(s),
           Server!TypeOK
    PROVE  \A t \in Calls : calls[t].who = c \/ calls'[t].who = c => calls'[t] = calls[t]
BY NobodyIs DEF Server!Finish, Server!Idle, Server!Call, Server!TypeOK

\* An instance keeps the entry of c when another enters, leaves or is
\* answered.
LEMMA SubscribeOther ==
    ASSUME NEW o \in Server!Observable, NEW c \in Clients, NEW d \in Clients, c # d,
           NEW k, NEW get
    PROVE  /\ Server!Subscribe(o, d, k, get).clients[c] = o.clients[c]
           /\ Server!Unsubscribe(o, d).clients[c] = o.clients[c]
BY DEF Server!Subscribe, Server!Unsubscribe, Server!DestroyIfEmpty, Server!Observable

LEMMA EnterOther ==
    ASSUME Server!TypeOK, NEW c \in Clients, NEW d \in Clients, c # d,
           NEW i \in Instances, NEW o \in Server!Observable,
           o.clients[c].get = obs[i].clients[c].get,
           obs[i].clients[c].get # "none" => o.clients[c] = obs[i].clients[c],
           NEW k, NEW get, Server!Enter(i, o, d, k, get)
    PROVE  /\ subscription'[c] = subscription[c]
           /\ \A j \in Instances :
                /\ obs'[j].clients[c].get = obs[j].clients[c].get
                /\ obs[j].clients[c].get # "none" => obs'[j].clients[c] = obs[j].clients[c]
           /\ sent'[c] = NoMsg
<1> DEFINE e == Server!Subscribe(o, d, k, get)
<1>1. obs' = [obs EXCEPT ![i] = e] /\ e.clients[c] = o.clients[c]
  BY SubscribeOther DEF Server!Enter
<1>2. sent'[c] = NoMsg
  BY SendToOther DEF Server!Enter
<1>3. subscription'[c] = subscription[c]
  BY DEF Server!Enter, Server!TypeOK
<1> HIDE DEF e
<1>4. obs \in [Instances -> Server!Observable]
  BY DEF Server!TypeOK
<1>5. QED
  BY <1>1, <1>2, <1>3, <1>4

LEMMA ReflagOther ==
    ASSUME Server!TypeOK, NEW c \in Clients, NEW d \in Clients, c # d,
           NEW i \in Instances, NEW get, Server!Reflag(i, d, get)
    PROVE  /\ subscription'[c] = subscription[c]
           /\ \A j \in Instances : obs'[j].clients[c] = obs[j].clients[c]
           /\ sent'[c] = NoMsg
<1>1. obs \in [Instances -> Server!Observable]
  BY DEF Server!TypeOK
<1>2. \A j \in Instances : obs[j].clients \in [Clients -> Server!Entry]
  BY <1>1 DEF Server!Observable
<1>3. QED
  BY <1>1, <1>2, SendToNobody DEF Server!Reflag, Server!Observable

LEMMA HandlersKeep ==
    ASSUME Server!TypeOK, NEW c \in Clients, NEW d \in Clients, c # d,
           \/ \E k, get : Server!HandleSubscribe(d, k, get)
           \/ \E k : Server!HandleGet(d, k)
           \/ Server!HandleUnsubscribe(d) \/ Server!HandleSendData(d)
           \/ Server!Close(d) \/ Ignore
    PROVE  KeptFor(c)
<1>0. /\ obs \in [Instances -> Server!Observable]
      /\ subscription \in [Clients -> Instances \cup {None}]
  BY DEF Server!TypeOK
<1>1. ASSUME NEW k, NEW get, Server!HandleSubscribe(d, k, get) PROVE KeptFor(c)
  <2>1. CASE registered = None
    <3>1. /\ Server!Await(Server!Call("subscribe", d, k, get, None))
          /\ Server!SendNothing /\ UNCHANGED <<obs, subscription>>
      BY <1>1, <2>1 DEF Server!HandleSubscribe
    <3>2. Server!Call("subscribe", d, k, get, None).who # c
      BY DEF Server!Call
    <3>3. QED
      BY <3>1, <3>2, AwaitKeeps, SendToNobody DEF KeptFor
  <2>2. CASE registered # None
    <3>1. registered \in Instances /\ obs[registered] \in Server!Observable
      BY <2>2 DEF Server!TypeOK
    <3>2. UNCHANGED calls
          /\ \/ Server!Enter(registered, obs[registered], d, k, get)
             \/ \E f : Server!Reflag(registered, d, f)
      BY <1>1, <2>2 DEF Server!HandleSubscribe
    <3>3. CASE Server!Enter(registered, obs[registered], d, k, get)
      BY <3>1, <3>2, <3>3, EnterOther DEF KeptFor
    <3>4. CASE \E f : Server!Reflag(registered, d, f)
      BY <3>1, <3>2, <3>4, ReflagOther DEF KeptFor
    <3>5. QED
      BY <3>2, <3>3, <3>4
  <2>3. QED
    BY <2>1, <2>2
<1>2. ASSUME NEW k, Server!HandleGet(d, k) PROVE KeptFor(c)
  <2>1. Server!Call("get", d, k, "get", None).who # c
    BY DEF Server!Call
  <2>2. QED
    BY <1>2, <2>1, AwaitKeeps, SendToNobody DEF KeptFor, Server!HandleGet
<1>3. ASSUME \/ Server!HandleUnsubscribe(d) \/ Server!Close(d) PROVE KeptFor(c)
  <2>1. /\ subscription'[c] = subscription[c] /\ UNCHANGED calls /\ Server!SendNothing
        /\ \/ UNCHANGED obs
           \/ /\ subscription[d] # None
              /\ obs' = [obs EXCEPT ![subscription[d]] = Server!Unsubscribe(@, d)]
    BY <1>0, <1>3 DEF Server!HandleUnsubscribe, Server!Close
  <2>2. \A i \in Instances : obs'[i].clients[c] = obs[i].clients[c]
    BY <1>0, <2>1, SubscribeOther
  <2>3. QED
    BY <2>1, <2>2, SendToNobody DEF KeptFor
<1>4. ASSUME Server!HandleSendData(d) PROVE KeptFor(c)
  <2> DEFINE i == subscription[d]
  <2>1. /\ i \in Instances /\ UNCHANGED <<subscription, calls>>
        /\ obs' = [obs EXCEPT ![i].clients[d].checksum = obs[i].checksum]
        /\ Server!SendTo(d, Server!Full(obs[i].checksum))
    BY <1>0, <1>4 DEF Server!HandleSendData
  <2>2. sent'[c] = NoMsg
    BY <2>1, SendToOther
  <2>3. \A j \in Instances : obs'[j].clients[c] = obs[j].clients[c]
    BY <1>0, <2>1 DEF Server!Observable
  <2>4. QED
    BY <2>1, <2>2, <2>3 DEF KeptFor
<1>5. ASSUME Ignore PROVE KeptFor(c)
  BY <1>5, SendToNobody DEF Ignore, serverState, KeptFor
<1>6. QED
  BY <1>1, <1>2, <1>3, <1>4, <1>5

\* Who a handler that awaits is for: there are no callers at the server.
LEMMA CallsAre ==
    ASSUME SP!IInv, NEW s \in Calls, calls[s] # Server!Idle
    PROVE  /\ calls[s].who \in Clients
           /\ calls[s].op \in {"subscribe", "get"}
           /\ calls[s].checksum \in Server!VersionOrNone
           /\ calls[s].get \in {"sub", "get", "both"}
           /\ calls[s].op = "get" => calls[s].get = "get"
<1>1. Server!TypeOK
  BY SameServer DEF SP!IInv
<1>2. calls[s].checksum \in Server!VersionOrNone
  BY <1>1 DEF Server!TypeOK, Server!CallRecords
<1>3. calls[s] # SP!Idle
  BY DEF Server!Idle, Server!Call, SP!Idle, SP!Call
<1>4. QED
  BY <1>2, <1>3 DEF SP!IInv, SP!CallsWellFormed

\* The instance that a handler makes, at any first publication.
LEMMA NewIs ==
    ASSUME NEW who \in Clients, NEW p \in Server!FirstPublications
    PROVE  /\ Server!New(who, p[1], p[2]) \in Server!Observable
           /\ \A c \in Clients : Server!New(who, p[1], p[2]).clients[c].get = "none"
<1>1. p[1] \in Server!VersionOrNone /\ p[2] \in Server!VersionOrNone
  BY DEF Server!FirstPublications
<1>2. QED
  BY <1>1
  DEF Server!New, Server!Unused, Server!Observable, Server!NoEntry, Server!Entry,
      Server!Flags, Server!VersionOrNone, Server!Receivers

\* Making an instance is entering one that nobody has an entry of.
LEMMA CreateIs ==
    ASSUME SP!IInv, NEW s \in Calls, Server!CreateFor(s)
    PROVE  /\ calls[s] # Server!Idle
           /\ Server!Finish(s) /\ UNCHANGED closed
           /\ \E i \in Instances, o \in Server!Observable :
                /\ registered' = i /\ o.status = "live"
                /\ \A c \in Clients : /\ obs[i].clients[c].get = "none"
                                      /\ o.clients[c].get = "none"
                /\ Server!Enter(i, o, calls[s].who, calls[s].checksum, calls[s].get)
<1>0. Server!TypeOK /\ Server!InstancesSound
  BY SameServer DEF SP!IInv
<1>1. calls[s] # Server!Idle /\ Server!Finish(s) /\ UNCHANGED closed
  BY DEF Server!CreateFor
<1>2. calls[s].who \in Clients /\ calls[s].op # "observe"
  BY <1>1, CallsAre
<1>3. PICK i \in Instances, p \in Server!FirstPublications :
        /\ obs[i].status = "unused" /\ registered' = i
        /\ Server!Enter(i, Server!New(calls[s].who, p[1], p[2]),
                        calls[s].who, calls[s].checksum, calls[s].get)
  BY <1>2 DEF Server!CreateFor
<1> DEFINE o == Server!New(calls[s].who, p[1], p[2])
<1>4. /\ o \in Server!Observable /\ o.status = "live"
      /\ \A c \in Clients : o.clients[c].get = "none"
  BY <1>2, NewIs DEF Server!New, Server!Unused
<1>5. \A c \in Clients : obs[i].clients[c].get = "none"
  BY <1>0, <1>3 DEF Server!InstancesSound, Server!OnlyLiveServes, Server!Subscribers
<1> HIDE DEF o
<1>6. Server!Enter(i, o, calls[s].who, calls[s].checksum, calls[s].get)
  BY <1>3 DEF o
<1>7. QED
  BY <1>1, <1>3, <1>4, <1>5, <1>6

LEMMA ResumeKeeps ==
    ASSUME SP!IInv, NEW c \in Clients, NEW s \in Calls, calls[s].who # c,
           Server!CreateFor(s) \/ Server!JoinForGet(s)
    PROVE  KeptFor(c)
<1>0. Server!TypeOK
  BY SameServer DEF SP!IInv
<1>1. CASE Server!CreateFor(s)
  <2>1. /\ calls[s] # Server!Idle /\ Server!Finish(s)
        /\ \E i \in Instances, o \in Server!Observable :
             /\ \A e \in Clients : /\ obs[i].clients[e].get = "none"
                                   /\ o.clients[e].get = "none"
             /\ Server!Enter(i, o, calls[s].who, calls[s].checksum, calls[s].get)
    BY <1>1, CreateIs
  <2>2. PICK i \in Instances, o \in Server!Observable :
             /\ obs[i].clients[c].get = "none" /\ o.clients[c].get = "none"
             /\ Server!Enter(i, o, calls[s].who, calls[s].checksum, calls[s].get)
    BY <2>1
  <2>3. calls[s].who \in Clients
    BY <2>1, CallsAre
  <2>4. QED
    BY <1>0, <2>1, <2>2, <2>3, EnterOther, FinishKeeps DEF KeptFor
<1>2. CASE Server!JoinForGet(s)
  <2>1. calls[s] # Server!Idle /\ registered \in Instances /\ Server!Finish(s)
    BY <1>0, <1>2 DEF Server!JoinForGet, Server!Idle, Server!Call, Server!TypeOK
  <2>2. calls[s].who \in Clients /\ obs[registered] \in Server!Observable
    BY <1>0, <2>1, CallsAre DEF Server!TypeOK
  <2>3. CASE Server!Enter(registered, obs[registered], calls[s].who,
                          calls[s].checksum, "get")
    BY <1>0, <2>1, <2>2, <2>3, EnterOther, FinishKeeps DEF KeptFor
  <2>4. CASE Server!Reflag(registered, calls[s].who, "both")
    BY <1>0, <2>1, <2>2, <2>4, ReflagOther, FinishKeeps DEF KeptFor
  <2>5. QED
    BY <1>2, <2>3, <2>4 DEF Server!JoinForGet
<1>3. QED
  BY <1>1, <1>2

LEMMA RemoveTimeoutKeeps ==
    ASSUME Server!TypeOK, NEW c \in Clients, NEW i \in Instances, Server!RemoveTimeout(i)
    PROVE  KeptFor(c)
<1>1. obs \in [Instances -> Server!Observable]
  BY DEF Server!TypeOK
<1>2. \A j \in Instances : obs'[j].clients = obs[j].clients
  BY <1>1 DEF Server!RemoveTimeout, Server!Observable
<1>3. QED
  BY <1>2, SendToNobody DEF KeptFor, Server!RemoveTimeout

\* What the publication of an instance is to those who have no entry.
LEMMA PublishOther ==
    ASSUME NEW o \in Server!Observable, NEW c \in Clients, o.clients[c].get = "none",
           NEW v, NEW patched
    PROVE  /\ c \notin Server!Served(o, v) /\ c \notin Server!Leaving(o, v)
           /\ Server!Publish(o, v, patched).clients[c] = o.clients[c]
<1>1. c \notin Server!Served(o, v) /\ c \notin Server!Leaving(o, v)
  BY DEF Server!Served, Server!Leaving, Server!Subscribers
<1>2. QED
  BY <1>1 DEF Server!Publish, Server!DestroyIfEmpty, Server!Observable

LEMMA UpdateKeeps ==
    ASSUME Server!TypeOK, NEW c \in Clients, NEW i \in Instances, NEW v, NEW patched,
           Server!Update(i, v, patched), obs[i].clients[c].get = "none"
    PROVE  KeptFor(c)
<1>1. obs \in [Instances -> Server!Observable] /\ obs[i].listeners = {}
  BY DEF Server!TypeOK, Server!Observable
<1>2. /\ c \notin Server!Served(obs[i], v) /\ c \notin Server!Leaving(obs[i], v)
      /\ Server!Publish(obs[i], v, patched).clients[c] = obs[i].clients[c]
  BY <1>1, PublishOther
<1>3. subscription'[c] = subscription[c] /\ sent'[c] = NoMsg /\ UNCHANGED calls
  BY <1>1, <1>2, NoMsgIs DEF Server!Update, Server!Receivers
<1>4. \A j \in Instances : obs'[j].clients[c] = obs[j].clients[c]
  BY <1>1, <1>2 DEF Server!Update
<1>5. QED
  BY <1>3, <1>4 DEF KeptFor
-----------------------------------------------------------------------------
(***************************************************************************)
(* Steps of the server about the connection in use.                        *)
(***************************************************************************)
\* What is sent next is made for what was sent last.
LEMMA ChainGrows ==
    ASSUME InChain, down \in Seq(Answers), NEW m \in Answers, Fits(Latest, m),
           down' = Append(down, m), cache' = cache
    PROVE  InChain' /\ Latest' = m.checksum /\ down' # <<>>
<1> DEFINE l == Len(down)
<1>1. l \in Nat /\ Len(down') = l + 1 /\ down'[l + 1] = m /\ down' \in Seq(Answers)
      /\ \A j \in 1..l : down'[j] = down[j]
  OBVIOUS
<1>2. Latest' = m.checksum /\ down' # <<>>
  BY <1>1 DEF Latest
<1>3. ASSUME NEW j \in DOMAIN down' PROVE Fits(Before(j), down[j])'
  <2>1. j \in 1..(l + 1) /\ DOMAIN down = 1..l
    BY <1>1, <1>3
  <2>2. CASE j \in 1..l
    <3>1. Before(j)' = Before(j)
      BY <1>1, <2>2 DEF Before
    <3>2. QED
      BY <1>1, <2>1, <2>2, <3>1 DEF InChain, Fits
  <2>3. CASE j = l + 1
    <3>1. Before(j)' = Latest
      BY <1>1, <2>3 DEF Before, Latest
    <3>2. QED
      BY <1>1, <2>3, <3>1 DEF Fits
  <2>4. QED
    BY <2>1, <2>2, <2>3
<1>4. QED
  BY <1>2, <1>3 DEF InChain

\* What a step sends to the connection in use, if anything, is appended.
LEMMA Sends ==
    ASSUME Transmit, connected
    PROVE  /\ UNCHANGED <<cache, asked, connection, connected, cnt>>
           /\ down' = IF sent'[connection] = NoMsg THEN down
                      ELSE Append(down, sent'[connection])
BY DEF Transmit, clientVars

LEMMA ReplyFits ==
    ASSUME NEW o \in Server!Observable, NEW k \in Server!VersionOrNone, NEW get
    PROVE  LET r == Server!Reply(o, k, get) IN
           /\ r = NoMsg => o.checksum = None \/ k = o.checksum
           /\ r # NoMsg => /\ r \in Answers /\ Fits(k, r)
                           /\ o.checksum # None /\ r.checksum = o.checksum
<1> DEFINE r == Server!Reply(o, k, get)
<1>1. r \in Answers \cup {Server!NoMsg}
  BY ReplyIs
<1>2. /\ r = NoMsg => o.checksum = None \/ k = o.checksum
      /\ r # NoMsg => /\ Fits(k, r)
                      /\ o.checksum # None /\ r.checksum = o.checksum
  BY DEF Server!Reply, Fits, Server!Full, Server!Same, Server!Diff, Server!Message,
     NoMsg, Message, Server!NoMsg
<1>3. QED
  BY <1>1, <1>2, NoMsgIs

\* The request of the connection is entered at an instance: what is sent is
\* made for the checksum it presents, and the entry is at that version.
LEMMA EnterMoves ==
    ASSUME Server!TypeOK, WireOK, connected, connection \notin closed, Transmit,
           cache.checksum \in Server!VersionOrNone, down = <<>>,
           NoEntryFor(connection), up'[connection] = <<>>, NoCallFor(connection)',
           NEW i \in Instances, NEW o \in Server!Observable,
           o.clients[connection].get = "none",
           NEW get \in {"sub", "get", "both"}, get = "get" <=> asked = "get",
           Server!Enter(i, o, connection, cache.checksum, get)
    PROVE  InChain' /\ Followed(connection)'
<1> DEFINE c == connection
           k == cache.checksum
           r == Server!Reply(o, k, get)
           e == Server!Subscribe(o, c, k, get)
<1>0. /\ c \in Clients /\ i # None
      /\ obs \in [Instances -> Server!Observable]
      /\ subscription \in [Clients -> Instances \cup {None}]
  BY NoneIsNobody DEF WireOK, Server!TypeOK
<1>1. /\ obs' = [obs EXCEPT ![i] = e]
      /\ subscription' = [subscription EXCEPT
                ![c] = IF Server!Answered(o, k, get) THEN @ ELSE i]
      /\ Server!SendTo(c, r)
  BY DEF Server!Enter
<1>2. sent'[c] = r
  BY <1>0, <1>1 DEF Server!SendTo, Server!Receivers
<1>3. /\ UNCHANGED <<cache, asked, connection>>
      /\ down' = IF r = NoMsg THEN down ELSE Append(down, r)
  BY <1>2, Sends
<1>4. /\ r = NoMsg => o.checksum = None \/ k = o.checksum
      /\ r # NoMsg => /\ r \in Answers /\ Fits(k, r)
                      /\ o.checksum # None /\ r.checksum = o.checksum
  BY ReplyFits
<1>5. InChain /\ Latest = k /\ down \in Seq(Answers)
  BY DEF InChain, Latest
<1>6. /\ InChain'
      /\ r # NoMsg => Latest' = o.checksum /\ down' # <<>>
      /\ r = NoMsg => Latest' = k
  <2> HIDE DEF r, k
  <2>1. CASE r = NoMsg
    <3>1. down' = down /\ cache' = cache
      BY <1>3, <2>1
    <3>2. InChain' /\ Latest' = Latest
      BY <1>5, <3>1 DEF InChain, Latest, Before, Fits
    <3>3. QED
      BY <1>5, <2>1, <3>2
  <2>2. CASE r # NoMsg
    <3>1. down' = Append(down, r) /\ cache' = cache /\ r \in Answers /\ Fits(Latest, r)
      BY <1>3, <1>4, <1>5, <2>2
    <3>2. QED
      BY <1>4, <1>5, <2>2, <3>1, ChainGrows
  <2>3. QED
    BY <2>1, <2>2
<1>7. CASE Server!Answered(o, k, get)
  <2>1. r # NoMsg /\ asked' = "get"
    BY <1>3, <1>7, NoMsgIs DEF Server!Answered
  <2>2. e.clients = o.clients
    BY <1>7 DEF Server!Subscribe, Server!DestroyIfEmpty, Server!Observable
  <2> HIDE DEF e, r, k
  <2>3. NoEntryFor(c)'
    BY <1>0, <1>1, <1>3, <1>7, <2>2 DEF NoEntryFor
  <2>4. Told(c)'
    BY <1>3, <1>6, <2>1, <2>3 DEF Told, Untouched
  <2>5. QED
    BY <1>3, <1>6, <2>4 DEF Followed
<1>8. CASE ~Server!Answered(o, k, get)
  <2>1. e.clients[c] = [checksum |-> IF o.checksum = None THEN k ELSE o.checksum,
                        get |-> get]
    BY <1>0, <1>8 DEF Server!Subscribe, Server!Observable
  <2>2. subscription'[c] = i /\ obs'[i] = e
        /\ \A j \in Instances : obs'[j].clients[c].get # "none" => j = i
    BY <1>0, <1>1, <1>8 DEF NoEntryFor
  <2>3. Latest' = e.clients[c].checksum
    BY <1>4, <1>6, <2>1
  <2> HIDE DEF e, r, k
  <2>4. Entered(c)'
    BY <1>0, <1>3, <2>1, <2>2, <2>3 DEF Entered
  <2>5. QED
    BY <1>3, <1>6, <2>4 DEF Followed
<1>9. QED
  BY <1>7, <1>8

\* The message of an update, and the entry after it, for who has one.
LEMMA PublishFits ==
    ASSUME NEW o \in Server!Observable, Server!EntriesAreCurrent(o),
           NEW c \in Clients, o.clients[c].get # "none",
           NEW v \in Versions, NEW patched \in BOOLEAN,
           v # o.checksum, patched => o.checksum # None
    PROVE  LET e == Server!Publish(o, v, patched).clients[c]
               m == Server!PublishMsg(o, c, v, patched)
           IN
           /\ m \in Answers /\ m # NoMsg /\ m.checksum = v
           /\ Fits(o.clients[c].checksum, m)
           /\ \/ /\ c \notin Server!Served(o, v)
                 /\ e = o.clients[c]
              \/ /\ c \in Server!Served(o, v) /\ c \notin Server!Leaving(o, v)
                 /\ e.checksum = v /\ e.get = o.clients[c].get
              \/ /\ c \in Server!Served(o, v) /\ c \in Server!Leaving(o, v)
                 /\ e.get = "none" /\ o.clients[c].get = "get"
<1> DEFINE e == Server!Publish(o, v, patched).clients[c]
           m == Server!PublishMsg(o, c, v, patched)
<1>1. /\ o.checksum \in Server!VersionOrNone
      /\ o.clients \in [Clients -> Server!Entry]
      /\ o.checksum # None => o.clients[c].checksum = o.checksum
  BY DEF Server!Observable, Server!EntriesAreCurrent, Server!Subscribers
<1>2. m \in Answers
  BY <1>1, AnswersAre DEF Server!PublishMsg, Server!VersionOrNone
<1>3. m # NoMsg /\ m.checksum = v /\ Fits(o.clients[c].checksum, m)
  BY <1>1 DEF Server!PublishMsg, Fits, Server!Full, Server!Same, Server!Diff,
     Server!Message, NoMsg, Message
<1>4. e = IF c \in Server!Leaving(o, v) THEN Server!NoEntry
          ELSE IF c \in Server!Served(o, v) THEN [o.clients[c] EXCEPT !.checksum = v]
          ELSE o.clients[c]
  BY DEF Server!Publish, Server!DestroyIfEmpty, Server!Observable
<1>5. /\ c \in Server!Leaving(o, v) =>
            c \in Server!Served(o, v) /\ o.clients[c].get = "get"
      /\ c \in Server!Served(o, v) \/ c \notin Server!Leaving(o, v)
  BY DEF Server!Leaving
<1>6. o.clients[c] \in Server!Entry
  BY <1>1
<1> HIDE DEF e, m
<1>7. \/ /\ c \notin Server!Served(o, v)
         /\ e = o.clients[c]
      \/ /\ c \in Server!Served(o, v) /\ c \notin Server!Leaving(o, v)
         /\ e.checksum = v /\ e.get = o.clients[c].get
      \/ /\ c \in Server!Served(o, v) /\ c \in Server!Leaving(o, v)
         /\ e.get = "none" /\ o.clients[c].get = "get"
  BY <1>4, <1>5, <1>6 DEF Server!Entry, Server!NoEntry
<1>8. QED
  BY <1>2, <1>3, <1>7 DEF e, m

LEMMA UpdateMoves ==
    ASSUME SP!IInv, WireOK, connected, connection \notin closed, Transmit, up' = up,
           InChain, Followed(connection),
           NEW i \in Instances, NEW v \in Versions, NEW patched \in BOOLEAN,
           Server!Update(i, v, patched), obs[i].clients[connection].get # "none"
    PROVE  InChain' /\ Followed(connection)'
<1> DEFINE c == connection
           o == obs[i]
           e == Server!Publish(o, v, patched).clients[c]
           m == Server!PublishMsg(o, c, v, patched)
<1>0. Server!TypeOK /\ Server!InstancesCurrent
  BY SameServer DEF SP!IInv
<1>1. /\ c \in Clients /\ o \in Server!Observable
      /\ obs \in [Instances -> Server!Observable]
      /\ subscription \in [Clients -> Instances \cup {None}]
      /\ o.listeners = {} /\ Server!EntriesAreCurrent(o)
      /\ down \in Seq(Answers)
  BY <1>0 DEF WireOK, Server!TypeOK, Server!Observable, Server!InstancesCurrent
<1>2. /\ v # o.checksum /\ (patched => o.checksum # None)
      /\ obs' = [obs EXCEPT ![i] = Server!Publish(@, v, patched)]
      /\ subscription' = [d \in Clients |->
              IF d \in Server!Leaving(o, v) THEN None ELSE subscription[d]]
      /\ sent'[c] = IF c \in Server!Served(o, v) THEN m ELSE NoMsg
      /\ UNCHANGED calls
  BY <1>1, NoMsgIs DEF Server!Update, Server!Receivers
<1>3. Entered(c) /\ subscription[c] = i /\ i # None
  BY NoneIsNobody
  DEF Followed, Coming, Awaited, Told, Untouched, NoEntryFor, Entered
<1>4. o.clients[c].checksum = Latest /\ (o.clients[c].get = "get" <=> asked = "get")
      /\ up[c] = <<>> /\ NoCallFor(c)
      /\ \A j \in Instances : obs[j].clients[c].get # "none" => j = i
  BY <1>3 DEF Entered
<1>5. /\ UNCHANGED <<cache, asked, connection>>
      /\ down' = IF sent'[c] = NoMsg THEN down ELSE Append(down, sent'[c])
  BY Sends
<1>6. /\ m \in Answers /\ m # NoMsg /\ m.checksum = v /\ Fits(Latest, m)
      /\ \/ c \notin Server!Served(o, v) /\ e = o.clients[c]
         \/ /\ c \in Server!Served(o, v) /\ c \notin Server!Leaving(o, v)
            /\ e.checksum = v /\ e.get = o.clients[c].get
         \/ /\ c \in Server!Served(o, v) /\ c \in Server!Leaving(o, v)
            /\ e.get = "none" /\ o.clients[c].get = "get"
  BY <1>1, <1>2, <1>4, PublishFits
<1>7. /\ obs'[i].clients[c] = e
      /\ \A j \in Instances : j # i => obs'[j].clients[c] = obs[j].clients[c]
      /\ subscription'[c] = IF c \in Server!Leaving(o, v) THEN None ELSE i
      /\ NoCallFor(c)' /\ up'[c] = <<>>
  BY <1>1, <1>2, <1>3, <1>4, <1>5 DEF NoCallFor
<1>8. /\ (down' = down => InChain' /\ Latest' = Latest)
      /\ (down' = Append(down, m) => InChain' /\ Latest' = v /\ down' # <<>>)
  <2> HIDE DEF m
  <2>1. ASSUME down' = down PROVE InChain' /\ Latest' = Latest
    BY <1>5, <2>1 DEF InChain, Latest, Before, Fits
  <2>2. ASSUME down' = Append(down, m) PROVE InChain' /\ Latest' = v /\ down' # <<>>
    BY <1>1, <1>5, <1>6, <2>2, ChainGrows
  <2>3. QED
    BY <2>1, <2>2
<1> HIDE DEF e, m, o
<1>9. CASE c \notin Server!Served(o, v) /\ e = o.clients[c]
  <2>1. down' = down
    BY <1>2, <1>5, <1>9
  <2>2. c \notin Server!Leaving(o, v)
    BY <1>9 DEF Server!Leaving
  <2>3. Entered(c)'
    BY <1>4, <1>5, <1>7, <1>8, <1>9, <1>3, <2>1, <2>2 DEF Entered
  <2>4. QED
    BY <1>5, <1>8, <2>1, <2>3 DEF Followed
<1>10. CASE /\ c \in Server!Served(o, v) /\ c \notin Server!Leaving(o, v)
            /\ e.checksum = v /\ e.get = o.clients[c].get
  <2>1. down' = Append(down, m)
    BY <1>2, <1>5, <1>6, <1>10
  <2>2. Entered(c)'
    BY <1>3, <1>4, <1>5, <1>7, <1>8, <1>10, <2>1 DEF Entered
  <2>3. QED
    BY <1>5, <1>8, <2>1, <2>2 DEF Followed
<1>11. CASE /\ c \in Server!Served(o, v) /\ c \in Server!Leaving(o, v)
            /\ e.get = "none" /\ o.clients[c].get = "get"
  <2>1. down' = Append(down, m)
    BY <1>2, <1>5, <1>6, <1>11
  <2>2. NoEntryFor(c)'
    BY <1>4, <1>5, <1>7, <1>11 DEF NoEntryFor
  <2>3. Told(c)'
    BY <1>4, <1>5, <1>7, <1>8, <1>11, <2>1, <2>2 DEF Told, Untouched
  <2>4. QED
    BY <1>5, <1>8, <2>1, <2>3 DEF Followed
<1>12. QED
  BY <1>6, <1>9, <1>10, <1>11

\* The handler of the request awaits.
LEMMA AwaitMoves ==
    ASSUME Server!TypeOK, WireOK, connected, Transmit, down = <<>>,
           NoEntryFor(connection), NoCallFor(connection), up'[connection] = <<>>,
           UNCHANGED <<obs, subscription>>, Server!SendNothing,
           NEW lookup, Server!Await(lookup), lookup.who = connection,
           lookup.checksum = cache.checksum,
           lookup.op = IF asked = "get" THEN "get" ELSE "subscribe",
           asked # "get" => lookup.get # "get"
    PROVE  InChain' /\ Followed(connection)'
<1> DEFINE c == connection
<1>1. c \in Clients
  BY DEF WireOK
<1>2. down' = <<>> /\ UNCHANGED <<cache, asked, connection>>
  BY <1>1, Sends, SendToNobody
<1>3. PICK s \in Calls : calls' = [calls EXCEPT ![s] = lookup]
  BY DEF Server!Await
<1>4. calls'[s] = lookup /\ \A t \in Calls : calls'[t].who = c => t = s
  BY <1>3 DEF NoCallFor, Server!TypeOK
<1>5. NoEntryFor(c)'
  BY <1>2 DEF NoEntryFor
<1>6. Awaited(c)'
  BY <1>2, <1>4, <1>5 DEF Awaited
<1>7. InChain'
  BY <1>2 DEF InChain
<1>8. QED
  BY <1>2, <1>6, <1>7 DEF Followed

LEMMA OnlyOne ==
    ASSUME NEW S, NEW q \in Seq(S), Len(q) = 1
    PROVE  Head(q) = q[1] /\ q[1] \in S /\ Tail(q) = <<>>
<1>1. q # <<>> /\ 1 \in DOMAIN q
  OBVIOUS
<1>2. Tail(q) \in Seq(S) /\ Len(Tail(q)) = 0
  BY <1>1
<1>3. Tail(q) = <<>>
  BY <1>2, EmptySeq
<1>4. QED
  BY <1>1, <1>3

LEMMA HandleMoves ==
    ASSUME LInv, connected, connection \notin closed, Handle(connection),
           Followed(connection)
    PROVE  InChain' /\ Followed(connection)'
<1> DEFINE c == connection
           m == up[c][1][1]
<1>0. /\ Server!TypeOK /\ WireOK /\ c \in Clients
      /\ cache.checksum \in Server!VersionOrNone
  BY SameServer
  DEF LInv, SP!IInv, WireOK, CP!IInv, CP!EntryTypeOK, CP!VersionOrNone,
      Server!VersionOrNone
<1>1. up[c] # <<>> /\ Transmit /\ c \notin closed
  BY <1>0 DEF Handle, WireOK
<1>2. Coming(c)
  BY <1>1 DEF Followed, Awaited, Entered, Told, Untouched
<1>3. /\ down = <<>> /\ NoCallFor(c) /\ NoEntryFor(c)
      /\ Len(up[c]) = 1 /\ Len(up[c][1]) = 1
      /\ IsRequest(m, asked = "get")
  BY <1>2 DEF Coming
<1>4. up \in [Clients -> Seq(Frames)] /\ up[c] \in Seq(Frames)
  BY <1>0 DEF WireOK
<1>5. Head(up[c]) = up[c][1] /\ up[c][1] \in Frames /\ Tail(up[c]) = <<>>
  BY <1>3, <1>4, OnlyOne
<1>6. up[c][1] \in Seq(CP!Asking)
  BY <1>5 DEF Frames
<1>7. Head(up[c][1]) = m /\ m \in CP!Asking /\ Tail(up[c][1]) = <<>>
  BY <1>3, <1>6, OnlyOne
<1> HIDE DEF m
<1>8. up'[c] = <<>> /\ HandleMessage(c, m)
  <2>1. PICK f \in DOMAIN up[c] :
          /\ HandleMessage(c, Head(up[c][f]))
          /\ up' = IF Tail(up[c][f]) = <<>> THEN [up EXCEPT ![c] = Others(@, f)]
                   ELSE [up EXCEPT ![c] = <<Tail(up[c][f])>> \o Others(@, f)]
    BY DEF Handle
  <2>2. f = 1
    BY <1>3, <1>4
  <2>3. Others(up[c], 1) = <<>>
    BY <1>3, <1>4, <1>5, OthersAre
  <2>4. QED
    BY <1>0, <1>4, <1>5, <1>7, <2>1, <2>2, <2>3
<1>9. CASE asked = "get"
  <2>1. m.type = "GetSubscription" /\ m.checksum = cache.checksum
    BY <1>3, <1>9 DEF IsRequest
  <2>2. Server!HandleGet(c, m.checksum)
    BY <1>8, <2>1 DEF HandleMessage
  <2> DEFINE lookup == Server!Call("get", c, m.checksum, "get", None)
  <2>3. /\ Server!Await(lookup) /\ Server!SendNothing
        /\ UNCHANGED <<obs, subscription>>
    BY <2>2 DEF Server!HandleGet
  <2>4. lookup.who = c /\ lookup.checksum = cache.checksum /\ lookup.op = "get"
    BY <2>1 DEF Server!Call
  <2> HIDE DEF lookup
  <2>5. QED
    BY <1>0, <1>1, <1>3, <1>8, <1>9, <2>3, <2>4, AwaitMoves
<1>10. CASE asked # "get"
  <2>1. m.type = "Subscription" /\ m.checksum = cache.checksum
    BY <1>3, <1>10 DEF IsRequest
  <2>2. m.get \in {"sub", "both"}
    BY <1>7, <2>1 DEF CP!Asking
  <2>3. Server!HandleSubscribe(c, cache.checksum, m.get)
    BY <1>8, <2>1 DEF HandleMessage
  <2>4. CASE registered = None
    <3> DEFINE lookup == Server!Call("subscribe", c, cache.checksum, m.get, None)
    <3>1. /\ Server!Await(lookup) /\ Server!SendNothing
          /\ UNCHANGED <<obs, subscription>>
      BY <2>3, <2>4 DEF Server!HandleSubscribe
    <3>2. /\ lookup.who = c /\ lookup.checksum = cache.checksum /\ lookup.op = "subscribe"
          /\ lookup.get # "get"
      BY <2>2 DEF Server!Call
    <3> HIDE DEF lookup
    <3>3. QED
      BY <1>0, <1>1, <1>3, <1>8, <1>10, <3>1, <3>2, AwaitMoves
  <2>5. CASE registered # None
    <3>1. registered \in Instances /\ obs[registered] \in Server!Observable
      BY <1>0, <2>5 DEF Server!TypeOK
    <3>2. obs[registered].clients[c].get = "none"
      BY <1>3, <3>1 DEF NoEntryFor
    <3>3. Server!Enter(registered, obs[registered], c, cache.checksum, m.get)
          /\ UNCHANGED calls
      BY <2>3, <2>5, <3>2 DEF Server!HandleSubscribe
    <3>4. NoCallFor(c)'
      BY <1>1, <1>3, <3>3 DEF NoCallFor, Transmit
    <3>5. m.get = "get" <=> asked = "get"
      BY <1>10, <2>2
    <3>6. QED
      BY <1>0, <1>1, <1>3, <1>8, <2>2, <3>1, <3>2, <3>3, <3>4, <3>5, EnterMoves
  <2>6. QED
    BY <2>4, <2>5
<1>11. QED
  BY <1>9, <1>10

LEMMA ResumeMoves ==
    ASSUME LInv, connected, connection \notin closed, Followed(connection),
           Transmit, up' = up, NEW s \in Calls, calls[s].who = connection,
           Server!CreateFor(s) \/ Server!JoinForGet(s)
    PROVE  InChain' /\ Followed(connection)'
<1> DEFINE c == connection
<1>0. /\ SP!IInv /\ Server!TypeOK /\ WireOK /\ c \in Clients
      /\ cache.checksum \in Server!VersionOrNone
  BY SameServer
  DEF LInv, SP!IInv, WireOK, CP!IInv, CP!EntryTypeOK, CP!VersionOrNone,
      Server!VersionOrNone
<1>1. Awaited(c)
  BY DEF Followed, Coming, Entered, Told, Untouched, NoCallFor
<1>2. /\ down = <<>> /\ up'[c] = <<>> /\ NoEntryFor(c)
      /\ calls[s].checksum = cache.checksum
      /\ calls[s].op = IF asked = "get" THEN "get" ELSE "subscribe"
      /\ asked # "get" => calls[s].get # "get"
      /\ \A t \in Calls : calls[t].who = c => t = s
  BY <1>1 DEF Awaited
<1>3. calls[s] # Server!Idle
  BY <1>0, NobodyIs DEF Server!Idle, Server!Call
<1>4. calls[s].get \in {"sub", "get", "both"} /\ (calls[s].get = "get" <=> asked = "get")
  BY <1>0, <1>2, <1>3, CallsAre
<1>5. ASSUME Server!Finish(s) PROVE NoCallFor(c)'
  <2>1. \A t \in Calls : calls'[t].who # c
    BY <1>0, <1>2, <1>5, NobodyIs
    DEF Server!Finish, Server!Idle, Server!Call, Server!TypeOK
  <2>2. QED
    BY <2>1 DEF NoCallFor, Transmit
<1>6. CASE Server!CreateFor(s)
  <2>1. /\ Server!Finish(s)
        /\ \E i \in Instances, o \in Server!Observable :
             /\ \A e \in Clients : /\ obs[i].clients[e].get = "none"
                                   /\ o.clients[e].get = "none"
             /\ Server!Enter(i, o, calls[s].who, calls[s].checksum, calls[s].get)
    BY <1>0, <1>6, CreateIs
  <2>2. PICK i \in Instances, o \in Server!Observable :
             /\ o.clients[c].get = "none"
             /\ Server!Enter(i, o, c, cache.checksum, calls[s].get)
    BY <1>0, <1>2, <2>1
  <2>3. QED
    BY <1>0, <1>2, <1>4, <1>5, <2>1, <2>2, EnterMoves
<1>7. CASE Server!JoinForGet(s)
  <2>1. /\ registered \in Instances /\ obs[registered] \in Server!Observable
        /\ Server!Finish(s) /\ asked = "get"
    BY <1>0, <1>2, <1>7 DEF Server!JoinForGet, Server!TypeOK
  <2>2. obs[registered].clients[c].get = "none"
    BY <1>2, <2>1 DEF NoEntryFor
  <2>3. Server!Enter(registered, obs[registered], c, cache.checksum, "get")
    BY <1>2, <1>7, <2>2 DEF Server!JoinForGet
  <2>4. QED
    BY <1>0, <1>2, <1>5, <2>1, <2>2, <2>3, EnterMoves
<1>8. QED
  BY <1>6, <1>7
-----------------------------------------------------------------------------
(***************************************************************************)
(* Steps of the server keep the invariant.                                 *)
(***************************************************************************)
Leaves(c) == KeptFor(c) /\ up'[c] = up[c] /\ (c \in closed' => c \in closed)

LEMMA LeavesUntouched ==
    ASSUME NEW c \in Clients, Leaves(c), Untouched(c)
    PROVE  Untouched(c)'
BY DEF Leaves, KeptFor, Untouched, NoCallFor, NoEntryFor

LEMMA LeavesFollowed ==
    ASSUME SP!IInv, NEW c \in Clients, Leaves(c), UNCHANGED <<cache, asked, down>>,
           Followed(c)
    PROVE  Followed(c)'
<1>0. /\ subscription \in [Clients -> Instances \cup {None}]
      /\ subscription[c] # None => obs[subscription[c]].clients[c].get # "none"
  BY SameServer
  DEF SP!IInv, Server!TypeOK, Server!ListedHasEntry, Server!Subscribers
<1>1. NoCallFor(c) => NoCallFor(c)'
  BY DEF Leaves, KeptFor, NoCallFor
<1>2. NoEntryFor(c) => NoEntryFor(c)'
  BY DEF Leaves, KeptFor, NoEntryFor
<1>3. up'[c] = up[c]
  BY DEF Leaves
<1>4. CASE Coming(c)
  BY <1>1, <1>2, <1>3, <1>4 DEF Coming, IsRequest, Followed
<1>5. CASE Awaited(c)
  <2>1. Awaited(c)'
    BY <1>2, <1>3, <1>5 DEF Awaited, Leaves, KeptFor
  <2>2. QED
    BY <2>1 DEF Followed
<1>6. CASE Entered(c)
  <2>1. /\ subscription'[c] = subscription[c] /\ subscription[c] \in Instances
        /\ obs'[subscription[c]].clients[c] = obs[subscription[c]].clients[c]
        /\ \A i \in Instances : obs'[i].clients[c].get = obs[i].clients[c].get
    BY <1>0, <1>6 DEF Entered, Leaves, KeptFor
  <2>2. Latest' = Latest
    BY DEF Latest
  <2>3. Entered(c)'
    BY <1>1, <1>3, <1>6, <2>1, <2>2 DEF Entered
  <2>4. QED
    BY <2>3 DEF Followed
<1>7. CASE Told(c)
  BY <1>7, LeavesUntouched DEF Told, Followed
<1>8. QED
  BY <1>4, <1>5, <1>6, <1>7 DEF Followed

\* It is enough to know what becomes of the connections that are to come, and
\* of the one in use.
LEMMA ServerMoves ==
    ASSUME LInv, SInv, Transmit, closed \subseteq closed',
           \A c \in Clients : c > connection => Leaves(c),
           connected /\ connection \in closed' => sent'[connection] = NoMsg,
           connected /\ connection \notin closed' =>
                \/ Leaves(connection)
                \/ /\ ~Untouched(connection)
                   /\ InChain /\ Followed(connection) =>
                            InChain' /\ Followed(connection)'
    PROVE  SInv'
<1>0. /\ UNCHANGED clientVars /\ UNCHANGED connection
      /\ SP!IInv /\ (connected => connection \in Clients)
      /\ asked # "nothing" => connected
  BY DEF Transmit, LInv, WireOK, CP!QInv
<1>1. UNCHANGED <<cache, asked, connected, cnt, subscribers, call, queue>>
  BY <1>0 DEF clientVars
<1>2. OneCaller' /\ QueueIs' /\ CacheIsGenuine'
  BY <1>1
  DEF SInv, OneCaller, QueueIs, CacheIsGenuine, IsRequest, Client!OnlyGets,
      Client!Occupied, Client!Slots
<1>3. connected /\ sent'[connection] = NoMsg => down' = down
  BY Sends
<1>4. ASSUME connected, connection \notin closed', Untouched(connection)
      PROVE  Untouched(connection)' /\ down' = down
  <2>1. Leaves(connection)
    BY <1>4
  <2>2. sent'[connection] = NoMsg
    BY <2>1 DEF Leaves, KeptFor
  <2>3. Untouched(connection)'
    BY <1>0, <1>4, <2>1, LeavesUntouched DEF Untouched, NoCallFor, NoEntryFor
  <2>4. QED
    BY <1>3, <1>4, <2>2, <2>3
<1>5. asked' = "nothing" => down' = <<>>
  <2>1. ASSUME asked' = "nothing" PROVE down' = <<>>
    <3>1. asked = "nothing" /\ down = <<>>
      BY <1>1, <2>1 DEF SInv
    <3>2. CASE ~connected
      BY <3>1, <3>2 DEF Transmit
    <3>3. CASE connected /\ connection \in closed'
      BY <1>3, <3>1, <3>3
    <3>4. CASE connected /\ connection \notin closed'
      <4>1. Untouched(connection)
        BY <3>1, <3>4 DEF SInv
      <4>2. QED
        BY <1>4, <3>1, <3>4, <4>1
    <3>5. QED
      BY <3>2, <3>3, <3>4
  <2>2. QED
    BY <2>1
<1>6. (\A c \in Clients : c > connection => c \notin closed /\ Untouched(c))'
  <2>1. ASSUME NEW c \in Clients, c > connection
        PROVE  c \notin closed' /\ Untouched(c)'
    <3>1. Leaves(c) /\ Untouched(c) /\ c \notin closed
      BY <2>1 DEF SInv
    <3>2. QED
      BY <3>1, LeavesUntouched DEF Leaves
  <2>2. QED
    BY <1>0, <2>1 DEF Clients
<1>7. (connected /\ asked = "nothing" /\ connection \notin closed => Untouched(connection))'
  <2>1. ASSUME connected, asked = "nothing", connection \notin closed'
        PROVE  Untouched(connection)'
    <3>1. Untouched(connection)
      BY <2>1 DEF SInv
    <3>2. QED
      BY <1>4, <2>1, <3>1
  <2>2. QED
    BY <1>0, <1>1, <2>1
<1>8. (cnt = 1 /\ asked # "nothing" =>
            InChain /\ (connection \notin closed => Followed(connection)))'
  <2>1. ASSUME cnt = 1, asked # "nothing"
        PROVE  InChain' /\ (connection \notin closed' => Followed(connection)')
    <3>1. connected /\ InChain /\ (connection \notin closed => Followed(connection))
      BY <1>0, <2>1 DEF SInv
    <3>2. down' = down => InChain'
      BY <1>1, <3>1 DEF InChain, Before, Fits
    <3>3. CASE connection \in closed'
      BY <1>3, <3>1, <3>2, <3>3
    <3>4. CASE connection \notin closed' /\ Leaves(connection)
      <4>1. down' = down
        BY <1>3, <3>1, <3>4 DEF Leaves, KeptFor
      <4>2. Followed(connection)
        BY <3>1, <3>4
      <4>3. Followed(connection)'
        <5> DEFINE c == connection
        <5>1. c \in Clients /\ Leaves(c) /\ Followed(c)
          BY <1>0, <3>1, <3>4, <4>2
        <5>2. Followed(c)'
          BY <1>0, <1>1, <4>1, <5>1, LeavesFollowed
          DEF Followed, Coming, Awaited, Entered, Told, Untouched, NoCallFor,
              NoEntryFor
        <5>3. QED
          BY <5>2
      <4>4. QED
        BY <3>2, <4>1, <4>3
    <3>5. CASE connection \notin closed' /\ ~Leaves(connection)
      BY <3>1, <3>5
    <3>6. QED
      BY <3>3, <3>4, <3>5
  <2>2. QED
    BY <1>0, <1>1, <2>1
<1>9. QED
  BY <1>2, <1>5, <1>6, <1>7, <1>8 DEF SInv

LEMMA HandleSInv ==
    ASSUME LInv, SInv, NEW d \in Clients, Handle(d)
    PROVE  SInv'
<1>0. /\ Server!TypeOK /\ WireOK /\ SP!IInv
      /\ (connected => connection \in Clients)
  BY SameServer DEF LInv, SP!IInv, WireOK
<1>1. up[d] # <<>> /\ Transmit
  BY DEF Handle
<1>2. /\ closed' = closed
      /\ \/ \E k, get : Server!HandleSubscribe(d, k, get)
         \/ \E k : Server!HandleGet(d, k)
         \/ Server!HandleUnsubscribe(d) \/ Server!HandleSendData(d) \/ Ignore
  BY DEF Handle, HandleMessage, Server!HandleSubscribe, Server!HandleGet, Server!HandleUnsubscribe,
     Server!HandleSendData, Ignore, serverState
<1>3. ASSUME NEW c \in Clients, c # d PROVE Leaves(c)
  <2>1. KeptFor(c)
    BY <1>0, <1>2, <1>3, HandlersKeep
  <2>2. up'[c] = up[c]
    BY <1>0, <1>3 DEF Handle, WireOK
  <2>3. QED
    BY <1>2, <2>1, <2>2 DEF Leaves
<1>4. \A c \in Clients : c > connection => Leaves(c)
  <2>1. \A c \in Clients : c > connection => up[c] = <<>>
    BY DEF SInv, Untouched
  <2>2. QED
    BY <1>1, <1>3, <2>1
<1>5. connected /\ connection \in closed' => sent'[connection] = NoMsg
  BY <1>0, <1>2, NoMsgIs
  DEF Server!HandleSubscribe, Server!HandleGet, Server!HandleUnsubscribe,
      Server!HandleSendData, Server!Enter, Server!Reflag, Server!SendTo,
      Server!SendNothing, Server!Receivers, Ignore
<1>6. ASSUME connected, connection \notin closed'
      PROVE  \/ Leaves(connection)
             \/ /\ ~Untouched(connection)
                /\ InChain /\ Followed(connection) => InChain' /\ Followed(connection)'
  <2>1. CASE connection = d
    <3>1. ~Untouched(connection) /\ Handle(connection)
      BY <1>1, <2>1 DEF Untouched
    <3>2. Followed(connection) => InChain' /\ Followed(connection)'
      BY <1>2, <1>6, <3>1, HandleMoves
    <3>3. QED
      BY <3>1, <3>2
  <2>2. CASE connection # d
    BY <1>0, <1>3, <1>6, <2>2
  <2>3. QED
    BY <2>1, <2>2
<1>7. QED
  BY <1>1, <1>2, <1>4, <1>5, <1>6, ServerMoves

LEMMA ServerCloseSInv ==
    ASSUME LInv, SInv, NEW d \in Clients, ServerClose(d)
    PROVE  SInv'
<1>0. /\ Server!TypeOK /\ WireOK
      /\ connection \in Nat /\ (connected => connection \in Clients)
  BY SameServer DEF LInv, SP!IInv, WireOK
<1>1. /\ d <= connection /\ Transmit /\ Server!Close(d)
      /\ closed' = closed \cup {d}
      /\ \A c \in Clients : c # d => up'[c] = up[c]
  BY <1>0 DEF ServerClose, Server!Close, WireOK
<1>2. ASSUME NEW c \in Clients, c # d PROVE Leaves(c)
  <2>1. KeptFor(c)
    BY <1>0, <1>1, <1>2, HandlersKeep
  <2>2. QED
    BY <1>0, <1>1, <1>2, <2>1 DEF Leaves, WireOK
<1>3. \A c \in Clients : c > connection => Leaves(c)
  BY <1>0, <1>1, <1>2 DEF Clients
<1>4. connected => sent'[connection] = NoMsg
  BY <1>0, <1>1, SendToNobody DEF Server!Close
<1>5. connected /\ connection \notin closed' => Leaves(connection)
  BY <1>0, <1>1, <1>2
<1>6. closed \subseteq closed'
  BY <1>1
<1>7. QED
  BY <1>1, <1>3, <1>4, <1>5, <1>6, ServerMoves

LEMMA ResumeSInv ==
    ASSUME LInv, SInv, Resume
    PROVE  SInv'
<1>0. /\ Server!TypeOK /\ WireOK /\ SP!IInv
      /\ (connected => connection \in Clients)
  BY SameServer DEF LInv, SP!IInv, WireOK
<1>1. Transmit /\ up' = up
  BY DEF Resume
<1>2. PICK s \in Calls : Server!CreateFor(s) \/ Server!JoinForGet(s)
  BY DEF Resume
<1>3. closed' = closed
  BY <1>2 DEF Server!CreateFor, Server!JoinForGet
<1>4. ASSUME NEW c \in Clients, calls[s].who # c PROVE Leaves(c)
  <2>1. KeptFor(c)
    BY <1>0, <1>2, <1>4, ResumeKeeps
  <2>2. QED
    BY <1>1, <1>3, <2>1 DEF Leaves
<1>5. \A c \in Clients : c > connection => Leaves(c)
  <2>1. \A c \in Clients : c > connection => calls[s].who # c
    BY DEF SInv, Untouched, NoCallFor
  <2>2. QED
    BY <1>4, <2>1
<1>6. ASSUME connected, connection \in closed' PROVE sent'[connection] = NoMsg
  <2>1. CASE Server!CreateFor(s)
    <3>1. PICK i \in Instances, o \in Server!Observable :
            Server!Enter(i, o, calls[s].who, calls[s].checksum, calls[s].get)
      BY <1>0, <2>1, CreateIs
    <3>2. QED
      BY <1>0, <1>3, <1>6, <3>1, SendToOther DEF Server!Enter
  <2>2. CASE Server!JoinForGet(s)
    <3>1. CASE Server!Enter(registered, obs[registered], calls[s].who,
                            calls[s].checksum, "get")
      BY <1>0, <1>3, <1>6, <3>1, SendToOther DEF Server!Enter
    <3>2. CASE Server!Reflag(registered, calls[s].who, "both")
      BY <1>0, <1>6, <3>2, SendToNobody DEF Server!Reflag
    <3>3. QED
      BY <2>2, <3>1, <3>2 DEF Server!JoinForGet
  <2>3. QED
    BY <1>2, <2>1, <2>2
<1>7. ASSUME connected, connection \notin closed'
      PROVE  \/ Leaves(connection)
             \/ /\ ~Untouched(connection)
                /\ InChain /\ Followed(connection) => InChain' /\ Followed(connection)'
  <2>1. CASE calls[s].who = connection
    <3>1. ~Untouched(connection)
      BY <2>1 DEF Untouched, NoCallFor
    <3>2. Followed(connection) => InChain' /\ Followed(connection)'
      BY <1>1, <1>2, <1>3, <1>7, <2>1, ResumeMoves
    <3>3. QED
      BY <3>1, <3>2
  <2>2. CASE calls[s].who # connection
    BY <1>0, <1>4, <1>7, <2>2
  <2>3. QED
    BY <2>1, <2>2
<1>8. QED
  BY <1>1, <1>3, <1>5, <1>6, <1>7, ServerMoves

LEMMA PublishSInv ==
    ASSUME LInv, SInv, Publish
    PROVE  SInv'
<1>0. /\ Server!TypeOK /\ WireOK /\ SP!IInv
      /\ (connected => connection \in Clients)
      /\ obs \in [Instances -> Server!Observable]
  BY SameServer DEF LInv, SP!IInv, WireOK, Server!TypeOK
<1>1. Transmit /\ up' = up
  BY DEF Publish
<1>2. PICK i \in Instances, v \in Versions, patched \in BOOLEAN :
        Server!Update(i, v, patched)
  BY DEF Publish
<1>3. closed' = closed
  BY <1>2 DEF Server!Update
<1>4. ASSUME NEW c \in Clients, obs[i].clients[c].get = "none" PROVE Leaves(c)
  <2>1. KeptFor(c)
    BY <1>0, <1>2, <1>4, UpdateKeeps
  <2>2. QED
    BY <1>1, <1>3, <2>1 DEF Leaves
<1>5. \A c \in Clients : c > connection => Leaves(c)
  <2>1. \A c \in Clients : c > connection => obs[i].clients[c].get = "none"
    BY DEF SInv, Untouched, NoEntryFor
  <2>2. QED
    BY <1>4, <2>1
<1>6. ASSUME connected, connection \in closed' PROVE sent'[connection] = NoMsg
  <2>1. obs[i].listeners = {}
    BY <1>0 DEF Server!Observable
  <2>2. QED
    BY <1>0, <1>2, <1>3, <1>6, <2>1, NoMsgIs DEF Server!Update, Server!Receivers
<1>7. ASSUME connected, connection \notin closed'
      PROVE  \/ Leaves(connection)
             \/ /\ ~Untouched(connection)
                /\ InChain /\ Followed(connection) => InChain' /\ Followed(connection)'
  <2>1. CASE obs[i].clients[connection].get # "none"
    <3>1. ~Untouched(connection)
      BY <2>1 DEF Untouched, NoEntryFor
    <3>2. InChain /\ Followed(connection) => InChain' /\ Followed(connection)'
      BY <1>0, <1>1, <1>2, <1>3, <1>7, <2>1, UpdateMoves
    <3>3. QED
      BY <3>1, <3>2
  <2>2. CASE obs[i].clients[connection].get = "none"
    BY <1>0, <1>4, <1>7, <2>2
  <2>3. QED
    BY <2>1, <2>2
<1>8. QED
  BY <1>1, <1>3, <1>5, <1>6, <1>7, ServerMoves

LEMMA RemoveTimeoutSInv ==
    ASSUME LInv, SInv, RemoveTimeout
    PROVE  SInv'
<1>0. Server!TypeOK /\ (connected => connection \in Clients)
  BY SameServer DEF LInv, SP!IInv, WireOK
<1>1. Transmit /\ up' = up
  BY DEF RemoveTimeout
<1>2. PICK i \in Instances : Server!RemoveTimeout(i)
  BY DEF RemoveTimeout
<1>3. closed' = closed
  BY <1>2 DEF Server!RemoveTimeout
<1>4. \A c \in Clients : Leaves(c)
  BY <1>0, <1>1, <1>2, <1>3, RemoveTimeoutKeeps DEF Leaves
<1>5. connected => sent'[connection] = NoMsg
  BY <1>0, <1>4 DEF Leaves, KeptFor
<1>6. QED
  BY <1>0, <1>1, <1>3, <1>4, <1>5, ServerMoves
-----------------------------------------------------------------------------
(***************************************************************************)
(* Steps of the program.                                                   *)
(***************************************************************************)
\* The queue of the program, whatever module it is written in.
LEMMA QueueFacts ==
    ASSUME NEW q \in Seq(CP!Asking), NEW types
    PROVE  /\ (\A j \in DOMAIN q : q[j].type \in types) => Client!Without(q, types) = <<>>
           /\ Len(q) = 1 /\ q[1].type \notin types => Client!Without(q, types) = q
<1> DEFINE w == CP!Without(q, types)
<1>0. Client!Without(q, types) = w
  BY Zenon DEF Client!Without, CP!Without
<1> HIDE DEF w
<1>1. /\ w \in Seq(CP!Asking)
      /\ \A t : CP!Positions(w, t) # {} <=> (t \notin types /\ CP!Positions(q, t) # {})
  BY Assumed, NoneIsNoVersion, CP!WithoutIs DEF w
<1>2. ASSUME \A j \in DOMAIN q : q[j].type \in types PROVE w = <<>>
  <2>1. ASSUME w # <<>> PROVE FALSE
    <3>1. 1 \in DOMAIN w
      BY <1>1, <2>1
    <3>2. CP!Positions(w, w[1].type) # {}
      BY <3>1 DEF CP!Positions
    <3>3. w[1].type \notin types /\ CP!Positions(q, w[1].type) # {}
      BY <1>1, <3>2
    <3>4. QED
      BY <1>2, <3>3 DEF CP!Positions
  <2>2. QED
    BY <2>1
<1>3. Len(q) = 1 /\ q[1].type \notin types => w = q
  BY Assumed, NoneIsNoVersion, CP!WithoutOne DEF w
<1>4. QED
  BY <1>0, <1>2, <1>3

LEMMA EmptyStays ==
    ASSUME NEW types, queue \in Seq(CP!Asking), queue = <<>>
    PROVE  Client!Without(queue, types) = <<>>
<1>1. \A j \in DOMAIN queue : queue[j].type \in types
  <2>1. DOMAIN queue = 1..0
    OBVIOUS
  <2>2. QED
    BY <2>1
<1>2. QED
  BY <1>1, QueueFacts

\* The facts about the client that the proofs below use.
LEMMA ClientFacts ==
    ASSUME LInv
    PROVE  /\ queue \in Seq(CP!Asking)
           /\ asked # "nothing" => connected
           /\ draining => connected
           /\ subscribers \in [1..MaxSlot -> [caller : Callers \cup {None},
                                              onData : BOOLEAN, onInitial : BOOLEAN]]
           /\ call \in [Callers -> {"idle", "get", "observe", "open"}]
           /\ handle \in [Callers -> 0..MaxSlot]
           /\ cache \in [value : Server!VersionOrNone, checksum : Server!VersionOrNone]
           /\ Client!HandlesMatch
<1>1. CP!EntryTypeOK /\ CP!QInv /\ CP!HandlesMatch
  BY DEF LInv, CP!IInv
<1>2. Client!HandlesMatch
  BY <1>1, SameClient
<1>3. QED
  BY <1>1, <1>2
  DEF CP!EntryTypeOK, CP!QInv, CP!Slots, CP!VersionOrNone, Server!VersionOrNone

\* The caller is at the one slot that is taken, and waits for what the
\* subscriber says.
LEMMA TheCaller ==
    ASSUME LInv, SInv, Steady, cnt = 1, NEW p \in Callers
    PROVE  /\ 1 \in 1..MaxSlot /\ Client!Occupied = {1}
           /\ subscribers[1].caller = p /\ handle[p] = 1
           /\ subscribers[1].onData \/ subscribers[1].onInitial
           /\ call[p] = IF ~subscribers[1].onData THEN "get"
                        ELSE IF subscribers[1].onInitial THEN "observe" ELSE "open"
<1>1. Client!Occupied = {1}
  BY DEF SInv, OneCaller
<1>2. 1 \in 1..MaxSlot /\ subscribers[1].caller # None
  BY <1>1 DEF Client!Occupied, Client!Slots
<1>3. subscribers[1].caller \in Callers
  BY <1>2, ClientFacts
<1>4. subscribers[1].caller = p
  BY <1>3 DEF Steady
<1>5. Client!HandlesMatch
  BY ClientFacts
<1>6. QED
  BY <1>1, <1>2, <1>4, <1>5 DEF Client!HandlesMatch

\* A step that leaves the connection and the server as they are leaves the
\* connections that are to come, and the one in use as long as it asked for
\* nothing.
LEMMA OthersStay ==
    ASSUME SInv, UNCHANGED <<serverState, up, connection>>,
           UNCHANGED <<connected, asked>>, asked = "nothing" => down' = <<>>,
           OneCaller', QueueIs', CacheIsGenuine',
           cnt' = 1 /\ asked # "nothing" =>
                InChain' /\ (connection \notin closed => Followed(connection)')
    PROVE  SInv'
<1>1. \A c : Untouched(c) => Untouched(c)'
  BY DEF Untouched, NoCallFor, NoEntryFor, serverState
<1>2. closed' = closed
  BY DEF serverState
<1>3. (\A c \in Clients : c > connection => c \notin closed /\ Untouched(c))'
  BY <1>1, <1>2 DEF SInv, Clients
<1>4. (connected /\ asked = "nothing" /\ connection \notin closed => Untouched(connection))'
  BY <1>1, <1>2 DEF SInv, Untouched, NoCallFor, NoEntryFor, serverState
<1>5. (cnt = 1 /\ asked # "nothing" =>
            InChain /\ (connection \notin closed => Followed(connection)))'
  BY <1>2
<1>6. QED
  BY <1>3, <1>4, <1>5 DEF SInv

\* The caller joins an entry that is not there: it gets slot 1.
LEMMA JoinMoves ==
    ASSUME LInv, SInv, Steady, cnt = 0, NEW p \in Callers, NEW onData \in BOOLEAN,
           NEW onInitial \in BOOLEAN, Client!Join(p, onData, onInitial)
    PROVE  /\ cnt' = 1 /\ Client!Occupied' = {1}
           /\ subscribers'[1].onData = onData
<1>1. /\ cnt' = 1 /\ 0 < MaxSlot
      /\ subscribers' = [subscribers EXCEPT ![1] = Client!Subscriber(p, onData, onInitial)]
      /\ Client!Occupied = {}
  BY DEF Client!Join, SInv, OneCaller
<1>2. 1 \in 1..MaxSlot /\ p # None
  BY <1>1, BoundsAreNumbers, NoneIsNobody
<1>3. subscribers'[1] = [caller |-> p, onData |-> onData, onInitial |-> onInitial]
      /\ \A s \in 1..MaxSlot : s # 1 => subscribers'[s] = subscribers[s]
  BY <1>1, <1>2, ClientFacts DEF Client!Subscriber
<1>4. Client!Occupied' = {1}
  BY <1>1, <1>2, <1>3 DEF Client!Occupied, Client!Slots
<1>5. QED
  BY <1>1, <1>3, <1>4

\* A call that needs the server asks for the entry and nothing else.
LEMMA PushMoves ==
    ASSUME NEW m, Client!Push(<<>>, m), IsRequest(m, FALSE) \/ IsRequest(m, TRUE),
           cache' = cache
    PROVE  /\ Len(queue') = 1 /\ queue'[1] = m
           /\ IsRequest(m, FALSE) => IsRequest(queue[1], FALSE)'
           /\ IsRequest(m, TRUE) => IsRequest(queue[1], TRUE)'
<1>1. queue' = <<m>>
  BY DEF Client!Push
<1>2. QED
  BY <1>1 DEF IsRequest

LEMMA OpenSInv ==
    ASSUME LInv, SInv, Steady, NEW p \in Callers, cnt = 0, asked = "nothing",
           Client!Observe(p) \/ Client!GetWaiting(p), Ignore,
           UNCHANGED <<connection, up, down>>
    PROVE  SInv'
<1>0. /\ UNCHANGED <<connected, cache, asked>> /\ UNCHANGED serverState
      /\ queue \in Seq(CP!Asking)
      /\ \A j \in DOMAIN queue : queue[j].type = "Unsubscribe"
      /\ down = <<>>
  BY ClientFacts
  DEF Client!Observe, Client!GetWaiting, Ignore, SInv, QueueIs
<1>1. \A types : "Unsubscribe" \in types => Client!Without(queue, types) = <<>>
  BY <1>0, QueueFacts
<1>2. cnt' = 1 /\ Client!Occupied' = {1}
      /\ Len(queue') = 1
      /\ (IsRequest(queue[1], Client!OnlyGets) \/ IsRequest(queue[1], FALSE))'
  <2>1. CASE Client!Observe(p)
    <3> DEFINE hit == cache # Client!NoCache
               m == Client!SubscribeMsg(cache.checksum, IF hit THEN "both" ELSE "sub")
    <3>1. Client!Join(p, TRUE, ~hit) /\ Client!Push(<<>>, m)
      BY <1>1, <2>1 DEF Client!Observe
    <3>2. cnt' = 1 /\ Client!Occupied' = {1}
      BY <3>1, JoinMoves
    <3>3. IsRequest(m, FALSE)
      BY DEF IsRequest, Client!SubscribeMsg, Client!Request
    <3> HIDE DEF m, hit
    <3>4. QED
      BY <1>0, <3>1, <3>2, <3>3, PushMoves
  <2>2. CASE Client!GetWaiting(p)
    <3> DEFINE m == Client!GetMsg(cache.checksum)
    <3>1. ~Client!Queued("GetSubscription")
      BY <1>0 DEF Client!Queued, Client!Positions
    <3>2. Client!Join(p, FALSE, TRUE) /\ Client!Push(<<>>, m)
      BY <1>1, <2>2, <3>1 DEF Client!GetWaiting
    <3>3. cnt' = 1 /\ Client!Occupied' = {1} /\ subscribers'[1].onData = FALSE
      BY <3>2, JoinMoves
    <3>4. Client!OnlyGets'
      BY <3>3 DEF Client!OnlyGets
    <3>5. IsRequest(m, TRUE)
      BY DEF IsRequest, Client!GetMsg, Client!Request
    <3> HIDE DEF m
    <3>6. Len(queue') = 1 /\ IsRequest(queue[1], TRUE)'
      BY <1>0, <3>2, <3>5, PushMoves
    <3>7. IsRequest(queue[1], Client!OnlyGets)'
      BY <3>4, <3>6 DEF IsRequest
    <3>8. QED
      BY <3>3, <3>6, <3>7
  <2>3. QED
    BY <2>1, <2>2
<1>3. OneCaller' /\ CacheIsGenuine'
  BY <1>0, <1>2 DEF OneCaller, CacheIsGenuine, SInv
<1>4. QueueIs'
  BY <1>0, <1>2 DEF QueueIs, IsRequest
<1>5. QED
  BY <1>0, <1>3, <1>4, OthersStay

\* What the queue holds when the last subscriber leaves is withdrawn.
LEMMA LeaveMoves ==
    ASSUME queue \in Seq(CP!Asking),
           \A j \in DOMAIN queue : queue[j].type = "Subscription",
           Client!PushUnsubscribe
    PROVE  \A j \in DOMAIN queue' : queue'[j].type = "Unsubscribe"
<1>1. Client!Without(queue, {"Subscription", "SendSubscriptionData"}) = <<>>
  BY QueueFacts
<1>2. ~Client!Queued("Unsubscribe")
  BY DEF Client!Queued, Client!Positions
<1>3. queue' = <<Client!UnsubscribeMsg>>
  BY <1>1, <1>2 DEF Client!PushUnsubscribe, Client!Push
<1>4. QED
  BY <1>3 DEF Client!UnsubscribeMsg, Client!Request

LEMMA OneIs == Client!Cardinality({1}) = 1 /\ Client!Cardinality({}) = 0
<1>1. Cardinality({1}) = 1 /\ Cardinality({}) = 0
  BY FS_Singleton, FS_EmptySet
<1>2. Client!Cardinality({1}) = Cardinality({1})
  BY Zenon DEF Client!Cardinality, Cardinality
<1>3. Client!Cardinality({}) = Cardinality({})
  BY Zenon DEF Client!Cardinality, Cardinality
<1>4. QED
  BY <1>1, <1>2, <1>3

LEMMA CloseSInv ==
    ASSUME LInv, SInv, Steady, NEW p \in Callers, Client!Close(p), Ignore,
           UNCHANGED <<connection, up, down>>
    PROVE  SInv'
<1>0. /\ UNCHANGED <<connected, cache, asked>> /\ UNCHANGED serverState
      /\ queue \in Seq(CP!Asking)
      /\ call[p] = "open" /\ cnt = 1
  BY ClientFacts DEF Client!Close, Ignore, SInv, OneCaller
<1>1. /\ 1 \in 1..MaxSlot /\ Client!Occupied = {1} /\ handle[p] = 1
      /\ subscribers[1].onData
  BY <1>0, TheCaller
<1>2. /\ call' = [call EXCEPT ![p] = "idle"]
      /\ subscribers' = [s \in 1..MaxSlot |->
                            IF s = 1 THEN Client!Vacant ELSE subscribers[s]]
      /\ Client!Release({1})
  BY <1>1 DEF Client!Close, Client!Slots
<1>3. cnt' = 0 /\ Client!PushUnsubscribe
  BY <1>0, <1>2, OneIs DEF Client!Release
<1>4. Client!Occupied' = {}
  BY <1>1, <1>2 DEF Client!Occupied, Client!Slots, Client!Vacant, Client!Subscriber
<1>5. \A q \in Callers : call'[q] = "idle"
  BY <1>2, ClientFacts DEF Steady
<1>6. \A j \in DOMAIN queue : queue[j].type = "Subscription"
  <2>1. CASE queue = <<>>
    BY <2>1
  <2>2. CASE Len(queue) = 1 /\ (IsRequest(queue[1], Client!OnlyGets) \/ IsRequest(queue[1], FALSE))
    <3>1. ~Client!OnlyGets
      BY <1>1 DEF Client!OnlyGets
    <3>2. queue[1].type = "Subscription"
      BY <2>2, <3>1 DEF IsRequest
    <3>3. QED
      BY <1>0, <2>2, <3>2
  <2>3. QED
    BY <1>0, <2>1, <2>2 DEF SInv, QueueIs
<1>7. \A j \in DOMAIN queue' : queue'[j].type = "Unsubscribe"
  BY <1>0, <1>3, <1>6, LeaveMoves
<1>8. OneCaller' /\ CacheIsGenuine' /\ QueueIs'
  BY <1>0, <1>3, <1>4, <1>5, <1>7 DEF OneCaller, CacheIsGenuine, QueueIs, SInv
<1>9. QED
  BY <1>0, <1>3, <1>8, OthersStay DEF SInv

LEMMA CallSInv ==
    ASSUME LInv, SInv, Steady, CallClient
    PROVE  SInv'
<1>1. PICK p \in Callers : \/ Client!Observe(p) \/ Client!GetFromCache(p)
                           \/ Client!GetWaiting(p) \/ Client!Close(p)
  BY DEF CallClient
<1>2. Ignore /\ UNCHANGED <<connection, up, down>>
  BY DEF CallClient
<1>3. cnt = 0 => asked = "nothing"
  BY DEF CallClient, Steady
<1>4. CASE Client!Close(p)
  BY <1>2, <1>4, CloseSInv
<1>5. CASE Client!Observe(p) \/ Client!GetFromCache(p) \/ Client!GetWaiting(p)
  <2>1. call[p] = "idle"
    BY <1>5 DEF Client!Observe, Client!GetFromCache, Client!GetWaiting
  <2>2. cnt # 1
    BY <2>1, TheCaller
  <2>3. cnt = 0 /\ asked = "nothing"
    BY <1>3, <2>2 DEF SInv, OneCaller
  <2>4. Client!Observe(p) \/ Client!GetWaiting(p)
    BY <1>5, <2>3 DEF Client!GetFromCache
  <2>5. QED
    BY <1>2, <2>3, <2>4, OpenSInv
<1>6. QED
  BY <1>1, <1>4, <1>5

LEMMA ChainShifts ==
    ASSUME InChain, down \in Seq(Answers), down # <<>>, down' = Tail(down),
           cache'.checksum = Head(down).checksum
    PROVE  InChain' /\ Latest' = Latest
<1> DEFINE l == Len(down)
<1>1. /\ l \in Nat \ {0} /\ Head(down) = down[1] /\ DOMAIN down = 1..l
      /\ down' \in Seq(Answers) /\ Len(down') = l - 1
      /\ \A j \in 1..(l - 1) : down'[j] = down[j + 1]
  BY HeadTailProperties
<1>2. ASSUME NEW j \in DOMAIN down' PROVE Fits(Before(j), down[j])'
  <2>1. j \in 1..(l - 1) /\ j + 1 \in 1..l
    BY <1>1, <1>2
  <2>2. Before(j)' = Before(j + 1)
    <3>1. CASE j = 1
      BY <1>1, <2>1, <3>1 DEF Before
    <3>2. CASE j # 1
      <4>1. j - 1 \in 1..(l - 1) /\ (j - 1) + 1 = j /\ j + 1 # 1 /\ (j + 1) - 1 = j
        BY <1>1, <2>1, <3>2
      <4>2. down'[j - 1] = down[j]
        BY <1>1, <4>1
      <4>3. QED
        BY <3>2, <4>1, <4>2 DEF Before
    <3>3. QED
      BY <3>1, <3>2
  <2>3. Fits(Before(j + 1), down[j + 1])
    BY <1>1, <2>1 DEF InChain
  <2>4. down'[j] = down[j + 1]
    BY <1>1, <2>1
  <2>5. QED
    BY <2>2, <2>3, <2>4 DEF Fits
<1>3. Latest' = Latest
  <2>1. CASE l = 1
    <3>1. down' = <<>>
      BY <1>1, <2>1, EmptySeq
    <3>2. QED
      BY <1>1, <2>1, <3>1 DEF Latest
  <2>2. CASE l # 1
    <3>1. l - 1 \in 1..(l - 1) /\ (l - 1) + 1 = l /\ down' # <<>>
      <4>1. l - 1 \in 1..(l - 1) /\ (l - 1) + 1 = l /\ l - 1 # 0
        BY <1>1, <2>2
      <4>2. down' # <<>>
        BY <1>1, <4>1
      <4>3. QED
        BY <4>1, <4>2
    <3>2. down'[l - 1] = down[l]
      BY <1>1, <3>1
    <3>3. QED
      BY <1>1, <3>1, <3>2 DEF Latest
  <2>3. QED
    BY <2>1, <2>2
<1>4. QED
  BY <1>2, <1>3 DEF InChain

\* An answer that fits a genuine cache leaves a genuine cache at the version
\* of the answer, and settles the calls that wait for it.
LEMMA ReceiveMoves ==
    ASSUME LInv, CacheIsGenuine, cnt = 1, NEW m \in Answers, Fits(cache.checksum, m),
           Client!Receive(m)
    PROVE  /\ UNCHANGED <<connected, asked>>
           /\ Client!Settle(Client!Getters, "open")
           /\ cache'.checksum = m.checksum /\ CacheIsGenuine'
<1>1. /\ UNCHANGED <<connected, asked>>
      /\ Client!IncomingSubscription(m) \/ Client!IncomingSubscriptionDiff(m)
  BY DEF Client!Receive
<1>2. cache.value = cache.checksum
  BY DEF CacheIsGenuine
<1>3. m.type \in {"data", "same", "diff"}
  BY DEF Fits
<1>4. \/ Client!Confirm /\ m.checksum = cache.checksum
      \/ Client!Deliver(m.checksum, m.checksum)
  <2>1. CASE m.type \in {"data", "same"}
    BY <1>1, <2>1
    DEF Client!IncomingSubscription, Client!IncomingSubscriptionDiff, Fits
  <2>2. CASE m.type = "diff"
    <3>1. m.from = cache.checksum
      BY <2>2 DEF Fits
    <3>2. QED
      BY <1>1, <1>2, <2>2, <3>1
      DEF Client!IncomingSubscription, Client!IncomingSubscriptionDiff
  <2>3. QED
    BY <1>3, <2>1, <2>2
<1>5. CASE Client!Confirm /\ m.checksum = cache.checksum
  BY <1>1, <1>2, <1>5 DEF Client!Confirm, CacheIsGenuine
<1>6. CASE Client!Deliver(m.checksum, m.checksum)
  BY <1>1, <1>6 DEF Client!Deliver, Client!Cached, CacheIsGenuine
<1>7. QED
  BY <1>4, <1>5, <1>6

\* A get ends, an observer stays.
LEMMA SettleMoves ==
    ASSUME LInv, SInv, Steady, cnt = 1, asked # "nothing",
           Client!Settle(Client!Getters, "open")
    PROVE  /\ OneCaller'
           /\ \/ /\ cnt' = 0
                 /\ \A j \in DOMAIN queue' : queue'[j].type = "Unsubscribe"
              \/ cnt' = 1 /\ queue' = <<>> /\ ~Client!OnlyGets
<1>0. /\ queue = <<>> /\ queue \in Seq(CP!Asking)
      /\ subscribers \in [1..MaxSlot -> [caller : Callers \cup {None},
                                         onData : BOOLEAN, onInitial : BOOLEAN]]
      /\ call \in [Callers -> {"idle", "get", "observe", "open"}]
  BY ClientFacts DEF SInv, QueueIs
<1>1. 1 \in 1..MaxSlot /\ Client!Occupied = {1}
  BY DEF SInv, OneCaller, Client!Occupied, Client!Slots
<1>2. subscribers[1].caller \in Callers
  BY <1>0, <1>1 DEF Client!Occupied
<1>3. \A p \in Callers :
        /\ subscribers[1].caller = p
        /\ subscribers[1].onData \/ subscribers[1].onInitial
        /\ call[p] = IF ~subscribers[1].onData THEN "get"
                     ELSE IF subscribers[1].onInitial THEN "observe" ELSE "open"
  BY TheCaller
<1>4. /\ subscribers' = [s \in 1..MaxSlot |->
            IF s \in Client!Getters THEN Client!Vacant
            ELSE [subscribers[s] EXCEPT !.onInitial = FALSE]]
      /\ call' = [p \in Callers |->
            IF \A s \in Client!Pending : subscribers[s].caller # p THEN call[p]
            ELSE IF call[p] = "observe" THEN "open" ELSE "idle"]
      /\ Client!Release(Client!Getters)
  BY DEF Client!Settle, Client!Slots
<1>5. CASE ~subscribers[1].onData
  <2>1. Client!Pending = {1} /\ Client!Getters = {1}
    BY <1>1, <1>2, <1>3, <1>5 DEF Client!Pending, Client!Getters
  <2>2. cnt' = 0 /\ Client!PushUnsubscribe
    BY <1>4, <2>1, OneIs DEF Client!Release
  <2>3. \A j \in DOMAIN queue' : queue'[j].type = "Unsubscribe"
    BY <1>0, <2>2, LeaveMoves
  <2>4. Client!Occupied' = {}
    BY <1>0, <1>1, <1>4, <2>1
    DEF Client!Occupied, Client!Slots, Client!Vacant, Client!Subscriber
  <2>5. \A p \in Callers : call'[p] = "idle"
    BY <1>3, <1>4, <1>5, <2>1
  <2>6. OneCaller'
    BY <2>2, <2>4, <2>5 DEF OneCaller
  <2>7. QED
    BY <2>2, <2>3, <2>6
<1>6. CASE subscribers[1].onData
  <2>1. Client!Getters = {}
    BY <1>1, <1>6 DEF Client!Pending, Client!Getters
  <2>2. cnt' = 1 /\ queue' = <<>>
    BY <1>0, <1>4, <2>1, OneIs DEF Client!Release, Client!KeepQueue
  <2>3. Client!Occupied' = {1}
    BY <1>0, <1>1, <1>4, <2>1 DEF Client!Occupied, Client!Slots
  <2>4. ~Client!OnlyGets
    BY <1>1, <1>6 DEF Client!OnlyGets
  <2>5. OneCaller'
    BY <2>2, <2>3 DEF OneCaller
  <2>6. QED
    BY <2>2, <2>4, <2>5
<1>7. QED
  BY <1>5, <1>6

LEMMA ReceiveSInv ==
    ASSUME LInv, SInv, Steady, Receive
    PROVE  SInv'
<1> DEFINE m == Head(down)
<1>0. /\ down # <<>> /\ Client!Receive(m) /\ down' = Tail(down)
      /\ UNCHANGED serverState /\ UNCHANGED <<connection, up>>
      /\ down \in Seq(Answers) /\ asked # "nothing"
  BY DEF Receive, Ignore, LInv, WireOK, SInv
<1>1. CASE cnt = 0
  <2>1. UNCHANGED Client!vars
    BY <1>0, <1>1 DEF Client!Receive
  <2>2. UNCHANGED <<connected, asked, cnt, subscribers, call, queue, cache>>
    BY <2>1 DEF Client!vars
  <2>3. OneCaller' /\ QueueIs' /\ CacheIsGenuine'
    BY <1>1, <2>2
    DEF SInv, OneCaller, QueueIs, CacheIsGenuine, Client!Occupied, Client!Slots
  <2>4. QED
    BY <1>0, <1>1, <2>2, <2>3, OthersStay
<1>2. CASE cnt = 1
  <2>1. InChain /\ CacheIsGenuine /\ (connection \notin closed => Followed(connection))
    BY <1>0, <1>2 DEF SInv
  <2>2. m \in Answers /\ Fits(cache.checksum, m)
    <3>1. m = down[1] /\ m \in Answers /\ 1 \in DOMAIN down
      BY <1>0
    <3>2. QED
      BY <2>1, <3>1 DEF InChain, Before
  <2>3. /\ UNCHANGED <<connected, asked>>
        /\ Client!Settle(Client!Getters, "open")
        /\ cache'.checksum = m.checksum /\ CacheIsGenuine'
    BY <1>0, <1>2, <2>1, <2>2, ReceiveMoves
  <2>4. /\ OneCaller'
        /\ \/ /\ cnt' = 0
              /\ \A j \in DOMAIN queue' : queue'[j].type = "Unsubscribe"
           \/ cnt' = 1 /\ queue' = <<>> /\ ~Client!OnlyGets
    BY <1>0, <1>2, <2>3, SettleMoves
  <2>5. QueueIs'
    <3>1. asked' # "nothing"
      BY <1>0, <2>3
    <3>2. CASE cnt' = 0 /\ \A j \in DOMAIN queue' : queue'[j].type = "Unsubscribe"
      BY <3>2 DEF QueueIs
    <3>3. CASE cnt' = 1 /\ queue' = <<>>
      BY <3>1, <3>3 DEF QueueIs
    <3>4. QED
      BY <2>4, <3>2, <3>3
  <2>6. InChain' /\ Latest' = Latest
    BY <1>0, <2>1, <2>3, ChainShifts
  <2>7. ASSUME cnt' = 1, connection \notin closed PROVE Followed(connection)'
    <3>1. ~Client!OnlyGets /\ queue = <<>>
      BY <1>0, <1>2, <2>4, <2>7 DEF SInv, QueueIs
    <3>2. asked # "get"
      BY <1>0, <1>2, <3>1
      DEF LInv, CP!QInv, CP!EntryIsAsked, CP!Queued, CP!Positions, CP!OnlyGets,
          CP!Occupied, CP!Slots, Client!OnlyGets, Client!Occupied, Client!Slots
    <3>3. Entered(connection)
      BY <1>0, <2>1, <2>7, <3>2 DEF Followed, Coming, Awaited, Told
    <3>4. Entered(connection)'
      BY <1>0, <2>3, <2>6, <3>3 DEF Entered, NoCallFor, serverState
    <3>5. QED
      BY <3>4 DEF Followed
  <2>8. QED
    BY <1>0, <2>3, <2>4, <2>5, <2>6, <2>7, OthersStay
<1>3. QED
  BY <1>1, <1>2 DEF SInv, OneCaller

\* What a frame asks for.
LEMMA AskedIs ==
    ASSUME queue \in Seq(CP!Asking)
    PROVE  /\ queue = <<>> => Client!AskedAfter(queue) = asked
           /\ queue # <<>> /\ (\A j \in DOMAIN queue : queue[j].type = "Unsubscribe")
                => Client!AskedAfter(queue) = "stop"
           /\ Len(queue) = 1 /\ queue[1].type = "Subscription"
                => Client!AskedAfter(queue) = "sub"
           /\ Len(queue) = 1 /\ queue[1].type = "GetSubscription" /\ asked = "nothing"
                => Client!AskedAfter(queue) = "get"
<1> DEFINE P(type) == Client!Positions(queue, type)
           rest == {i \in DOMAIN queue : \A j \in P("Unsubscribe") : j < i}
<1>1. Client!AskedAfter(queue) =
        IF rest \cap P("Subscription") # {} \/ (asked = "sub" /\ P("Unsubscribe") = {})
        THEN "sub"
        ELSE IF rest \cap P("GetSubscription") # {} THEN "get"
        ELSE IF P("Unsubscribe") # {} THEN "stop" ELSE asked
  BY DEF Client!AskedAfter
<1>2. ASSUME queue = <<>> PROVE Client!AskedAfter(queue) = asked
  <2>1. \A t : P(t) = {}
    BY <1>2 DEF Client!Positions
  <2> HIDE DEF P, rest
  <2>2. QED
    BY <1>1, <2>1
<1>3. ASSUME queue # <<>>, \A j \in DOMAIN queue : queue[j].type = "Unsubscribe"
      PROVE  Client!AskedAfter(queue) = "stop"
  <2>1. P("Unsubscribe") # {}
    <3>1. 1 \in DOMAIN queue
      BY <1>3
    <3>2. QED
      BY <1>3, <3>1 DEF Client!Positions
  <2>2. P("Subscription") = {} /\ P("GetSubscription") = {}
    BY <1>3 DEF Client!Positions
  <2> HIDE DEF P, rest
  <2>3. QED
    BY <1>1, <2>1, <2>2
<1>4. ASSUME Len(queue) = 1, queue[1].type \in {"Subscription", "GetSubscription"}
      PROVE  P("Unsubscribe") = {} /\ rest = {1} /\ P(queue[1].type) = {1}
             /\ \A t : t # queue[1].type => P(t) = {}
  <2>1. DOMAIN queue = {1}
    BY <1>4
  <2>2. \A t : P(t) = IF queue[1].type = t THEN {1} ELSE {}
    BY <2>1 DEF Client!Positions
  <2>3. P("Unsubscribe") = {}
    BY <1>4, <2>2
  <2>4. rest = {1}
    BY <2>1, <2>3
  <2> HIDE DEF P, rest
  <2>5. QED
    BY <2>2, <2>3, <2>4
<1> HIDE DEF P, rest
<1>5. Len(queue) = 1 /\ queue[1].type = "Subscription" => Client!AskedAfter(queue) = "sub"
  BY <1>1, <1>4
<1>6. Len(queue) = 1 /\ queue[1].type = "GetSubscription" /\ asked = "nothing"
        => Client!AskedAfter(queue) = "get"
  BY <1>1, <1>4
<1>7. QED
  BY <1>2, <1>3, <1>5, <1>6

LEMMA DrainSInv ==
    ASSUME LInv, SInv, Drain
    PROVE  SInv'
<1>0. /\ queue' = <<>> /\ asked' = Client!AskedAfter(queue)
      /\ UNCHANGED <<connected, cnt, subscribers, call, cache>>
      /\ UNCHANGED <<connection, down>> /\ UNCHANGED serverState
      /\ up' = IF queue = <<>> \/ connection \in closed THEN up
               ELSE [up EXCEPT ![connection] = Append(@, queue)]
      /\ connected /\ connection \in Clients
      /\ queue \in Seq(CP!Asking)
      /\ up \in [Clients -> Seq(Frames)]
  BY ClientFacts DEF Drain, Client!Drain, Ignore, LInv, WireOK
<1>1. /\ OneCaller' /\ CacheIsGenuine'
  BY <1>0 DEF SInv, OneCaller, CacheIsGenuine, Client!Occupied, Client!Slots
<1>2. CASE queue = <<>>
  <2>1. asked' = asked /\ up' = up
    BY <1>0, <1>2, AskedIs
  <2>2. QueueIs'
    BY <1>0, <1>2, <2>1
    DEF SInv, QueueIs, Client!OnlyGets, Client!Occupied, Client!Slots, IsRequest
  <2>3. ASSUME cnt' = 1, asked # "nothing"
        PROVE  InChain' /\ (connection \notin closed => Followed(connection)')
    <3>1. InChain /\ (connection \notin closed => Followed(connection))
      BY <1>0, <2>3 DEF SInv
    <3>2. InChain' /\ Latest' = Latest
      BY <1>0, <3>1 DEF InChain, Before, Fits, Latest
    <3>3. Followed(connection) => Followed(connection)'
      BY <1>0, <2>1, <3>2
      DEF Followed, Coming, Awaited, Entered, Told, Untouched, NoCallFor, NoEntryFor,
          IsRequest, serverState
    <3>4. QED
      BY <3>1, <3>2, <3>3
  <2>4. QED
    BY <1>0, <1>1, <2>1, <2>2, <2>3, OthersStay DEF SInv
<1>3. CASE queue # <<>>
  <2>1. asked' # "nothing" /\ (cnt = 1 => asked = "nothing" /\ Len(queue) = 1
                                /\ IsRequest(queue[1], asked' = "get"))
    <3>1. CASE cnt = 0
      <4>1. asked' = "stop"
        BY <1>0, <1>3, <3>1, AskedIs DEF SInv, QueueIs
      <4>2. QED
        BY <3>1, <4>1
    <3>2. CASE cnt = 1
      <4>1. asked = "nothing" /\ Len(queue) = 1
            /\ queue[1].checksum = cache.checksum
            /\ queue[1].type \in {"Subscription", "GetSubscription"}
        BY <1>3, <3>2 DEF SInv, QueueIs, IsRequest
      <4>2. asked' = IF queue[1].type = "Subscription" THEN "sub" ELSE "get"
        BY <1>0, <4>1, AskedIs
      <4>3. QED
        BY <4>1, <4>2 DEF IsRequest
    <3>3. QED
      BY <3>1, <3>2 DEF SInv, OneCaller
  <2>2. QueueIs'
    BY <1>0, <2>1 DEF QueueIs
  <2>3. (\A c \in Clients : c > connection => c \notin closed /\ Untouched(c))'
    <3>1. ASSUME NEW c \in Clients, c > connection
          PROVE  c \notin closed' /\ Untouched(c)'
      <4>1. c # connection
        BY <1>0, <3>1 DEF Clients
      <4>2. up'[c] = up[c]
        BY <1>0, <4>1
      <4>3. QED
        BY <1>0, <3>1, <4>2
        DEF SInv, Untouched, NoCallFor, NoEntryFor, serverState
    <3>2. QED
      BY <1>0, <3>1 DEF Clients
  <2>4. ASSUME cnt = 1
        PROVE  InChain' /\ (connection \notin closed => Followed(connection)')
    <3>1. down = <<>> /\ (connection \notin closed => Untouched(connection))
      BY <1>0, <2>1, <2>4 DEF SInv
    <3>2. InChain'
      BY <1>0, <3>1 DEF InChain
    <3>3. ASSUME connection \notin closed PROVE Followed(connection)'
      <4>1. up[connection] = <<>> /\ NoCallFor(connection) /\ NoEntryFor(connection)
        BY <3>1, <3>3 DEF Untouched
      <4>2. up'[connection] = <<queue>>
        BY <1>0, <1>3, <3>3, <4>1
      <4>3. IsRequest(up[connection][1][1], asked = "get")'
        BY <1>0, <2>1, <2>4, <4>2 DEF IsRequest
      <4>4. NoCallFor(connection)' /\ NoEntryFor(connection)'
        BY <1>0, <4>1 DEF NoCallFor, NoEntryFor, serverState
      <4>5. Len(up'[connection]) = 1 /\ Len(up'[connection][1]) = 1
        BY <2>1, <2>4, <4>2
      <4>6. Coming(connection)'
        BY <1>0, <3>1, <4>3, <4>4, <4>5 DEF Coming
      <4>7. QED
        BY <4>6 DEF Followed
    <3>4. QED
      BY <3>2, <3>3
  <2>5. closed' = closed
    BY <1>0 DEF serverState
  <2>6. (cnt = 1 /\ asked # "nothing" =>
            InChain /\ (connection \notin closed => Followed(connection)))'
    BY <1>0, <2>4, <2>5
  <2>7. QED
    BY <1>0, <1>1, <2>1, <2>2, <2>3, <2>6 DEF SInv
<1>4. QED
  BY <1>2, <1>3

\* The request that waits is brought up to date, and stays what it is.
LEMMA RefreshOne ==
    ASSUME NEW q \in Seq(CP!Asking), Len(q) = 1, NEW get \in BOOLEAN,
           IsRequest(q[1], get), NEW type, type = q[1].type
    PROVE  LET r == Client!Refresh(q, type) IN Len(r) = 1 /\ IsRequest(r[1], get)
<1> DEFINE P == Client!Positions(q, type)
           i == CHOOSE i \in P : \A j \in P : j <= i
<1>1. q[1] \in CP!Asking /\ DOMAIN q = {1}
  OBVIOUS
<1>2. P = {1}
  BY <1>1 DEF Client!Positions
<1>3. i = 1
  BY <1>2
<1>4. Client!Refresh(q, type) =
        IF cache = Client!NoCache THEN q ELSE [q EXCEPT ![i].checksum = cache.checksum]
  BY DEF Client!Refresh
<1> HIDE DEF P, i
<1>5. CASE cache = Client!NoCache
  BY <1>4, <1>5
<1>6. CASE cache # Client!NoCache
  <2>1. Client!Refresh(q, type) = [q EXCEPT ![1].checksum = cache.checksum]
    BY <1>3, <1>4, <1>6
  <2>2. Len([q EXCEPT ![1].checksum = cache.checksum]) = 1
    OBVIOUS
  <2>3. [q EXCEPT ![1].checksum = cache.checksum][1] =
            [q[1] EXCEPT !.checksum = cache.checksum]
    BY <1>1
  <2>4. IsRequest([q[1] EXCEPT !.checksum = cache.checksum], get)
    BY <1>1 DEF IsRequest, CP!Asking, CP!Upstream
  <2>5. QED
    BY <2>1, <2>2, <2>3, <2>4
<1>7. QED
  BY <1>5, <1>6

\* Connecting asks for the entry once.
LEMMA SendMoves ==
    ASSUME LInv, SInv, ~connected, cnt = 1, Client!SendAllSubscriptions
    PROVE  /\ Len(queue') = 1
           /\ IsRequest(queue'[1], Client!OnlyGets) \/ IsRequest(queue'[1], FALSE)
<1>0. /\ asked = "nothing" /\ queue \in Seq(CP!Asking)
      /\ \/ queue = <<>>
         \/ /\ Len(queue) = 1
            /\ IsRequest(queue[1], Client!OnlyGets) \/ IsRequest(queue[1], FALSE)
  BY ClientFacts DEF SInv, QueueIs
<1>1. CASE queue = <<>>
  <2>1. Client!Without(queue, {"GetSubscription"}) = <<>>
    BY <1>0, <1>1, EmptyStays
  <2>2. ~Client!Queued("GetSubscription") /\ ~Client!Queued("Subscription")
    BY <1>1 DEF Client!Queued, Client!Positions
  <2>3. queue' = <<Client!SubscribeMsg(cache.checksum, "sub")>>
    BY <2>1, <2>2 DEF Client!SendAllSubscriptions
  <2>4. QED
    BY <2>3 DEF IsRequest, Client!SubscribeMsg, Client!Request
<1>2. CASE /\ Len(queue) = 1 /\ queue[1].type = "GetSubscription"
           /\ Client!OnlyGets /\ IsRequest(queue[1], TRUE)
  <2>1. Client!Queued("GetSubscription")
    BY <1>2 DEF Client!Queued, Client!Positions
  <2>2. queue' = Client!Refresh(queue, "GetSubscription")
    BY <1>2, <2>1 DEF Client!SendAllSubscriptions
  <2>3. Len(queue') = 1 /\ IsRequest(queue'[1], TRUE)
    BY <1>0, <1>2, <2>2, RefreshOne
  <2>4. QED
    BY <1>2, <2>3 DEF IsRequest
<1>3. CASE /\ Len(queue) = 1 /\ queue[1].type = "Subscription"
           /\ IsRequest(queue[1], FALSE)
  <2>1. ~Client!Queued("GetSubscription") /\ Client!Queued("Subscription")
    BY <1>0, <1>3 DEF Client!Queued, Client!Positions
  <2>2. Client!Without(queue, {"GetSubscription"}) = queue
    BY <1>0, <1>3, QueueFacts
  <2>3. queue' = Client!Refresh(queue, "Subscription")
    BY <2>1, <2>2 DEF Client!SendAllSubscriptions
  <2>4. QED
    BY <1>0, <1>3, <2>3, RefreshOne
<1>4. QED
  BY <1>0, <1>1, <1>2, <1>3 DEF IsRequest

LEMMA ConnectSInv ==
    ASSUME LInv, SInv, Connect
    PROVE  SInv'
<1>0. /\ ~connected /\ connected' = TRUE /\ Client!SendAllSubscriptions
      /\ UNCHANGED <<cnt, subscribers, call, cache, asked>>
      /\ UNCHANGED <<up, down>> /\ UNCHANGED serverState
      /\ connection' = connection + 1 /\ connection \in Nat
      /\ connection + 1 \in Clients
      /\ asked = "nothing" /\ down = <<>>
  BY BoundsAreNumbers, ClientFacts
  DEF Connect, Client!Connect, Ignore, LInv, WireOK, Clients, SInv
<1>1. OneCaller' /\ CacheIsGenuine'
  BY <1>0 DEF SInv, OneCaller, CacheIsGenuine, Client!Occupied, Client!Slots
<1>2. QueueIs'
  <2>1. CASE cnt = 0
    BY <1>0, <2>1 DEF SInv, QueueIs, Client!SendAllSubscriptions
  <2>2. CASE cnt = 1
    <3>1. /\ Len(queue') = 1
          /\ IsRequest(queue'[1], Client!OnlyGets) \/ IsRequest(queue'[1], FALSE)
      BY <1>0, <2>2, SendMoves
    <3>2. (IsRequest(queue[1], Client!OnlyGets) \/ IsRequest(queue[1], FALSE))'
      BY <1>0, <3>1 DEF IsRequest, Client!OnlyGets, Client!Occupied, Client!Slots
    <3>3. QED
      BY <1>0, <2>2, <3>1, <3>2 DEF QueueIs, IsRequest
  <2>3. QED
    BY <2>1, <2>2 DEF SInv, OneCaller
<1>3. \A c \in Clients : c > connection => c \notin closed' /\ Untouched(c)'
  BY <1>0 DEF SInv, Untouched, NoCallFor, NoEntryFor, serverState
<1>4. (\A c \in Clients : c > connection => c \notin closed /\ Untouched(c))'
  BY <1>0, <1>3 DEF Clients
<1>5. Untouched(connection)'
  BY <1>0 DEF SInv, Untouched, NoCallFor, NoEntryFor, serverState
<1>6. QED
  BY <1>0, <1>1, <1>2, <1>4, <1>5 DEF SInv

LEMMA DisconnectSInv ==
    ASSUME LInv, SInv, Disconnect
    PROVE  SInv'
<1>0. /\ connected /\ connected' = FALSE /\ asked' = "nothing" /\ down' = <<>>
      /\ queue' = Client!Without(queue, {"Unsubscribe", "SendSubscriptionData"})
      /\ UNCHANGED <<cnt, subscribers, call, cache>>
      /\ UNCHANGED <<connection, up>> /\ UNCHANGED serverState
      /\ queue \in Seq(CP!Asking)
  BY ClientFacts DEF Disconnect, Client!Disconnect, Ignore
<1>1. OneCaller' /\ CacheIsGenuine'
  BY <1>0 DEF SInv, OneCaller, CacheIsGenuine, Client!Occupied, Client!Slots
<1>2. QueueIs'
  <2>1. CASE cnt = 0
    <3>1. queue' = <<>>
      BY <1>0, <2>1, QueueFacts DEF SInv, QueueIs
    <3>2. QED
      BY <1>0, <2>1, <3>1 DEF QueueIs
  <2>2. CASE cnt = 1 /\ asked # "nothing"
    <3>1. queue = <<>>
      BY <2>2 DEF SInv, QueueIs
    <3>2. queue' = <<>>
      BY <1>0, <3>1, EmptyStays
    <3>3. (queue = <<>> /\ ~connected)'
      BY <1>0, <3>2
    <3>4. cnt' = 1
      BY <1>0, <2>2
    <3>5. QED
      BY <3>3, <3>4 DEF QueueIs, IsRequest
  <2>3. CASE cnt = 1 /\ asked = "nothing"
    <3>1. /\ Len(queue) = 1
          /\ IsRequest(queue[1], Client!OnlyGets) \/ IsRequest(queue[1], FALSE)
      BY <1>0, <2>3 DEF SInv, QueueIs
    <3>2. queue' = queue
      BY <1>0, <3>1, QueueFacts DEF IsRequest
    <3>3. (IsRequest(queue[1], Client!OnlyGets) \/ IsRequest(queue[1], FALSE))'
      BY <1>0, <3>1, <3>2 DEF IsRequest, Client!OnlyGets, Client!Occupied, Client!Slots
    <3>4. QED
      BY <1>0, <2>3, <3>1, <3>2, <3>3 DEF QueueIs, IsRequest
  <2>4. QED
    BY <2>1, <2>2, <2>3 DEF SInv, OneCaller
<1>3. (\A c \in Clients : c > connection => c \notin closed /\ Untouched(c))'
  BY <1>0 DEF SInv, Untouched, NoCallFor, NoEntryFor, serverState, Clients
<1>4. QED
  BY <1>0, <1>1, <1>2, <1>3 DEF SInv

LEMMA InitSInv == Init => SInv
<1> SUFFICES ASSUME Init PROVE SInv
  OBVIOUS
<1>1. OneCaller
  BY DEF Init, Client!Init, OneCaller, Client!Occupied, Client!Slots, Client!Vacant,
     Client!Subscriber
<1>2. QueueIs /\ CacheIsGenuine
  BY DEF Init, Client!Init, QueueIs, CacheIsGenuine, Client!NoCache
<1>3. \A c \in Clients : c \notin closed /\ Untouched(c)
  BY NobodyIs
  DEF Init, Server!Init, Untouched, NoCallFor, NoEntryFor, Server!Idle, Server!Call,
      Server!Unused, Server!NoEntry
<1>4. QED
  BY <1>1, <1>2, <1>3 DEF Init, Client!Init, SInv

LEMMA NextSInv == Steady /\ LInv /\ SInv /\ [Next]_vars => SInv'
<1> SUFFICES ASSUME Steady, LInv, SInv, [Next]_vars PROVE SInv'
  OBVIOUS
<1>1. CASE CallClient
  BY <1>1, CallSInv
<1>2. CASE Drain
  BY <1>2, DrainSInv
<1>3. CASE Receive
  BY <1>3, ReceiveSInv
<1>4. CASE Connect
  BY <1>4, ConnectSInv
<1>5. CASE Disconnect
  BY <1>5, DisconnectSInv
<1>6. CASE \E c \in Clients : Handle(c) \/ ServerClose(c)
  BY <1>6, HandleSInv, ServerCloseSInv
<1>7. CASE Resume \/ Publish \/ RemoveTimeout
  BY <1>7, ResumeSInv, PublishSInv, RemoveTimeoutSInv
<1>8. CASE UNCHANGED vars
  <2>1. OneCaller' /\ QueueIs' /\ CacheIsGenuine'
    BY <1>8
    DEF SInv, OneCaller, QueueIs, CacheIsGenuine, IsRequest, vars, clientVars,
        Client!OnlyGets, Client!Occupied, Client!Slots
  <2>2. ASSUME InChain PROVE InChain' /\ Latest' = Latest
    BY <1>8, <2>2 DEF InChain, Before, Fits, Latest, vars, clientVars
  <2>3. ASSUME InChain, Followed(connection) PROVE Followed(connection)'
    BY <1>8, <2>2, <2>3
    DEF Followed, Coming, Awaited, Entered, Told, Untouched, NoCallFor, NoEntryFor,
        IsRequest, vars, clientVars, serverState
  <2>4. QED
    BY <1>8, <2>1, <2>2, <2>3, OthersStay DEF SInv, vars, clientVars
<1>9. QED
  BY <1>1, <1>2, <1>3, <1>4, <1>5, <1>6, <1>7, <1>8 DEF Next
-----------------------------------------------------------------------------
(***************************************************************************)
(* What the observer holds.                                                *)
(***************************************************************************)
\* The count and the queue of the one caller, and the path of the answer from
\* the server's entry to the program's cache.
THEOREM SteadyInvariance ==
    ASSUME Steady
    PROVE  Spec => []SInv
<1>1. LInv /\ SInv /\ [Next]_vars => SInv'
  BY NextSInv
<1>2. QED
  BY <1>1, InitSInv, Invariance, PTL DEF Spec

\* When nothing is on its way, the connection of an observer is one the server
\* has entered, and what it sent last is what the cache holds.
LEMMA QuietIsEntered ==
    ASSUME LInv, SInv, Quiet, Observed
    PROVE  Entered(connection) /\ Latest = cache.checksum
<1>1. cnt = 1
  BY DEF SInv, OneCaller, Observed, Client!OnlyGets
<1>2. asked # "nothing"
  <2>1. queue = <<>> /\ connected
    BY DEF Quiet
  <2>2. QED
    BY <1>1, <2>1 DEF SInv, QueueIs
<1>3. Followed(connection)
  BY <1>1, <1>2 DEF SInv, Quiet
<1>4. connection \in Clients
  BY BoundsAreNumbers DEF Quiet, LInv, WireOK, Clients
<1>5. ~Coming(connection) /\ ~Told(connection)
  <2>1. Len(up[connection]) # 1 /\ down = <<>>
    BY DEF Quiet
  <2>2. QED
    BY <2>1 DEF Coming, Told
<1>6. ~Awaited(connection)
  <2>1. \A s \in Calls : calls[s].who # connection
    BY <1>4, NobodyIs DEF Quiet, Server!Idle, Server!Call
  <2>2. QED
    BY <2>1 DEF Awaited
<1>7. QED
  BY <1>3, <1>5, <1>6 DEF Followed, Quiet, Latest

\* A single caller that does not come back: a reply that says "you have it"
\* reaches a cache that has it, over every connection made and lost.
THEOREM CacheStaysGenuine ==
    ASSUME Steady
    PROVE  Spec => []CacheIsGenuine
<1>1. SInv => CacheIsGenuine
  BY DEF SInv
<1>2. QED
  BY <1>1, SteadyInvariance, PTL

\* A single caller that does not come back: when nothing is on its way, the
\* observer has an entry at the server, over every connection made and lost.
THEOREM ObserversStayServed ==
    ASSUME Steady
    PROVE  Spec => []ObserverIsServed
<1>1. LInv /\ SInv => ObserverIsServed
  BY QuietIsEntered DEF ObserverIsServed, Entered
<1>2. QED
  BY <1>1, SteadyInvariance, Invariance, PTL

\* The entry of a quiet observer is at the published version, and so is the
\* cache.
LEMMA QuietConverges == LInv /\ SInv => Converged
<1> SUFFICES ASSUME LInv, SInv, Quiet, Observed, Published # None
             PROVE  cache.checksum = Published
  BY DEF Converged
<1> DEFINE i == subscription[connection]
<1>1. /\ i # None /\ Published = obs[i].checksum
      /\ obs[i].clients[connection].checksum = cache.checksum
  BY QuietIsEntered DEF Entered, Published
<1>2. connection \in Clients
  BY BoundsAreNumbers DEF Quiet, LInv, WireOK, Clients
<1>3. Server!TypeOK /\ Server!InstancesCurrent /\ Server!ListedHasEntry
  BY SameServer DEF LInv, SP!IInv
<1>4. i \in Instances /\ obs[i].clients[connection].get # "none"
  <2>1. subscription \in [Clients -> Instances \cup {None}]
    BY <1>3 DEF Server!TypeOK
  <2>2. connection \in Server!Subscribers(obs[i])
    BY <1>1, <1>2, <1>3 DEF Server!ListedHasEntry
  <2>3. QED
    BY <1>1, <1>2, <2>1, <2>2 DEF Server!Subscribers
<1>5. obs[i].clients[connection].checksum = obs[i].checksum
  BY <1>1, <1>2, <1>3, <1>4
  DEF Server!InstancesCurrent, Server!EntriesAreCurrent, Server!Subscribers
<1>6. QED
  BY <1>1, <1>5

\* A single caller that does not come back: when nothing is on its way, the
\* observer holds what the instance that serves it published last, over every
\* reconnect, refetch, lost socket and replaced instance.
THEOREM AnswersConverge ==
    ASSUME Steady
    PROVE  Spec => []Converged
BY QuietConverges, SteadyInvariance, Invariance, PTL

\* A single caller that does not come back: when nothing is on its way and the
\* server has data, its observe() has resolved and the last value its onData
\* was called with is the version published last.
THEOREM ObserversSeeTheData ==
    ASSUME Steady
    PROVE  Spec => []ObserverSees
<1>1. LInv /\ SInv => ObserverSees
  <2> SUFFICES ASSUME LInv, SInv, Quiet, Published # None, NEW p \in Callers,
                      call[p] \in {"observe", "open"}
               PROVE  call[p] = "open" /\ view[p] = Published
    BY DEF ObserverSees
  <2>1. cnt = 1
    BY DEF SInv, OneCaller
  <2>2. /\ Client!Occupied = {1} /\ subscribers[1].caller = p /\ subscribers[1].onData
        /\ call[p] = IF subscribers[1].onInitial THEN "observe" ELSE "open"
    BY <2>1, TheCaller
  <2>3. Observed
    BY <2>2 DEF Observed, Client!OnlyGets
  <2>4. cache.checksum = Published /\ cache.value = Published
    BY <2>3, QuietConverges DEF Converged, SInv, CacheIsGenuine
  <2>5. cache # Client!NoCache
    BY <2>4 DEF Client!NoCache
  <2>6. Client!ObserversAgree
    BY SameClient DEF LInv, CP!IInv
  <2>7. ~subscribers[1].onInitial /\ view[p] = cache.value
    BY <2>2, <2>5, <2>6 DEF Client!ObserversAgree
  <2>8. QED
    BY <2>2, <2>4, <2>7
<1>2. QED
  BY <1>1, SteadyInvariance, Invariance, PTL
-----------------------------------------------------------------------------
(***************************************************************************)
(* Any number of callers that come and go, a server that does not          *)
(* authorize, and lookups that do not overlap (Alone): then one instance   *)
(* serves at a time, and what the program has asked for on a connection is *)
(* followed to the entry.                                                  *)
(***************************************************************************)
Alone ==
    \A s, t \in Calls : calls[s] # Server!Idle /\ calls[t] # Server!Idle => s = t

\* The instance that is registered is the only one that lives, and who has an
\* entry is listed with it.
Serving ==
    \A i \in Instances :
        /\ obs[i].status = "live" => registered = i
        /\ obs[i].removeTimer => obs[i].status = "live"
        /\ \A c \in Clients : obs[i].clients[c].get # "none" => subscription[c] = i

\* Nobody else makes an instance while the lookup of a Subscription awaits.
Looking ==
    \A s \in Calls :
        calls[s].op = "subscribe" => registered = None /\ calls[s].get # "get"

\* The server will serve the connection until it is told to stop.
Wanted(c) ==
    \/ \E s \in Calls : calls[s].who = c /\ calls[s].op = "subscribe"
    \/ \E i \in Instances : obs[i].clients[c].get \in {"sub", "both"}

Asks(frame, type) == \E j \in DOMAIN frame : frame[j].type = type

Stops(c) == {k \in DOMAIN up[c] : Asks(up[c][k], "Unsubscribe")}

\* The last word of the program is that the connection subscribes: it is on its
\* way, with nothing to the contrary in the same frame or a later one, or the
\* server has heard it.
Ordered(c) ==
    \E k \in DOMAIN up[c] :
        Asks(up[c][k], "Subscription") /\ \A m \in Stops(c) : m < k

Kept(c) == Ordered(c) \/ (Stops(c) = {} /\ Wanted(c))

OInv ==
    /\ Serving
    /\ Looking
    /\ connected /\ asked = "sub" /\ connection \notin closed => Kept(connection)

\* Entering an instance leaves it as it was but for the entry.
LEMMA SubscribeIs ==
    ASSUME NEW o \in Server!Observable, NEW d \in Clients, NEW k, NEW get
    PROVE  LET e == Server!Subscribe(o, d, k, get) IN
           /\ e.status = o.status
           /\ e.clients[d].get = IF Server!Answered(o, k, get) THEN o.clients[d].get
                                 ELSE get
           /\ \A c \in Clients : c # d => e.clients[c] = o.clients[c]
BY DEF Server!Subscribe, Server!DestroyIfEmpty, Server!Observable

LEMMA UnsubscribeIs ==
    ASSUME NEW o \in Server!Observable, NEW d \in Clients
    PROVE  LET e == Server!Unsubscribe(o, d) IN
           /\ e.status = o.status
           /\ e.clients[d].get = "none"
           /\ \A c \in Clients : c # d => e.clients[c] = o.clients[c]
BY DEF Server!Unsubscribe, Server!DestroyIfEmpty, Server!Observable, Server!NoEntry

LEMMA PublishIs ==
    ASSUME NEW o \in Server!Observable, NEW v, NEW patched
    PROVE  LET e == Server!Publish(o, v, patched) IN
           /\ e.status = o.status
           /\ Server!Leaving(o, v) = {} => e.removeTimer = o.removeTimer
           /\ \A c \in Clients :
                e.clients[c].get = IF c \in Server!Leaving(o, v) THEN "none"
                                   ELSE o.clients[c].get
BY DEF Server!Publish, Server!DestroyIfEmpty, Server!Observable, Server!NoEntry,
       Server!Entry

\* Who has an entry has it at the instance that is registered.
LEMMA EntriesAreRegistered ==
    ASSUME SP!IInv, Serving, NEW i \in Instances, NEW c \in Clients,
           obs[i].clients[c].get # "none"
    PROVE  /\ obs[i].status = "live" /\ registered = i /\ subscription[c] = i
           /\ \A j \in Instances : obs[j].clients[c].get # "none" => j = i
<1>1. obs[i].status = "live"
  BY SameServer
  DEF SP!IInv, Server!InstancesSound, Server!OnlyLiveServes, Server!Subscribers
<1>2. QED
  BY <1>1 DEF Serving

\* What the steps of the server other than to unsubscribe do to the entries.
SubsStay ==
    \A c \in Clients, i \in Instances :
        obs[i].clients[c].get \in {"sub", "both"} =>
            obs'[i].clients[c].get \in {"sub", "both"}

LEMMA EnterServes ==
    ASSUME SP!IInv, Serving, NEW i \in Instances, NEW o \in Server!Observable,
           o.status = "live", registered' = i,
           \A j \in Instances : j # i => obs[j].status # "live",
           \A c \in Clients : o.clients[c].get = obs[i].clients[c].get,
           NEW d \in Clients, obs[i].clients[d].get = "none",
           NEW k, NEW get, Server!Enter(i, o, d, k, get)
    PROVE  /\ Serving' /\ SubsStay
           /\ get # "get" => obs'[i].clients[d].get = get
<1> DEFINE e == Server!Subscribe(o, d, k, get)
<1>0. /\ obs \in [Instances -> Server!Observable]
      /\ subscription \in [Clients -> Instances \cup {None}]
  BY SameServer DEF SP!IInv, Server!TypeOK
<1>1. /\ obs' = [obs EXCEPT ![i] = e]
      /\ subscription' = [subscription EXCEPT
                            ![d] = IF Server!Answered(o, k, get) THEN @ ELSE i]
  BY DEF Server!Enter
<1>2. /\ e.status = "live"
      /\ e.clients[d].get = IF Server!Answered(o, k, get) THEN "none" ELSE get
      /\ \A c \in Clients : c # d => e.clients[c].get = obs[i].clients[c].get
  BY SubscribeIs
<1>3. get # "get" => ~Server!Answered(o, k, get)
  BY DEF Server!Answered
<1> HIDE DEF e
<1>4. /\ obs'[i] = e
      /\ \A j \in Instances : j # i => obs'[j] = obs[j]
  BY <1>0, <1>1
<1>5. ASSUME NEW j \in Instances, j # i
      PROVE  /\ obs'[j].status # "live" /\ ~obs'[j].removeTimer
             /\ \A c \in Clients : obs'[j].clients[c].get = "none"
  <2>1. obs[j].status # "live"
    BY <1>5
  <2>2. ~obs[j].removeTimer
    BY <2>1 DEF Serving
  <2>3. \A c \in Clients : obs[j].clients[c].get = "none"
    BY <2>1, EntriesAreRegistered
  <2>4. QED
    BY <1>4, <1>5, <2>1, <2>2, <2>3
<1>6. ASSUME NEW c \in Clients, obs'[i].clients[c].get # "none"
      PROVE  subscription'[c] = i
  <2>1. CASE c = d
    BY <1>0, <1>1, <1>2, <1>4, <1>6, <2>1
  <2>2. CASE c # d
    <3>1. subscription[c] = i
      BY <1>2, <1>4, <1>6, <2>2 DEF Serving
    <3>2. QED
      BY <1>0, <1>1, <2>2, <3>1
  <2>3. QED
    BY <2>1, <2>2
<1>7. Serving'
  BY <1>2, <1>4, <1>5, <1>6 DEF Serving
<1>8. SubsStay
  BY <1>2, <1>4 DEF SubsStay
<1>9. QED
  BY <1>2, <1>3, <1>4, <1>7, <1>8

LEMMA ReflagServes ==
    ASSUME SP!IInv, Serving, NEW i \in Instances, NEW d \in Clients, NEW get,
           Server!Reflag(i, d, get), UNCHANGED registered,
           obs[i].clients[d].get # "none",
           get \in {"sub", "both"} \/ get = obs[i].clients[d].get
    PROVE  /\ Serving' /\ SubsStay
           /\ obs'[i].clients[d].get = get
<1>0. /\ obs \in [Instances -> Server!Observable]
      /\ obs' = [obs EXCEPT ![i].clients[d].get = get]
      /\ UNCHANGED subscription
  BY SameServer DEF SP!IInv, Server!TypeOK, Server!Reflag
<1>1. \A j \in Instances : obs[j].clients \in [Clients -> Server!Entry]
  BY <1>0 DEF Server!Observable
<1>2. \A j \in Instances :
        /\ obs'[j].status = obs[j].status /\ obs'[j].removeTimer = obs[j].removeTimer
        /\ \A c \in Clients : obs'[j].clients[c].get =
              IF j = i /\ c = d THEN get ELSE obs[j].clients[c].get
  BY <1>0, <1>1 DEF Server!Observable, Server!Entry
<1>3. subscription[d] = i
  BY DEF Serving
<1>4. Serving'
  BY <1>0, <1>2, <1>3 DEF Serving
<1>5. SubsStay
  BY <1>2 DEF SubsStay
<1>6. QED
  BY <1>2, <1>4, <1>5

\* A client leaves the instance that lists it.
LEMMA LeaveServes ==
    ASSUME SP!IInv, Serving, NEW d \in Clients,
           Server!HandleUnsubscribe(d) \/ Server!Close(d)
    PROVE  Serving'
<1>0. /\ obs \in [Instances -> Server!Observable]
      /\ subscription \in [Clients -> Instances \cup {None}]
      /\ Server!ListedHasEntry
  BY SameServer DEF SP!IInv, Server!TypeOK
<1>1. /\ UNCHANGED registered /\ subscription' = [subscription EXCEPT ![d] = None]
      /\ \/ subscription[d] = None /\ UNCHANGED obs
         \/ /\ subscription[d] # None
            /\ obs' = [obs EXCEPT ![subscription[d]] = Server!Unsubscribe(@, d)]
  BY DEF Server!HandleUnsubscribe, Server!Close
<1>2. CASE subscription[d] = None
  <2>1. \A i \in Instances : obs[i].clients[d].get = "none"
    BY <1>2, Assumed DEF Serving
  <2>2. QED
    BY <1>0, <1>1, <1>2, <2>1 DEF Serving
<1>3. CASE subscription[d] # None
  <2> DEFINE i == subscription[d]
             e == Server!Unsubscribe(obs[i], d)
  <2>1. i \in Instances /\ obs[i].clients[d].get # "none"
    BY <1>0, <1>3 DEF Server!ListedHasEntry, Server!Subscribers
  <2>2. obs[i].status = "live"
    BY <2>1, EntriesAreRegistered
  <2>3. /\ e.status = "live" /\ e.clients[d].get = "none"
        /\ \A c \in Clients : c # d => e.clients[c] = obs[i].clients[c]
    BY <1>0, <2>1, <2>2, UnsubscribeIs
  <2>4. obs'[i] = e /\ \A j \in Instances : j # i => obs'[j] = obs[j]
    BY <1>0, <1>1, <1>3, <2>1
  <2>5. \A j \in Instances : obs'[j].clients[d].get = "none"
    BY <2>1, <2>3, <2>4, EntriesAreRegistered
  <2> HIDE DEF e, i
  <2>6. \A c \in Clients : c # d => subscription'[c] = subscription[c]
    BY <1>0, <1>1
  <2>7. \A j \in Instances : /\ obs'[j].status = obs[j].status
                             /\ obs'[j].removeTimer => obs'[j].status = "live"
    BY <2>1, <2>2, <2>3, <2>4 DEF Serving
  <2>8. \A j \in Instances, c \in Clients :
            c # d => obs'[j].clients[c].get = obs[j].clients[c].get
    BY <2>3, <2>4
  <2>9. QED
    BY <1>1, <2>5, <2>6, <2>7, <2>8 DEF Serving
<1>4. QED
  BY <1>2, <1>3

LEMMA UpdateServes ==
    ASSUME SP!IInv, Serving, NEW i \in Instances, NEW v, NEW patched,
           Server!Update(i, v, patched)
    PROVE  Serving' /\ SubsStay
<1> DEFINE o == obs[i]
           left == Server!Leaving(o, v)
           e == Server!Publish(o, v, patched)
<1>0. obs \in [Instances -> Server!Observable] /\ o \in Server!Observable
  BY SameServer DEF SP!IInv, Server!TypeOK
<1>1. /\ obs' = [obs EXCEPT ![i] = e] /\ UNCHANGED registered
      /\ subscription' = [c \in Clients |-> IF c \in left THEN None ELSE subscription[c]]
  BY DEF Server!Update
<1>2. \A c \in left : c \in Clients /\ o.clients[c].get = "get"
  BY DEF Server!Leaving, Server!Served, Server!Subscribers
<1>3. /\ e.status = o.status
      /\ left = {} => e.removeTimer = o.removeTimer
      /\ \A c \in Clients : e.clients[c].get = IF c \in left THEN "none"
                                               ELSE o.clients[c].get
  BY <1>0, PublishIs
<1> HIDE DEF left, e
<1>4. obs'[i] = e /\ \A j \in Instances : j # i => obs'[j] = obs[j]
  BY <1>0, <1>1
<1>5. \A c \in left : \A j \in Instances : obs'[j].clients[c].get = "none"
  BY <1>2, <1>3, <1>4, EntriesAreRegistered
<1>6. left # {} => o.status = "live"
  BY <1>2, EntriesAreRegistered
<1>7. \A j \in Instances :
        /\ obs'[j].status = obs[j].status
        /\ obs'[j].removeTimer => obs'[j].status = "live"
        /\ \A c \in Clients : c \notin left => obs'[j].clients[c].get = obs[j].clients[c].get
  BY <1>3, <1>4, <1>6 DEF Serving
<1>8. Serving'
  BY <1>1, <1>5, <1>7 DEF Serving
<1>9. SubsStay
  BY <1>2, <1>3, <1>4 DEF SubsStay
<1>10. QED
  BY <1>8, <1>9

LookupsStay ==
    \A s \in Calls : calls[s].op = "subscribe" => calls'[s] = calls[s]

LEMMA WantedStays ==
    ASSUME SubsStay, LookupsStay, NEW c \in Clients, Wanted(c)
    PROVE  Wanted(c)'
BY DEF Wanted, SubsStay, LookupsStay

LEMMA AwaitLooks ==
    ASSUME Server!TypeOK, NEW lookup, Server!Await(lookup)
    PROVE  /\ LookupsStay
           /\ \E s \in Calls : calls'[s] = lookup
           /\ \A s \in Calls : calls'[s] = calls[s] \/ calls'[s] = lookup
BY DEF Server!Await, Server!TypeOK, Server!Idle, Server!Call, LookupsStay

LEMMA HandleSubscribeServes ==
    ASSUME SP!IInv, Serving, Looking, NEW c \in Clients, NEW k,
           NEW get \in {"sub", "both"}, Server!HandleSubscribe(c, k, get)
    PROVE  /\ Serving' /\ Looking'
           /\ \A d \in Clients : Wanted(d) \/ d = c => Wanted(d)'
<1>0. /\ Server!TypeOK /\ Server!RegisteredIsLive /\ UNCHANGED registered
      /\ registered \in Instances \cup {None}
  BY SameServer DEF SP!IInv, Server!TypeOK, Server!HandleSubscribe
<1>1. CASE registered = None
  <2> DEFINE lookup == Server!Call("subscribe", c, k, get, None)
  <2>1. Server!Await(lookup) /\ UNCHANGED <<obs, subscription>>
    BY <1>1 DEF Server!HandleSubscribe
  <2>2. lookup.who = c /\ lookup.op = "subscribe" /\ lookup.get = get
    BY DEF Server!Call
  <2> HIDE DEF lookup
  <2>3. /\ LookupsStay
        /\ \E s \in Calls : calls'[s] = lookup
        /\ \A s \in Calls : calls'[s] = calls[s] \/ calls'[s] = lookup
    BY <1>0, <2>1, AwaitLooks
  <2>4. Serving' /\ SubsStay
    BY <1>0, <2>1 DEF Serving, SubsStay
  <2>5. Looking'
    BY <1>0, <1>1, <2>2, <2>3 DEF Looking
  <2>6. Wanted(c)'
    BY <2>2, <2>3 DEF Wanted
  <2>7. QED
    BY <2>3, <2>4, <2>5, <2>6, WantedStays
<1>2. CASE registered # None
  <2> DEFINE i == registered
             old == obs[i].clients[c].get
  <2>1. /\ i \in Instances /\ obs[i] \in Server!Observable /\ obs[i].status = "live"
        /\ \A j \in Instances : j # i => obs[j].status # "live"
    BY <1>0, <1>2 DEF Server!TypeOK, Server!RegisteredIsLive, Serving
  <2>2. /\ UNCHANGED calls
        /\ IF old = "none" THEN Server!Enter(i, obs[i], c, k, get)
           ELSE Server!Reflag(i, c, IF old = "get" \/ get = "both" THEN "both" ELSE old)
    BY <1>2 DEF Server!HandleSubscribe
  <2>3. old \in {"none", "sub", "get", "both"}
    BY <2>1 DEF Server!Observable, Server!Entry, Server!Flags
  <2>4. Serving' /\ SubsStay /\ obs'[i].clients[c].get \in {"sub", "both"}
    <3>1. CASE old = "none"
      BY <1>0, <2>1, <2>2, <3>1, EnterServes
    <3>2. CASE old # "none"
      <4> DEFINE new == IF old = "get" \/ get = "both" THEN "both" ELSE old
      <4>1. Server!Reflag(i, c, new) /\ new \in {"sub", "both"}
        BY <2>2, <2>3, <3>2
      <4> HIDE DEF new
      <4>2. QED
        BY <1>0, <2>1, <3>2, <4>1, ReflagServes
    <3>3. QED
      BY <3>1, <3>2
  <2>5. LookupsStay /\ Looking'
    BY <1>0, <2>2 DEF LookupsStay, Looking
  <2>6. Wanted(c)'
    BY <2>1, <2>4 DEF Wanted
  <2>7. QED
    BY <2>4, <2>5, <2>6, WantedStays
<1>3. QED
  BY <1>1, <1>2

LEMMA HandleGetServes ==
    ASSUME SP!IInv, Serving, Looking, NEW c \in Clients, NEW k, Server!HandleGet(c, k)
    PROVE  Serving' /\ Looking' /\ \A d \in Clients : Wanted(d) => Wanted(d)'
<1> DEFINE lookup == Server!Call("get", c, k, "get", None)
<1>1. Server!Await(lookup) /\ UNCHANGED <<obs, subscription, registered>>
  BY DEF Server!HandleGet
<1>2. lookup.op # "subscribe"
  BY DEF Server!Call
<1> HIDE DEF lookup
<1>3. /\ LookupsStay
      /\ \A s \in Calls : calls'[s] = calls[s] \/ calls'[s] = lookup
  BY <1>1, AwaitLooks, SameServer DEF SP!IInv
<1>4. Serving' /\ SubsStay /\ Looking'
  BY <1>1, <1>2, <1>3 DEF Serving, SubsStay, Looking
<1>5. QED
  BY <1>3, <1>4, WantedStays

LEMMA HandleSendDataServes ==
    ASSUME SP!IInv, Serving, Looking, NEW c \in Clients, Server!HandleSendData(c)
    PROVE  Serving' /\ Looking' /\ \A d \in Clients : Wanted(d) => Wanted(d)'
<1> DEFINE i == subscription[c]
<1>0. /\ obs \in [Instances -> Server!Observable]
      /\ subscription \in [Clients -> Instances \cup {None}]
  BY SameServer DEF SP!IInv, Server!TypeOK
<1>1. /\ i \in Instances /\ UNCHANGED <<registered, subscription, calls>>
      /\ obs' = [obs EXCEPT ![i].clients[c].checksum = obs[i].checksum]
  BY <1>0 DEF Server!HandleSendData
<1>2. \A j \in Instances : obs[j].clients \in [Clients -> Server!Entry]
  BY <1>0 DEF Server!Observable
<1>3. \A j \in Instances :
        /\ obs'[j].status = obs[j].status /\ obs'[j].removeTimer = obs[j].removeTimer
        /\ \A d \in Clients : obs'[j].clients[d].get = obs[j].clients[d].get
  BY <1>0, <1>1, <1>2 DEF Server!Observable, Server!Entry
<1>4. Serving' /\ SubsStay /\ Looking' /\ LookupsStay
  BY <1>1, <1>3 DEF Serving, SubsStay, Looking, LookupsStay
<1>5. QED
  BY <1>4, WantedStays

\* Those who leave take what is wanted for nobody else.
LEMMA LeaveLooks ==
    ASSUME SP!IInv, Serving, Looking, NEW c \in Clients, NEW d \in Clients, c # d,
           Server!HandleUnsubscribe(d) \/ Server!Close(d), Wanted(c)
    PROVE  Wanted(c)'
<1>1. KeptFor(c)
  BY SameServer, HandlersKeep DEF SP!IInv
<1>2. QED
  BY <1>1 DEF KeptFor, Wanted

LEMMA CreateServes ==
    ASSUME SP!IInv, Serving, Looking, Alone, NEW s \in Calls, Server!CreateFor(s)
    PROVE  Serving' /\ Looking' /\ \A d \in Clients : Wanted(d) => Wanted(d)'
<1> DEFINE who == calls[s].who
           get == calls[s].get
<1>1. /\ calls[s] # Server!Idle /\ Server!Finish(s)
      /\ \E i \in Instances, o \in Server!Observable :
           /\ registered' = i /\ o.status = "live"
           /\ \A c \in Clients : /\ obs[i].clients[c].get = "none"
                                 /\ o.clients[c].get = "none"
           /\ Server!Enter(i, o, who, calls[s].checksum, get)
  BY CreateIs
<1>2. PICK i \in Instances, o \in Server!Observable :
           /\ registered' = i /\ o.status = "live"
           /\ \A c \in Clients : /\ obs[i].clients[c].get = "none"
                                 /\ o.clients[c].get = "none"
           /\ Server!Enter(i, o, who, calls[s].checksum, get)
  BY <1>1
<1>3. who \in Clients /\ get \in {"sub", "get", "both"} /\ calls[s].op \in {"subscribe", "get"}
  BY <1>1, CallsAre
<1>4. registered = None
  BY <1>3 DEF Server!CreateFor, Looking
<1>5. \A j \in Instances : obs[j].status # "live"
  BY <1>4, Assumed DEF Serving
<1>6. calls \in [Calls -> Server!CallRecords] /\ Server!Idle.op # "subscribe"
      /\ calls' = [calls EXCEPT ![s] = Server!Idle]
  BY <1>1, SameServer DEF SP!IInv, Server!TypeOK, Server!Finish, Server!Idle, Server!Call
<1>7. \A t \in Calls : calls[t].op = "subscribe" => t = s
  BY <1>1, <1>6 DEF Alone
<1> HIDE DEF who, get
<1>8. Serving' /\ SubsStay /\ (get # "get" => obs'[i].clients[who].get = get)
  BY <1>2, <1>3, <1>5, EnterServes
<1>9. Looking'
  BY <1>6, <1>7 DEF Looking
<1>10. ASSUME NEW d \in Clients, Wanted(d) PROVE Wanted(d)'
  <2>1. CASE \E j \in Instances : obs[j].clients[d].get \in {"sub", "both"}
    BY <1>8, <2>1 DEF Wanted, SubsStay
  <2>2. CASE \E t \in Calls : calls[t].who = d /\ calls[t].op = "subscribe"
    <3>1. d = who /\ calls[s].op = "subscribe"
      BY <1>7, <2>2 DEF who
    <3>2. get \in {"sub", "both"}
      BY <1>3, <3>1 DEF Looking, get
    <3>3. QED
      BY <1>8, <3>1, <3>2 DEF Wanted
  <2>3. QED
    BY <1>10, <2>1, <2>2 DEF Wanted
<1>11. QED
  BY <1>8, <1>9, <1>10

LEMMA JoinServes ==
    ASSUME SP!IInv, Serving, Looking, NEW s \in Calls, Server!JoinForGet(s)
    PROVE  Serving' /\ Looking' /\ \A d \in Clients : Wanted(d) => Wanted(d)'
<1> DEFINE i == registered
           who == calls[s].who
<1>0. Server!TypeOK /\ Server!RegisteredIsLive
  BY SameServer DEF SP!IInv
<1>1. /\ calls[s].op = "get" /\ registered # None /\ UNCHANGED registered
      /\ calls' = [calls EXCEPT ![s] = Server!Idle]
      /\ IF obs[i].clients[who].get = "none"
         THEN Server!Enter(i, obs[i], who, calls[s].checksum, "get")
         ELSE Server!Reflag(i, who, "both")
  BY DEF Server!JoinForGet, Server!Finish
<1>2. /\ i \in Instances /\ obs[i] \in Server!Observable /\ obs[i].status = "live"
      /\ \A j \in Instances : j # i => obs[j].status # "live"
  BY <1>0, <1>1 DEF Server!TypeOK, Server!RegisteredIsLive, Serving
<1>3. who \in Clients
  <2>1. calls[s] # Server!Idle
    BY <1>1 DEF Server!Idle, Server!Call
  <2>2. QED
    BY <2>1, CallsAre
<1>4. Serving' /\ SubsStay
  <2>1. CASE obs[i].clients[who].get = "none"
    <3>1. Server!Enter(i, obs[i], who, calls[s].checksum, "get")
      BY <1>1, <2>1
    <3> HIDE DEF who
    <3>2. QED
      BY <1>1, <1>2, <1>3, <2>1, <3>1, EnterServes
  <2>2. CASE obs[i].clients[who].get # "none"
    <3>1. Server!Reflag(i, who, "both")
      BY <1>1, <2>2
    <3> HIDE DEF who
    <3>2. QED
      BY <1>1, <1>2, <1>3, <2>2, <3>1, ReflagServes
  <2>3. QED
    BY <2>1, <2>2
<1>5. LookupsStay /\ Looking'
  <2>1. calls \in [Calls -> Server!CallRecords] /\ Server!Idle.op # "subscribe"
    BY <1>0 DEF Server!TypeOK, Server!Idle, Server!Call
  <2>2. QED
    BY <1>1, <2>1 DEF LookupsStay, Looking
<1>6. QED
  BY <1>4, <1>5, WantedStays

LEMMA RemoveTimeoutServes ==
    ASSUME SP!IInv, Serving, Looking, NEW i \in Instances, Server!RemoveTimeout(i)
    PROVE  Serving' /\ Looking' /\ \A d \in Clients : Wanted(d) => Wanted(d)'
<1>0. obs \in [Instances -> Server!Observable]
  BY SameServer DEF SP!IInv, Server!TypeOK
<1>1. /\ obs[i].removeTimer /\ registered' = None /\ UNCHANGED <<subscription, calls>>
      /\ obs' = [obs EXCEPT ![i].removeTimer = FALSE, ![i].status = "closed"]
  BY DEF Server!RemoveTimeout
<1>2. \A j \in Instances : j # i => obs[j].status # "live"
  BY <1>1 DEF Serving
<1>3. \A j \in Instances : /\ obs'[j].status # "live" /\ ~obs'[j].removeTimer
                           /\ obs'[j].clients = obs[j].clients
  BY <1>0, <1>1, <1>2 DEF Serving, Server!Observable
<1>4. Serving' /\ SubsStay
  <2>1. \A j \in Instances, c \in Clients :
            obs'[j].clients[c].get = obs[j].clients[c].get
    BY <1>3
  <2>2. \A j \in Instances, c \in Clients :
            obs'[j].clients[c].get # "none" => subscription'[c] = j
    BY <1>1, <2>1 DEF Serving
  <2>3. Serving'
    BY <1>3, <2>2 DEF Serving
  <2>4. QED
    BY <2>1, <2>3 DEF SubsStay
<1>5. Looking' /\ LookupsStay
  BY <1>1 DEF Looking, LookupsStay
<1>6. QED
  BY <1>4, <1>5, WantedStays

\* The steps of the server that handle no message.
LEMMA ServerServes ==
    ASSUME LInv, OInv, Alone, Resume \/ Publish \/ RemoveTimeout
    PROVE  /\ Serving' /\ Looking' /\ UNCHANGED <<up, closed>>
           /\ \A d \in Clients : Wanted(d) => Wanted(d)'
<1>0. SP!IInv /\ Serving /\ Looking
  BY DEF LInv, OInv
<1>1. CASE Resume
  <2>1. PICK s \in Calls : Server!CreateFor(s) \/ Server!JoinForGet(s)
    BY <1>1 DEF Resume
  <2>2. UNCHANGED <<up, closed>>
    BY <1>1, <2>1 DEF Resume, Server!CreateFor, Server!JoinForGet
  <2>3. QED
    BY <1>0, <2>1, <2>2, CreateServes, JoinServes
<1>2. CASE Publish
  <2>1. PICK i \in Instances, v \in Versions, patched \in BOOLEAN :
          Server!Update(i, v, patched)
    BY <1>2 DEF Publish
  <2>2. UNCHANGED <<up, closed, calls, registered>>
    BY <1>2, <2>1 DEF Publish, Server!Update
  <2>3. Serving' /\ SubsStay
    BY <1>0, <2>1, UpdateServes
  <2>4. Looking' /\ LookupsStay
    BY <1>0, <2>2 DEF Looking, LookupsStay
  <2>5. QED
    BY <2>2, <2>3, <2>4, WantedStays
<1>3. CASE RemoveTimeout
  <2>1. PICK i \in Instances : Server!RemoveTimeout(i)
    BY <1>3 DEF RemoveTimeout
  <2>2. UNCHANGED <<up, closed>>
    BY <1>3, <2>1 DEF RemoveTimeout, Server!RemoveTimeout
  <2>3. QED
    BY <1>0, <2>1, <2>2, RemoveTimeoutServes
<1>4. QED
  BY <1>1, <1>2, <1>3

\* A server that does not authorize handles the frames of a connection in the
\* order they come in, and none when it is closed.
InOrder(c) ==
    /\ up[c] # <<>>
    /\ HandleMessage(c, Head(up[c][1]))
    /\ up' = IF Tail(up[c][1]) = <<>> THEN [up EXCEPT ![c] = Tail(@)]
             ELSE [up EXCEPT ![c] = <<Tail(up[c][1])>> \o Tail(@)]

LEMMA HandleInOrder ==
    ASSUME ~Authorizes, WireOK, NEW c \in Clients, Handle(c)
    PROVE  InOrder(c)
<1>1. PICK f \in DOMAIN up[c] :
        /\ MayBeNext(c, f) /\ HandleMessage(c, Head(up[c][f]))
        /\ up' = IF Tail(up[c][f]) = <<>> THEN [up EXCEPT ![c] = Others(@, f)]
                 ELSE [up EXCEPT ![c] = <<Tail(up[c][f])>> \o Others(@, f)]
  BY DEF Handle
<1>2. f = 1
  BY <1>1 DEF MayBeNext
<1>3. up[c] \in Seq(Frames) /\ up[c] # <<>>
  BY <1>1 DEF WireOK
<1>4. Others(up[c], 1) = Tail(up[c])
  BY <1>1, <1>2, <1>3, OthersAre
<1>5. QED
  BY <1>1, <1>2, <1>3, <1>4 DEF InOrder

\* What is left of the frames of a connection when a message of the first one
\* is handled: they move up by one, or the first one is shorter.
LEMMA FramesShift ==
    ASSUME WireOK, NEW c \in Clients, InOrder(c)
    PROVE  /\ 1 \in DOMAIN up[c]
           /\ \E d \in {0, 1} :
                /\ \A k \in DOMAIN up'[c] :
                    /\ k + d \in DOMAIN up[c]
                    /\ \A type : Asks(up'[c][k], type) => Asks(up[c][k + d], type)
                /\ \A k \in DOMAIN up[c] : k > 1 =>
                    k - d \in DOMAIN up'[c] /\ up'[c][k - d] = up[c][k]
                /\ \A type : Asks(up[c][1], type) /\ Head(up[c][1]).type # type =>
                    d = 0 /\ 1 \in DOMAIN up'[c] /\ Asks(up'[c][1], type)
           /\ \A e \in Clients : e # c => up'[e] = up[e]
<1> DEFINE q == up[c]
           f == q[1]
           rest == Tail(f)
           r == up'[c]
<1>1. up \in [Clients -> Seq(Frames)] /\ q \in Seq(Frames) /\ q # <<>> /\ Head(q) = f
  BY DEF WireOK, InOrder
<1>2. 1 \in DOMAIN q /\ f \in Frames /\ DOMAIN q = 1..Len(q) /\ Len(q) \in Nat
  BY <1>1
<1>3. /\ f \in Seq(CP!Asking) /\ f # <<>> /\ Len(f) \in Nat \ {0}
      /\ DOMAIN f = 1..Len(f) /\ Head(f) = f[1]
  BY <1>2 DEF Frames
<1>4. /\ rest \in Seq(CP!Asking) /\ Len(rest) = Len(f) - 1 /\ DOMAIN rest = 1..(Len(f) - 1)
      /\ \A j \in DOMAIN rest : rest[j] = f[j + 1]
  BY <1>3
<1>5. up' = IF rest = <<>> THEN [up EXCEPT ![c] = Tail(@)]
            ELSE [up EXCEPT ![c] = <<rest>> \o Tail(@)]
  BY DEF InOrder
<1>6. \A e \in Clients : e # c => up'[e] = up[e]
  BY <1>1, <1>5
<1>7. /\ Tail(q) \in Seq(Frames) /\ Len(Tail(q)) = Len(q) - 1
      /\ DOMAIN Tail(q) = 1..(Len(q) - 1)
      /\ \A j \in DOMAIN Tail(q) : Tail(q)[j] = q[j + 1]
  BY <1>1, <1>2
<1>8. \A type : Asks(rest, type) => Asks(f, type)
  BY <1>3, <1>4 DEF Asks
<1>9. ASSUME NEW type, Asks(f, type), Head(f).type # type PROVE Asks(rest, type)
  <2>1. PICK j \in DOMAIN f : f[j].type = type
    BY <1>9 DEF Asks
  <2>2. j # 1
    BY <1>3, <1>9, <2>1
  <2>3. j - 1 \in DOMAIN rest /\ rest[j - 1] = f[j]
    BY <1>3, <1>4, <2>2
  <2>4. QED
    BY <2>1, <2>3 DEF Asks
<1>10. CASE rest = <<>>
  <2>1. r = Tail(q)
    BY <1>1, <1>5, <1>10
  <2>2. \A type : ~Asks(rest, type)
    BY <1>4, <1>10 DEF Asks
  <2> HIDE DEF r, q, rest, f
  <2>3. /\ \A k \in DOMAIN r : k + 1 \in DOMAIN q /\ r[k] = q[k + 1]
        /\ \A k \in DOMAIN q : k > 1 => k - 1 \in DOMAIN r /\ r[k - 1] = q[k]
    BY <1>2, <1>7, <2>1
  <2>4. \A type : ~(Asks(f, type) /\ Head(f).type # type)
    BY <1>9, <2>2
  <2>5. QED
    BY <1>2, <1>6, <2>3, <2>4 DEF r, q, f
<1>11. CASE rest # <<>>
  <2>1. r = <<rest>> \o Tail(q)
    BY <1>1, <1>5, <1>11
  <2>2. rest \in Frames
    BY <1>4, <1>11 DEF Frames
  <2> HIDE DEF r, q, rest, f
  <2>3. /\ DOMAIN r = DOMAIN q /\ r[1] = rest
        /\ \A k \in DOMAIN q : k > 1 => r[k] = q[k]
    BY <1>2, <1>7, <2>1, <2>2
  <2>4. \A k \in DOMAIN r : \A type : Asks(r[k], type) => Asks(q[k], type)
    <3>1. q[1] = f
      BY DEF f
    <3>2. QED
      BY <1>2, <1>8, <2>3, <3>1
  <2>5. \A k \in DOMAIN q : k + 0 = k /\ k - 0 = k
    BY <1>2
  <2>6. QED
    BY <1>2, <1>6, <1>9, <2>3, <2>4, <2>5 DEF r, q, f
<1>12. QED
  BY <1>10, <1>11

\* What a message that is handled does to the last word.
LEMMA HandleOrders ==
    ASSUME LInv, NEW c \in Clients, Handle(c), InOrder(c)
    PROVE  LET m == Head(up[c][1]) IN
           /\ Stops(c) = {} => Stops(c)' = {} /\ m.type # "Unsubscribe"
           /\ Ordered(c) =>
                Ordered(c)' \/ (m.type = "Subscription" /\ Stops(c)' = {})
<1> DEFINE m == Head(up[c][1])
           q == up[c]
           r == up'[c]
<1>0. WireOK /\ WireOK'
  BY HandleOK, SameServer DEF LInv, SP!IInv
<1>1. PICK d \in {0, 1} :
        /\ \A k \in DOMAIN r :
             /\ k + d \in DOMAIN q
             /\ \A type : Asks(r[k], type) => Asks(q[k + d], type)
        /\ \A k \in DOMAIN q : k > 1 => k - d \in DOMAIN r /\ r[k - d] = q[k]
        /\ \A type : Asks(q[1], type) /\ m.type # type =>
             d = 0 /\ 1 \in DOMAIN r /\ Asks(r[1], type)
  BY <1>0, FramesShift
<1>2. /\ 1 \in DOMAIN q
      /\ \A k \in DOMAIN q : k \in Nat /\ k >= 1
      /\ \A k \in DOMAIN r : k \in Nat /\ k >= 1
  <2>1. q \in Seq(Frames) /\ r \in Seq(Frames)
    BY <1>0 DEF WireOK
  <2>2. QED
    BY <1>0, <2>1, FramesShift
<1>3. /\ Stops(c) = {k \in DOMAIN q : Asks(q[k], "Unsubscribe")}
      /\ Stops(c)' = {k \in DOMAIN r : Asks(r[k], "Unsubscribe")}
      /\ Ordered(c) <=> \E k \in DOMAIN q :
                            Asks(q[k], "Subscription") /\ \A n \in Stops(c) : n < k
      /\ Ordered(c)' <=> \E k \in DOMAIN r :
                            Asks(r[k], "Subscription") /\ \A n \in Stops(c)' : n < k
  BY DEF Stops, Ordered, Asks
<1>4. Asks(q[1], m.type)
  <2>1. q[1] \in Frames
    BY <1>0, <1>2 DEF WireOK
  <2>2. 1 \in DOMAIN q[1] /\ m = q[1][1]
    BY <2>1 DEF Frames
  <2>3. QED
    BY <2>2 DEF Asks
<1> HIDE DEF q, r, m
<1>5. \A n \in Stops(c)' : n + d \in Stops(c)
  BY <1>1, <1>3
<1>6. Stops(c) = {} => Stops(c)' = {} /\ m.type # "Unsubscribe"
  BY <1>2, <1>3, <1>4, <1>5
<1>7. ASSUME Ordered(c)
      PROVE  Ordered(c)' \/ (m.type = "Subscription" /\ Stops(c)' = {})
  <2>1. PICK k \in DOMAIN q : Asks(q[k], "Subscription") /\ \A n \in Stops(c) : n < k
    BY <1>3, <1>7
  <2>2. CASE k > 1
    <3>1. k - d \in DOMAIN r /\ Asks(r[k - d], "Subscription")
      BY <1>1, <2>1, <2>2
    <3>2. \A n \in Stops(c)' : n < k - d
      BY <1>2, <1>3, <1>5, <2>1
    <3>3. QED
      BY <1>3, <3>1, <3>2
  <2>3. CASE k = 1
    <3>1. Stops(c) = {}
      BY <1>2, <1>3, <2>1, <2>3
    <3>2. CASE m.type # "Subscription"
      <4>1. 1 \in DOMAIN r /\ Asks(r[1], "Subscription")
        BY <1>1, <2>1, <2>3, <3>2
      <4>2. QED
        BY <1>3, <1>6, <3>1, <4>1
    <3>3. QED
      BY <1>6, <3>1, <3>2
  <2>4. QED
    BY <1>2, <2>2, <2>3
<1>8. QED
  BY <1>6, <1>7 DEF m

\* What a message that is handled does to what is wanted.
LEMMA HandleServes ==
    ASSUME LInv, OInv, NEW c \in Clients, InOrder(c)
    PROVE  LET m == Head(up[c][1]) IN
           /\ Serving' /\ Looking' /\ UNCHANGED closed
           /\ \A e \in Clients : e # c /\ Wanted(e) => Wanted(e)'
           /\ m.type # "Unsubscribe" /\ Wanted(c) => Wanted(c)'
           /\ m.type = "Subscription" => Wanted(c)'
<1> DEFINE m == Head(up[c][1])
<1>0. SP!IInv /\ Serving /\ Looking
  BY DEF LInv, OInv
<1>1. /\ up[c] \in Seq(Frames) /\ up[c] # <<>>
  BY DEF LInv, WireOK, InOrder
<1>2. Head(up[c]) = up[c][1] /\ up[c][1] \in Frames
  BY <1>1
<1>3. m \in CP!Asking
  <2>1. up[c][1] \in Seq(CP!Asking) /\ up[c][1] # <<>>
    BY <1>2 DEF Frames
  <2>2. QED
    BY <2>1
<1>4. \/ m.type = "Subscription" /\ Server!HandleSubscribe(c, m.checksum, m.get)
      \/ m.type = "GetSubscription" /\ Server!HandleGet(c, m.checksum)
      \/ m.type = "Unsubscribe" /\ Server!HandleUnsubscribe(c)
      \/ m.type \in {"Unsubscribe", "SendSubscriptionData"} /\ Ignore
      \/ m.type = "SendSubscriptionData" /\ Server!HandleSendData(c)
  BY DEF InOrder, HandleMessage
<1> HIDE DEF m
<1>5. m.type = "Subscription" => m.get \in {"sub", "both"}
  BY <1>3 DEF CP!Asking
<1>6. CASE m.type = "Subscription" /\ Server!HandleSubscribe(c, m.checksum, m.get)
  <2>1. UNCHANGED closed
    BY <1>6 DEF Server!HandleSubscribe
  <2>2. QED
    BY <1>0, <1>5, <1>6, <2>1, HandleSubscribeServes DEF m
<1>7. CASE m.type = "GetSubscription" /\ Server!HandleGet(c, m.checksum)
  <2>1. UNCHANGED closed
    BY <1>7 DEF Server!HandleGet
  <2>2. QED
    BY <1>0, <1>7, <2>1, HandleGetServes DEF m
<1>8. CASE m.type = "Unsubscribe" /\ Server!HandleUnsubscribe(c)
  <2>1. UNCHANGED <<closed, calls, registered>>
    BY <1>8 DEF Server!HandleUnsubscribe
  <2>2. Looking'
    BY <1>0, <2>1 DEF Looking
  <2>3. QED
    BY <1>0, <1>8, <2>1, <2>2, LeaveServes, LeaveLooks DEF m
<1>9. CASE m.type \in {"Unsubscribe", "SendSubscriptionData"} /\ Ignore
  <2>1. UNCHANGED <<obs, registered, subscription, closed, calls>>
    BY <1>9 DEF Ignore, serverState
  <2>2. Serving' /\ Looking' /\ \A e : Wanted(e) => Wanted(e)'
    BY <1>0, <2>1 DEF Serving, Looking, Wanted
  <2>3. QED
    BY <1>9, <2>1, <2>2 DEF m
<1>10. CASE m.type = "SendSubscriptionData" /\ Server!HandleSendData(c)
  <2>1. UNCHANGED closed
    BY <1>10 DEF Server!HandleSendData
  <2>2. QED
    BY <1>0, <1>10, <2>1, HandleSendDataServes DEF m
<1>11. QED
  BY <1>4, <1>6, <1>7, <1>8, <1>9, <1>10

LEMMA HandleOInv ==
    ASSUME ~Authorizes, LInv, OInv, NEW c \in Clients, Handle(c)
    PROVE  OInv'
<1> DEFINE m == Head(up[c][1])
<1>0. /\ UNCHANGED <<connected, asked, connection>>
      /\ connected => connection \in Clients
      /\ InOrder(c)
  BY HandleInOrder DEF Handle, Transmit, clientVars, LInv, WireOK
<1>1. /\ Serving' /\ Looking' /\ UNCHANGED closed
      /\ \A e \in Clients : e # c /\ Wanted(e) => Wanted(e)'
      /\ m.type # "Unsubscribe" /\ Wanted(c) => Wanted(c)'
      /\ m.type = "Subscription" => Wanted(c)'
  BY <1>0, HandleServes
<1>2. /\ Stops(c) = {} => Stops(c)' = {} /\ m.type # "Unsubscribe"
      /\ Ordered(c) => Ordered(c)' \/ (m.type = "Subscription" /\ Stops(c)' = {})
  BY <1>0, HandleOrders
<1> HIDE DEF m
<1>3. ASSUME connected, Kept(connection) PROVE Kept(connection)'
  <2>1. CASE connection = c
    <3>1. Kept(c)'
      BY <1>1, <1>2, <1>3, <2>1 DEF Kept
    <3>2. QED
      BY <1>0, <2>1, <3>1 DEF Kept, Ordered, Stops, Wanted
  <2>2. CASE connection # c
    <3>1. up'[connection] = up[connection]
      BY <1>0, <1>3, <2>2, FramesShift DEF LInv
    <3>2. Stops(connection)' = Stops(connection)
          /\ (Ordered(connection) => Ordered(connection)')
      BY <1>0, <3>1 DEF Stops, Ordered, Asks
    <3>3. Wanted(connection) => Wanted(connection)'
      <4>1. Wanted(connection) => \A e : e = connection => Wanted(e)'
        BY <1>0, <1>1, <1>3, <2>2
      <4>2. QED
        BY <1>0, <4>1 DEF Wanted
    <3>4. QED
      BY <1>3, <3>2, <3>3 DEF Kept
  <2>3. QED
    BY <2>1, <2>2
<1>4. QED
  BY <1>0, <1>1, <1>3 DEF OInv

LEMMA ServerCloseOInv ==
    ASSUME ~Authorizes, LInv, OInv, NEW c \in Clients, ServerClose(c)
    PROVE  OInv'
<1>0. /\ Server!Close(c) /\ closed' = closed \cup {c} /\ UNCHANGED <<calls, registered>>
      /\ \A d \in Clients : d # c => up'[d] = up[d]
      /\ UNCHANGED <<connected, asked, connection>>
      /\ connected => connection \in Clients
      /\ SP!IInv /\ Serving /\ Looking
      /\ up \in [Clients -> Seq(Frames)]
  BY DEF ServerClose, Server!Close, Transmit, clientVars, LInv, OInv, WireOK
<1>1. Serving'
  BY <1>0, LeaveServes
<1>2. Looking'
  BY <1>0 DEF Looking
<1>3. ASSUME connected, connection \notin closed', Kept(connection)
      PROVE  Kept(connection)'
  <2>1. connection # c /\ up'[connection] = up[connection]
    BY <1>0, <1>3
  <2>2. Stops(connection)' = Stops(connection)
        /\ (Ordered(connection) => Ordered(connection)')
    BY <1>0, <2>1 DEF Stops, Ordered, Asks
  <2>3. KeptFor(connection)
    BY <1>0, <1>3, <2>1, SameServer, HandlersKeep DEF SP!IInv
  <2>4. Wanted(connection) => Wanted(connection)'
    BY <1>0, <1>3, <2>3 DEF KeptFor, Wanted
  <2>5. QED
    BY <1>3, <2>2, <2>4 DEF Kept
<1>4. QED
  BY <1>0, <1>1, <1>2, <1>3 DEF OInv

LEMMA ServerOInv ==
    ASSUME LInv, OInv, Alone, Resume \/ Publish \/ RemoveTimeout
    PROVE  OInv'
<1>0. /\ UNCHANGED <<connected, asked, connection>>
      /\ connected => connection \in Clients
  BY DEF Resume, Publish, RemoveTimeout, Transmit, clientVars, LInv, WireOK
<1>1. /\ Serving' /\ Looking' /\ UNCHANGED <<up, closed>>
      /\ \A d \in Clients : Wanted(d) => Wanted(d)'
  BY ServerServes
<1>2. ASSUME connected, Kept(connection) PROVE Kept(connection)'
  <2>1. Stops(connection)' = Stops(connection)
        /\ (Ordered(connection) => Ordered(connection)')
    BY <1>0, <1>1 DEF Stops, Ordered, Asks
  <2>2. Wanted(connection) => Wanted(connection)'
    <3>1. Wanted(connection) => \A e : e = connection => Wanted(e)'
      BY <1>0, <1>1, <1>2
    <3>2. QED
      BY <1>0, <3>1 DEF Wanted
  <2>3. QED
    BY <1>2, <2>1, <2>2 DEF Kept
<1>3. QED
  BY <1>0, <1>1, <1>2 DEF OInv

\* The steps of the program other than to drain the queue send nothing.
LEMMA ProgramOInv ==
    ASSUME LInv, OInv, CallClient \/ Receive \/ Connect \/ Disconnect
    PROVE  OInv'
<1>1. /\ UNCHANGED <<obs, registered, subscription, closed, calls>> /\ UNCHANGED up
      /\ asked # "nothing" => connected
  BY ClientFacts DEF CallClient, Receive, Connect, Disconnect, Ignore, serverState
<1>2. \/ asked' = "nothing"
      \/ UNCHANGED <<connected, asked, connection>>
  <2>1. CASE CallClient
    BY <2>1
    DEF CallClient, Client!Observe, Client!GetFromCache, Client!GetWaiting, Client!Close
  <2>2. CASE Receive
    BY <2>2 DEF Receive, Client!Receive, Client!vars
  <2>3. CASE Connect
    BY <1>1, <2>3 DEF Connect, Client!Connect
  <2>4. CASE Disconnect
    BY <2>4 DEF Disconnect, Client!Disconnect
  <2>5. QED
    BY <2>1, <2>2, <2>3, <2>4
<1>3. Serving' /\ Looking'
  BY <1>1 DEF OInv, Serving, Looking
<1>4. CASE asked' = "nothing"
  BY <1>3, <1>4 DEF OInv
<1>5. CASE UNCHANGED <<connected, asked, connection>>
  <2>1. Kept(connection) => Kept(connection)'
    BY <1>1, <1>5 DEF Kept, Ordered, Stops, Wanted, Asks
  <2>2. QED
    BY <1>1, <1>3, <1>5, <2>1 DEF OInv
<1>6. QED
  BY <1>2, <1>4, <1>5

\* A frame that asks for a subscription is the last word; one that does not
\* ask to stop leaves the last word what it was.
LEMMA FrameOrders ==
    ASSUME WireOK, NEW c \in Clients, NEW f, up' = [up EXCEPT ![c] = Append(@, f)],
           ~Asks(f, "Unsubscribe")
    PROVE  /\ Stops(c)' = Stops(c)
           /\ Ordered(c) \/ Asks(f, "Subscription") => Ordered(c)'
<1> DEFINE q == up[c]
           n == Len(q)
<1>1. /\ q \in Seq(Frames) /\ n \in Nat /\ DOMAIN q = 1..n
      /\ up'[c] = Append(q, f)
  BY DEF WireOK
<1>2. /\ DOMAIN up'[c] = 1..(n + 1) /\ up'[c][n + 1] = f
      /\ \A k \in 1..n : up'[c][k] = q[k]
  BY <1>1
<1>3. \A type : Asks(f, type)' <=> Asks(f, type)
  OBVIOUS
<1>4. /\ Stops(c) = {k \in 1..n : Asks(q[k], "Unsubscribe")}
      /\ Stops(c)' = {k \in 1..(n + 1) : Asks(up'[c][k], "Unsubscribe")}
      /\ Ordered(c) <=> \E k \in 1..n :
                            Asks(q[k], "Subscription") /\ \A m \in Stops(c) : m < k
      /\ Ordered(c)' <=> \E k \in 1..(n + 1) :
                            Asks(up'[c][k], "Subscription") /\ \A m \in Stops(c)' : m < k
  BY <1>1, <1>2 DEF Stops, Ordered, Asks
<1> HIDE DEF q, n
<1>5. Stops(c)' = Stops(c)
  <2>1. ASSUME NEW k \in 1..(n + 1)
        PROVE  Asks(up'[c][k], "Unsubscribe") <=> k \in 1..n /\ Asks(q[k], "Unsubscribe")
    <3>1. CASE k \in 1..n
      BY <1>2, <3>1, Zenon
    <3>2. CASE k \notin 1..n
      <4>1. k = n + 1
        BY <1>1, <2>1, <3>2
      <4>2. QED
        BY <1>2, <3>2, <4>1, Zenon
    <3>3. QED
      BY <3>1, <3>2, Zenon
  <2>2. \A k \in 1..n : k \in 1..(n + 1)
    BY <1>1
  <2>3. QED
    BY <1>4, <2>1, <2>2, Zenon
<1>6. CASE Ordered(c)
  <2>1. PICK k \in 1..n : Asks(q[k], "Subscription") /\ \A m \in Stops(c) : m < k
    BY <1>4, <1>6, Zenon
  <2>2. k \in 1..(n + 1)
    BY <1>1
  <2>3. QED
    BY <1>2, <1>4, <1>5, <2>1, <2>2, Zenon
<1>7. CASE Asks(f, "Subscription")
  <2>1. PICK k \in 1..(n + 1) : k = n + 1 /\ \A m \in 1..n : m < k
    BY <1>1
  <2>2. \A m \in Stops(c)' : m < k
    BY <1>4, <1>5, <2>1, Zenon
  <2>3. Asks(up'[c][k], "Subscription")
    BY <1>2, <1>7, <2>1, Zenon
  <2>4. QED
    BY <1>4, <1>5, <2>1, <2>2, <2>3, Zenon
<1>8. QED
  BY <1>5, <1>6, <1>7, Zenon

LEMMA DrainOInv ==
    ASSUME LInv, OInv, Drain
    PROVE  OInv'
<1> DEFINE c == connection
<1>0. /\ UNCHANGED <<obs, registered, subscription, closed, calls>>
      /\ UNCHANGED <<connection, connected>> /\ connected
      /\ asked' = Client!AskedAfter(queue) /\ queue \in Seq(CP!Asking)
      /\ up' = IF queue = <<>> \/ c \in closed THEN up
               ELSE [up EXCEPT ![c] = Append(@, queue)]
      /\ c \in Clients /\ WireOK
  BY ClientFacts DEF Drain, Client!Drain, Ignore, serverState, LInv, WireOK
<1>1. Serving' /\ Looking'
  BY <1>0 DEF OInv, Serving, Looking
<1>2. Client!QueueMatchesEntry
  BY SameClient DEF LInv, CP!QInv
<1>3. \A type : Client!Queued(type) <=> Asks(queue, type)
  BY DEF Client!Queued, Client!Positions, Asks
<1>4. asked' = "sub" => \/ Asks(queue, "Subscription") /\ ~Asks(queue, "Unsubscribe")
                        \/ asked = "sub" /\ ~Asks(queue, "Unsubscribe")
  <2>1. ~(Client!Queued("Subscription") /\ Client!Queued("Unsubscribe"))
    BY <1>2 DEF Client!QueueMatchesEntry
  <2>2. asked' = "sub" =>
            \/ Client!Positions(queue, "Subscription") # {}
            \/ asked = "sub" /\ Client!Positions(queue, "Unsubscribe") = {}
    BY <1>0 DEF Client!AskedAfter
  <2>3. QED
    BY <1>3, <2>1, <2>2 DEF Client!Queued
<1>5. ASSUME asked' = "sub", c \notin closed PROVE Kept(c)'
  <2>1. asked = "sub" => Kept(c)
    BY <1>0, <1>5 DEF OInv
  <2>2. Wanted(c) => Wanted(c)'
    BY <1>0 DEF Wanted
  <2>3. CASE queue = <<>>
    <3>1. ~Asks(queue, "Subscription")
      BY <2>3 DEF Asks
    <3>2. up' = up
      BY <1>0, <2>3
    <3>3. Stops(c)' = Stops(c) /\ (Ordered(c) => Ordered(c)')
      BY <1>0, <3>2 DEF Stops, Ordered, Asks
    <3>4. QED
      BY <1>4, <1>5, <2>1, <2>2, <3>1, <3>3 DEF Kept
  <2>4. CASE queue # <<>>
    <3>1. up' = [up EXCEPT ![c] = Append(@, queue)]
      BY <1>0, <1>5, <2>4
    <3>2. ~Asks(queue, "Unsubscribe")
      BY <1>4, <1>5
    <3>3. \A d \in Clients : d = c =>
            /\ Stops(d)' = Stops(d)
            /\ Ordered(d) \/ Asks(queue, "Subscription") => Ordered(d)'
      BY <1>0, <3>1, <3>2, FrameOrders
    <3>4. /\ Stops(c)' = Stops(c)
          /\ Ordered(c) \/ Asks(queue, "Subscription") => Ordered(c)'
      BY <1>0, <3>3 DEF Stops, Ordered
    <3>5. QED
      BY <1>4, <1>5, <2>1, <2>2, <3>4 DEF Kept
  <2>5. QED
    BY <2>3, <2>4
<1>6. QED
  BY <1>0, <1>1, <1>5 DEF OInv

LEMMA InitOInv == Init => OInv
<1> SUFFICES ASSUME Init PROVE OInv
  OBVIOUS
<1>1. Serving
  BY DEF Init, Server!Init, Serving, Server!Unused, Server!NoEntry
<1>2. Looking
  BY DEF Init, Server!Init, Looking, Server!Idle, Server!Call
<1>3. QED
  BY <1>1, <1>2 DEF Init, Client!Init, OInv

LEMMA NextOInv == ~Authorizes /\ LInv /\ OInv /\ Alone /\ [Next]_vars => OInv'
<1> SUFFICES ASSUME ~Authorizes, LInv, OInv, Alone, [Next]_vars PROVE OInv'
  OBVIOUS
<1>1. CASE CallClient \/ Receive \/ Connect \/ Disconnect
  BY <1>1, ProgramOInv
<1>2. CASE Drain
  BY <1>2, DrainOInv
<1>3. CASE \E c \in Clients : Handle(c) \/ ServerClose(c)
  BY <1>3, HandleOInv, ServerCloseOInv
<1>4. CASE Resume \/ Publish \/ RemoveTimeout
  BY <1>4, ServerOInv
<1>5. CASE UNCHANGED vars
  <2>1. UNCHANGED <<obs, registered, subscription, closed, calls>>
        /\ UNCHANGED <<up, connected, asked, connection>>
    BY <1>5 DEF vars, clientVars, serverState
  <2>2. Serving' /\ Looking'
    BY <2>1 DEF OInv, Serving, Looking
  <2>3. Kept(connection) => Kept(connection)'
    BY <2>1 DEF Kept, Ordered, Stops, Wanted, Asks
  <2>4. QED
    BY <2>1, <2>2, <2>3 DEF OInv
<1>6. QED
  BY <1>1, <1>2, <1>3, <1>4, <1>5 DEF Next

\* Any callers, who come and go at any moment, over connections that break at
\* any moment, at a server that does not authorize: as long as no lookup of the
\* function begins while another awaits, an observer has an entry at the server
\* when nothing is on its way.
THEOREM ObserversAreServed ==
    ASSUME ~Authorizes
    PROVE  Spec /\ []Alone => []ObserverIsServed
<1>1. LInv /\ OInv /\ Client!ServerIsAsked => ObserverIsServed
  <2> SUFFICES ASSUME LInv, OInv, Client!ServerIsAsked, Quiet, Observed
               PROVE  subscription[connection] # None
    BY DEF ObserverIsServed
  <2>1. /\ connection \in Clients /\ connected /\ connection \notin closed
        /\ queue = <<>> /\ up[connection] = <<>>
        /\ \A s \in Calls : calls[s] = Server!Idle
    BY DEF Quiet, LInv, WireOK
  <2>2. asked = "sub"
    <3>1. Client!Occupied # {} /\ ~Client!OnlyGets
      BY DEF Observed, Client!OnlyGets
    <3>2. ~Client!Queued("Subscription")
      BY <2>1 DEF Client!Queued, Client!Positions
    <3>3. QED
      BY <2>1, <3>1, <3>2 DEF Client!ServerIsAsked
  <2>3. Kept(connection)
    BY <2>1, <2>2 DEF OInv
  <2>4. ~Ordered(connection)
    BY <2>1 DEF Ordered
  <2>5. \A s \in Calls : calls[s].op # "subscribe"
    BY <2>1 DEF Server!Idle, Server!Call
  <2>6. PICK i \in Instances : obs[i].clients[connection].get \in {"sub", "both"}
    BY <2>3, <2>4, <2>5 DEF Kept, Wanted
  <2>7. subscription[connection] = i
    BY <2>1, <2>6 DEF OInv, Serving
  <2>8. QED
    BY <2>7, Assumed
<1>2. Spec => []Client!ServerIsAsked
  BY ClientHolds, PTL
<1>3. QED
  BY <1>1, <1>2, InitOInv, NextOInv, Invariance, PTL DEF Spec
=============================================================================
