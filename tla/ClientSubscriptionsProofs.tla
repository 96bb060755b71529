--------------------- MODULE ClientSubscriptionsProofs ---------------------
(***************************************************************************)
(* Invariants of ClientSubscriptions for every number of callers, slots,   *)
(* versions and queued requests: first of the entry (IInv), where nothing  *)
(* depends on what is queued, then of the queue (QInv).                    *)
(***************************************************************************)
EXTENDS ClientSubscriptions, FiniteSetTheorems, SequenceTheorems, RecursionFacts

IInv == EntryTypeOK /\ CountCoversSubscribers /\ ObserversAgree /\ HandlesMatch

SubscriberRecords ==
    [caller : Callers \cup {None}, onData : BOOLEAN, onInitial : BOOLEAN]

LEMMA OccupiedFinite ==
    /\ IsFiniteSet(Occupied)
    /\ Cardinality(Occupied) \in Nat
<1>1. IsFiniteSet(Slots)
  BY MaxSlotIsNat, FS_Interval DEF Slots
<1>2. Occupied \subseteq Slots
  BY DEF Occupied
<1>3. QED
  BY <1>1, <1>2, FS_Subset, FS_CardinalityType

\* A caller has at most one subscriber, and none when it is idle.
LEMMA OneSlotEach ==
    ASSUME HandlesMatch, EntryTypeOK
    PROVE  /\ \A s, t \in Occupied :
                subscribers[s].caller = subscribers[t].caller => s = t
           /\ \A s \in Occupied : /\ subscribers[s].caller \in Callers
                                  /\ call[subscribers[s].caller] # "idle"
<1>1. \A s \in Occupied : subscribers[s].caller \in Callers
  BY DEF EntryTypeOK, Occupied
<1>2. QED
  BY <1>1 DEF HandlesMatch

\* The new subscriber may take the slot of another; the rest stay.
LEMMA JoinStep ==
    ASSUME IInv, NEW p \in Callers, call[p] = "idle",
           NEW onData \in BOOLEAN, NEW onInitial \in BOOLEAN,
           Join(p, onData, onInitial)
    PROVE  /\ cnt' \in 0..MaxSlot
           /\ subscribers' \in [Slots -> SubscriberRecords]
           /\ handle' \in [Callers -> 0..MaxSlot]
           /\ CountCoversSubscribers'
           /\ cnt + 1 \in Slots
           /\ subscribers'[cnt + 1].caller = p
           /\ subscribers'[cnt + 1].onData = onData
           /\ subscribers'[cnt + 1].onInitial = onInitial
           /\ handle'[p] = cnt + 1
           /\ \A s \in Occupied' : s # cnt + 1 =>
                /\ s \in Occupied
                /\ subscribers'[s] = subscribers[s]
                /\ subscribers[s].caller # p
                /\ handle'[subscribers[s].caller] = handle[subscribers[s].caller]
<1>0. cnt \in 0..MaxSlot /\ cnt + 1 \in 1..MaxSlot /\ cnt' = cnt + 1
  BY MaxSlotIsNat DEF Join, IInv, EntryTypeOK
<1>1. subscribers \in [Slots -> SubscriberRecords]
  BY DEF IInv, EntryTypeOK, SubscriberRecords
<1>2. Subscriber(p, onData, onInitial) \in SubscriberRecords
  BY DEF Subscriber, SubscriberRecords
<1>3. subscribers' \in [Slots -> SubscriberRecords]
  BY <1>1, <1>2 DEF Join
<1>4. /\ cnt + 1 \in Slots
      /\ subscribers'[cnt + 1] = Subscriber(p, onData, onInitial)
      /\ \A s \in Slots : s # cnt + 1 => subscribers'[s] = subscribers[s]
  BY <1>0, <1>1 DEF Join, Slots
<1>5. /\ handle' \in [Callers -> 0..MaxSlot]
      /\ handle'[p] = cnt + 1
      /\ \A q \in Callers : q # p => handle'[q] = handle[q]
  BY <1>0 DEF Join, IInv, EntryTypeOK
<1>6. Occupied' \subseteq Occupied \cup {cnt + 1}
  BY <1>4 DEF Occupied
<1>7. CountCoversSubscribers'
  <2>1. /\ IsFiniteSet(Occupied \cup {cnt + 1})
        /\ Cardinality(Occupied \cup {cnt + 1}) <= Cardinality(Occupied) + 1
    <3>1. /\ IsFiniteSet(Occupied \cup {cnt + 1})
          /\ \/ Cardinality(Occupied \cup {cnt + 1}) = Cardinality(Occupied)
             \/ Cardinality(Occupied \cup {cnt + 1}) = Cardinality(Occupied) + 1
      BY OccupiedFinite, FS_AddElement
    <3>2. QED
      BY <3>1, OccupiedFinite
  <2>2. /\ Cardinality(Occupied') <= Cardinality(Occupied \cup {cnt + 1})
        /\ IsFiniteSet(Occupied')
    BY <1>6, <2>1, FS_Subset
  <2>3. /\ Cardinality(Occupied') \in Nat
        /\ Cardinality(Occupied \cup {cnt + 1}) \in Nat
    BY <2>1, <2>2, FS_CardinalityType
  <2>4. Cardinality(Occupied) <= cnt
    BY DEF IInv, CountCoversSubscribers
  <2>5. Cardinality(Occupied') <= cnt'
    BY <1>0, <2>1, <2>2, <2>3, <2>4, OccupiedFinite
  <2>6. QED
    BY <2>5 DEF CountCoversSubscribers
<1>8. \A s \in Occupied' : s # cnt + 1 =>
        /\ s \in Occupied
        /\ subscribers'[s] = subscribers[s]
        /\ subscribers[s].caller # p
        /\ subscribers[s].caller \in Callers
  BY <1>4, <1>6, OneSlotEach DEF IInv, Occupied
<1>9. QED
  BY <1>0, <1>3, <1>4, <1>5, <1>7, <1>8 DEF Subscriber

\* The count goes down by as many as leave, so it still covers the rest.
LEMMA ReleaseStep ==
    ASSUME EntryTypeOK, CountCoversSubscribers, NEW R, R \subseteq Occupied,
           Release(R), Occupied' = Occupied \ R
    PROVE  cnt' \in 0..MaxSlot /\ CountCoversSubscribers'
<1>1. cnt \in 0..MaxSlot /\ cnt' = cnt - Cardinality(R)
  BY DEF EntryTypeOK, Release
<1>2. IsFiniteSet(R) /\ Cardinality(R) \in Nat
      /\ Cardinality(R) <= Cardinality(Occupied)
  BY OccupiedFinite, FS_Subset, FS_CardinalityType
<1>3. Cardinality(Occupied \ R) = Cardinality(Occupied) - Cardinality(R)
  <2>1. Occupied \cap R = R
    OBVIOUS
  <2>2. QED
    BY <2>1, OccupiedFinite, FS_Difference
<1>4. Cardinality(Occupied) <= cnt
  BY DEF CountCoversSubscribers
<1>5. Cardinality(Occupied') <= cnt'
  BY <1>1, <1>2, <1>3, <1>4, OccupiedFinite
<1>6. cnt' \in 0..MaxSlot
  BY <1>1, <1>2, <1>4, OccupiedFinite, MaxSlotIsNat
<1>7. QED
  BY <1>5, <1>6 DEF CountCoversSubscribers

\* An answer ends every wait; whoever stays is open afterwards.
LEMMA SettleStep ==
    ASSUME IInv, NEW R, NEW waiter \in {"idle", "open"},
           Getters \subseteq R, R \subseteq Pending,
           waiter = "idle" => R = Pending,
           Settle(R, waiter), handle' = handle
    PROVE  /\ cnt' \in 0..MaxSlot
           /\ subscribers' \in [Slots -> SubscriberRecords]
           /\ call' \in [Callers -> {"idle", "get", "observe", "open"}]
           /\ CountCoversSubscribers'
           /\ HandlesMatch'
           /\ Occupied' = Occupied \ R
           /\ \A s \in Occupied' :
                /\ subscribers'[s].caller = subscribers[s].caller
                /\ subscribers'[s].onData = subscribers[s].onData
                /\ ~subscribers'[s].onInitial
<1>0. R \subseteq Occupied
  BY DEF Pending
<1>1. /\ subscribers \in [Slots -> SubscriberRecords]
      /\ call \in [Callers -> {"idle", "get", "observe", "open"}]
  BY DEF IInv, EntryTypeOK, SubscriberRecords
<1>2. \A s \in Slots : subscribers'[s] =
        IF s \in R THEN Vacant ELSE [subscribers[s] EXCEPT !.onInitial = FALSE]
  BY DEF Settle
<1>3. subscribers' \in [Slots -> SubscriberRecords]
  <2>1. Vacant \in SubscriberRecords
    BY DEF Vacant, Subscriber, SubscriberRecords
  <2>2. \A s \in Slots :
            [subscribers[s] EXCEPT !.onInitial = FALSE] \in SubscriberRecords
    BY <1>1 DEF SubscriberRecords
  <2>3. QED
    BY <2>1, <2>2 DEF Settle
<1>4. Occupied' = Occupied \ R
  <2>1. \A s \in Slots : s \notin R =>
            subscribers'[s].caller = subscribers[s].caller
    BY <1>1, <1>2 DEF SubscriberRecords
  <2>2. \A s \in R : s \in Slots /\ subscribers'[s].caller = None
    <3>1. R \subseteq Slots
      BY <1>0 DEF Occupied
    <3>2. \A s \in R : subscribers'[s] = Vacant
      BY <1>2, <3>1
    <3>3. QED
      BY <3>1, <3>2 DEF Vacant, Subscriber
  <2>3. QED
    BY <1>0, <2>1, <2>2 DEF Occupied
<1>5. \A s \in Occupied' :
        /\ s \in Occupied /\ s \in Slots
        /\ subscribers'[s].caller = subscribers[s].caller
        /\ subscribers'[s].onData = subscribers[s].onData
        /\ ~subscribers'[s].onInitial
  BY <1>1, <1>2, <1>4 DEF Occupied, SubscriberRecords
<1>6. call' \in [Callers -> {"idle", "get", "observe", "open"}]
  BY <1>1 DEF Settle
<1>7. HandlesMatch'
  <2> SUFFICES ASSUME NEW s \in Occupied'
               PROVE  /\ handle[subscribers[s].caller] = s
                      /\ subscribers[s].onData
                      /\ call'[subscribers[s].caller] = "open"
    BY <1>5 DEF HandlesMatch
  <2> DEFINE p == subscribers[s].caller
  <2>0. s \in Occupied \ R /\ p \in Callers /\ handle[p] = s
    BY <1>4, OneSlotEach DEF IInv, HandlesMatch
  <2>1. call'[p] = IF \A t \in Pending : subscribers[t].caller # p THEN call[p]
                   ELSE IF call[p] = "observe" THEN waiter ELSE "idle"
    BY <2>0 DEF Settle
  <2>2. CASE s \in Pending
    <3>1. subscribers[s].onData
      BY <2>0, <2>2 DEF Getters
    <3>2. call[p] = "observe"
      BY <2>0, <2>2, <3>1 DEF IInv, HandlesMatch, Pending
    <3>3. waiter = "open"
      BY <2>0, <2>2
    <3>4. QED
      BY <2>0, <2>1, <2>2, <3>1, <3>2, <3>3
  <2>3. CASE s \notin Pending
    <3>1. \A t \in Pending : subscribers[t].caller # p
      BY <2>0, <2>3, OneSlotEach DEF IInv, Pending
    <3>2. ~subscribers[s].onInitial
      BY <2>0, <2>3 DEF Pending
    <3>3. subscribers[s].onData
      BY <2>0, <3>2 DEF IInv, HandlesMatch
    <3>4. call[p] = "open"
      BY <2>0, <3>2, <3>3 DEF IInv, HandlesMatch
    <3>5. QED
      BY <2>0, <2>1, <3>1, <3>3, <3>4
  <2>4. QED
    BY <2>2, <2>3
<1>8. cnt' \in 0..MaxSlot /\ CountCoversSubscribers'
  BY <1>0, <1>4, ReleaseStep DEF IInv, Settle
<1>9. QED
  BY <1>3, <1>4, <1>5, <1>6, <1>7, <1>8
-----------------------------------------------------------------------------
LEMMA InitIInv == Init => IInv
<1> SUFFICES ASSUME Init PROVE IInv
  OBVIOUS
<1>1. EntryTypeOK
  BY MaxSlotIsNat
  DEF Init, EntryTypeOK, Vacant, Subscriber, NoCache, VersionOrNone
<1>2. Occupied = {}
  BY DEF Init, Occupied, Vacant, Subscriber
<1>3. QED
  BY <1>1, <1>2, FS_EmptySet
  DEF Init, IInv, CountCoversSubscribers, ObserversAgree, HandlesMatch

LEMMA ObserveIInv ==
    ASSUME IInv, NEW p \in Callers, Observe(p)
    PROVE  IInv'
<1> DEFINE hit == cache # NoCache
<1>1. /\ cnt' \in 0..MaxSlot
      /\ subscribers' \in [Slots -> SubscriberRecords]
      /\ handle' \in [Callers -> 0..MaxSlot]
      /\ CountCoversSubscribers'
      /\ cnt + 1 \in Slots
      /\ subscribers'[cnt + 1].caller = p
      /\ subscribers'[cnt + 1].onData
      /\ subscribers'[cnt + 1].onInitial <=> ~hit
      /\ handle'[p] = cnt + 1
      /\ \A s \in Occupied' : s # cnt + 1 =>
            /\ s \in Occupied
            /\ subscribers'[s] = subscribers[s]
            /\ subscribers[s].caller # p
            /\ handle'[subscribers[s].caller] = handle[subscribers[s].caller]
  BY JoinStep DEF Observe
<1>2. /\ call' = [call EXCEPT ![p] = IF hit THEN "open" ELSE "observe"]
      /\ view' = IF hit THEN [view EXCEPT ![p] = cache.value] ELSE view
      /\ cache' = cache
  BY DEF Observe
<1>3. /\ call' \in [Callers -> {"idle", "get", "observe", "open"}]
      /\ view' \in [Callers -> VersionOrNone]
      /\ cache' \in [value : VersionOrNone, checksum : VersionOrNone]
  BY <1>2 DEF IInv, EntryTypeOK
<1>4. EntryTypeOK'
  BY <1>1, <1>3 DEF EntryTypeOK, SubscriberRecords
<1>5. \A s \in Occupied' : s # cnt + 1 =>
        LET q == subscribers[s].caller IN
        q \in Callers /\ call'[q] = call[q] /\ view'[q] = view[q]
  BY <1>1, <1>2, OneSlotEach DEF IInv, EntryTypeOK
<1>6. /\ call'[p] = IF hit THEN "open" ELSE "observe"
      /\ hit => view'[p] = cache.value
  BY <1>2 DEF IInv, EntryTypeOK
<1> HIDE DEF hit
<1>7. HandlesMatch' /\ ObserversAgree'
  <2>1. ASSUME NEW s \in Occupied'
        PROVE  LET q == subscribers'[s].caller IN
               /\ handle'[q] = s
               /\ subscribers'[s].onData \/ subscribers'[s].onInitial
               /\ call'[q] = IF ~subscribers'[s].onData THEN "get"
                             ELSE IF subscribers'[s].onInitial THEN "observe"
                             ELSE "open"
               /\ subscribers'[s].onData /\ hit =>
                    ~subscribers'[s].onInitial /\ view'[q] = cache.value
    <3>1. CASE s = cnt + 1
      BY <1>1, <1>6, <3>1
    <3>2. CASE s # cnt + 1
      BY <1>1, <1>5, <2>1, <3>2 DEF IInv, HandlesMatch, ObserversAgree, hit
    <3>3. QED
      BY <3>1, <3>2
  <2>2. cache' = cache /\ NoCache' = NoCache
    BY <1>2 DEF NoCache
  <2>3. HandlesMatch'
    BY <2>1 DEF HandlesMatch
  <2>4. ObserversAgree'
    BY <2>1, <2>2 DEF ObserversAgree, hit
  <2>5. QED
    BY <2>3, <2>4
<1>8. QED
  BY <1>1, <1>4, <1>7 DEF IInv

LEMMA GetFromCacheIInv ==
    ASSUME IInv, NEW p \in Callers, GetFromCache(p)
    PROVE  IInv'
<1>1. /\ UNCHANGED <<cnt, subscribers, call, handle, cache>>
      /\ call[p] = "idle"
      /\ view' = [view EXCEPT ![p] = cache.value]
  BY DEF GetFromCache
<1>2. EntryTypeOK'
  BY <1>1 DEF IInv, EntryTypeOK
<1>3. Occupied' = Occupied
  BY <1>1 DEF Occupied
<1>4. \A s \in Occupied : view'[subscribers[s].caller] = view[subscribers[s].caller]
  BY <1>1, OneSlotEach DEF IInv, EntryTypeOK
<1>5. QED
  BY <1>1, <1>2, <1>3, <1>4
  DEF IInv, CountCoversSubscribers, ObserversAgree, HandlesMatch, NoCache

LEMMA GetWaitingIInv ==
    ASSUME IInv, NEW p \in Callers, GetWaiting(p)
    PROVE  IInv'
<1>1. /\ cnt' \in 0..MaxSlot
      /\ subscribers' \in [Slots -> SubscriberRecords]
      /\ handle' \in [Callers -> 0..MaxSlot]
      /\ CountCoversSubscribers'
      /\ cnt + 1 \in Slots
      /\ subscribers'[cnt + 1].caller = p
      /\ ~subscribers'[cnt + 1].onData
      /\ subscribers'[cnt + 1].onInitial
      /\ handle'[p] = cnt + 1
      /\ \A s \in Occupied' : s # cnt + 1 =>
            /\ s \in Occupied
            /\ subscribers'[s] = subscribers[s]
            /\ subscribers[s].caller # p
            /\ handle'[subscribers[s].caller] = handle[subscribers[s].caller]
  BY JoinStep DEF GetWaiting
<1>2. /\ call' = [call EXCEPT ![p] = "get"]
      /\ UNCHANGED <<view, cache>>
  BY DEF GetWaiting
<1>3. call' \in [Callers -> {"idle", "get", "observe", "open"}]
  BY <1>2 DEF IInv, EntryTypeOK
<1>4. EntryTypeOK'
  BY <1>1, <1>2, <1>3 DEF IInv, EntryTypeOK, SubscriberRecords
<1>5. \A s \in Occupied' : s # cnt + 1 =>
        LET q == subscribers[s].caller IN q \in Callers /\ call'[q] = call[q]
  BY <1>1, <1>2, OneSlotEach DEF IInv, EntryTypeOK
<1>6. call'[p] = "get"
  BY <1>2 DEF IInv, EntryTypeOK
<1>7. HandlesMatch'
  BY <1>1, <1>5, <1>6 DEF HandlesMatch, IInv, Subscriber
<1>8. ObserversAgree'
  BY <1>1, <1>2 DEF ObserversAgree, IInv, Subscriber, NoCache
<1>9. QED
  BY <1>1, <1>4, <1>7, <1>8 DEF IInv

LEMMA CloseIInv ==
    ASSUME IInv, NEW p \in Callers, Close(p)
    PROVE  IInv'
<1> DEFINE R == {handle[p]} \cap Occupied
<1>1. /\ call[p] = "open"
      /\ call' = [call EXCEPT ![p] = "idle"]
      /\ subscribers' = [s \in Slots |-> IF s \in R THEN Vacant ELSE subscribers[s]]
      /\ Release(R)
      /\ UNCHANGED <<handle, view, cache>>
  BY DEF Close
<1>2. subscribers \in [Slots -> SubscriberRecords]
  BY DEF IInv, EntryTypeOK, SubscriberRecords
<1>3. Vacant \in SubscriberRecords /\ Vacant.caller = None
  BY DEF Vacant, Subscriber, SubscriberRecords
<1>4. subscribers' \in [Slots -> SubscriberRecords]
  BY <1>1, <1>2, <1>3
<1>5. Occupied' = Occupied \ R
  BY <1>1, <1>3 DEF Occupied
<1>6. cnt' \in 0..MaxSlot /\ CountCoversSubscribers'
  <2>1. R \subseteq Occupied
    OBVIOUS
  <2> HIDE DEF R
  <2>2. QED
    BY <1>1, <1>5, <2>1, ReleaseStep DEF IInv
<1>7. call' \in [Callers -> {"idle", "get", "observe", "open"}]
  BY <1>1 DEF IInv, EntryTypeOK
<1>8. EntryTypeOK'
  BY <1>1, <1>4, <1>6, <1>7 DEF IInv, EntryTypeOK, SubscriberRecords
<1>9. \A s \in Occupied' :
        /\ s \in Occupied /\ subscribers'[s] = subscribers[s]
        /\ call'[subscribers[s].caller] = call[subscribers[s].caller]
  <2>1. \A s \in Occupied' : s \in Occupied /\ subscribers'[s] = subscribers[s]
    BY <1>1, <1>5 DEF Occupied
  <2>2. \A s \in Occupied' : subscribers[s].caller # p
    BY <1>5 DEF IInv, HandlesMatch
  <2>3. QED
    BY <1>1, <2>1, <2>2, OneSlotEach DEF IInv, EntryTypeOK
<1>10. HandlesMatch' /\ ObserversAgree'
  BY <1>1, <1>9 DEF IInv, HandlesMatch, ObserversAgree, NoCache
<1>11. QED
  BY <1>6, <1>8, <1>10 DEF IInv

LEMMA GiveType ==
    ASSUME IInv, NEW slots, NEW v \in VersionOrNone, Give(slots, v)
    PROVE  view' \in [Callers -> VersionOrNone]
BY DEF Give, IInv, EntryTypeOK

LEMMA GettersArePending == Getters \subseteq Pending
BY DEF Getters

LEMMA RejectIInv ==
    ASSUME IInv, Reject, handle' = handle
    PROVE  IInv'
<1>1. /\ cnt' \in 0..MaxSlot
      /\ subscribers' \in [Slots -> SubscriberRecords]
      /\ call' \in [Callers -> {"idle", "get", "observe", "open"}]
      /\ CountCoversSubscribers' /\ HandlesMatch'
      /\ Occupied' = Occupied \ Pending
      /\ \A s \in Occupied' :
            /\ subscribers'[s].caller = subscribers[s].caller
            /\ subscribers'[s].onData = subscribers[s].onData
            /\ ~subscribers'[s].onInitial
  BY SettleStep, GettersArePending DEF Reject
<1>2. UNCHANGED <<view, cache>>
  BY DEF Reject
<1>3. EntryTypeOK'
  BY <1>1, <1>2 DEF IInv, EntryTypeOK, SubscriberRecords
<1>4. ObserversAgree'
  BY <1>1, <1>2 DEF IInv, ObserversAgree, NoCache
<1>5. QED
  BY <1>1, <1>3, <1>4 DEF IInv

LEMMA ConfirmIInv ==
    ASSUME IInv, Confirm, handle' = handle, cache # NoCache
    PROVE  IInv'
<1>1. /\ cnt' \in 0..MaxSlot
      /\ subscribers' \in [Slots -> SubscriberRecords]
      /\ call' \in [Callers -> {"idle", "get", "observe", "open"}]
      /\ CountCoversSubscribers' /\ HandlesMatch'
      /\ Occupied' = Occupied \ Getters
      /\ \A s \in Occupied' :
            /\ subscribers'[s].caller = subscribers[s].caller
            /\ subscribers'[s].onData = subscribers[s].onData
            /\ ~subscribers'[s].onInitial
  BY SettleStep, GettersArePending DEF Confirm
<1>2. cache' = cache /\ Give(Getters, cache.value)
  BY DEF Confirm
<1>3. view' \in [Callers -> VersionOrNone]
  BY <1>2, GiveType DEF IInv, EntryTypeOK
<1>4. EntryTypeOK'
  BY <1>1, <1>2, <1>3 DEF IInv, EntryTypeOK, SubscriberRecords
<1>5. ObserversAgree'
  <2>1. \A s \in Occupied : subscribers[s].onData =>
            view[subscribers[s].caller] = cache.value
    BY DEF IInv, ObserversAgree
  <2>2. \A s \in Occupied : subscribers[s].onData =>
            view'[subscribers[s].caller] = cache.value
    BY <1>2, <2>1, OneSlotEach DEF Give, IInv
  <2>3. QED
    BY <1>1, <1>2, <2>2 DEF ObserversAgree
<1>6. QED
  BY <1>1, <1>4, <1>5 DEF IInv

LEMMA DeliverIInv ==
    ASSUME IInv, NEW v \in VersionOrNone, NEW k \in VersionOrNone,
           Deliver(v, k), handle' = handle
    PROVE  IInv'
<1>1. /\ cnt' \in 0..MaxSlot
      /\ subscribers' \in [Slots -> SubscriberRecords]
      /\ call' \in [Callers -> {"idle", "get", "observe", "open"}]
      /\ CountCoversSubscribers' /\ HandlesMatch'
      /\ Occupied' = Occupied \ Getters
      /\ \A s \in Occupied' :
            /\ subscribers'[s].caller = subscribers[s].caller
            /\ subscribers'[s].onData = subscribers[s].onData
            /\ ~subscribers'[s].onInitial
  BY SettleStep, GettersArePending DEF Deliver
<1>2. cache' = Cached(v, k) /\ Give(Occupied, v)
  BY DEF Deliver
<1>3. /\ view' \in [Callers -> VersionOrNone]
      /\ cache' \in [value : VersionOrNone, checksum : VersionOrNone]
      /\ cache'.value = v
  BY <1>2, GiveType DEF Cached
<1>4. EntryTypeOK'
  BY <1>1, <1>3 DEF IInv, EntryTypeOK, SubscriberRecords
<1>5. \A s \in Occupied : view'[subscribers[s].caller] = v
  BY <1>2, OneSlotEach DEF Give, IInv
<1>6. ObserversAgree'
  BY <1>1, <1>3, <1>5 DEF ObserversAgree
<1>7. QED
  BY <1>1, <1>4, <1>6 DEF IInv

\* A diff that does not apply leaves the cache or empties it.
LEMMA RefetchIInv ==
    ASSUME IInv, NEW c \in {cache, NoCache}, Refetch(c), handle' = handle
    PROVE  IInv'
<1>1. cache' = c /\ UNCHANGED <<cnt, subscribers, call, view, handle>>
  BY DEF Refetch
<1>2. cache' \in [value : VersionOrNone, checksum : VersionOrNone]
  BY <1>1 DEF IInv, EntryTypeOK, NoCache, VersionOrNone
<1>3. EntryTypeOK' /\ Occupied' = Occupied
  BY <1>1, <1>2 DEF IInv, EntryTypeOK, Occupied
<1>4. QED
  BY <1>1, <1>3
  DEF IInv, CountCoversSubscribers, ObserversAgree, HandlesMatch, NoCache

\* A message the server may send either changes nothing or ends in one of the
\* four outcomes above.
LEMMA ReceiveIInv ==
    ASSUME IInv, NEW m \in Incoming, Receive(m)
    PROVE  IInv'
<1>0. m \in Downstream /\ (m.type # "error" => m.checksum \in Versions)
  BY DEF Incoming, Downstream, Error, Full, Same, Diff, Message, VersionOrNone
<1>1. CASE UNCHANGED vars
  BY <1>1 DEF vars, IInv, EntryTypeOK, CountCoversSubscribers, ObserversAgree,
     HandlesMatch, Occupied, NoCache
<1>2. CASE handle' = handle /\ IncomingSubscription(m)
  <2>1. CASE Reject
    BY <1>2, <2>1, RejectIInv
  <2>2. CASE m.type # "error" /\ m.checksum = cache.checksum /\ Confirm
    <3>1. cache # NoCache
      BY <1>0, <2>2, NoneIsNoVersion DEF NoCache
    <3>2. QED
      BY <1>2, <2>2, <3>1, ConfirmIInv
  <2>3. CASE Deliver(IF m.type = "data" THEN m.checksum ELSE None, m.checksum)
    <3> DEFINE v == IF m.type = "data" THEN m.checksum ELSE None
    <3>1. v \in VersionOrNone /\ m.checksum \in VersionOrNone
      BY <1>0 DEF Downstream, VersionOrNone
    <3> HIDE DEF v
    <3>2. Deliver(v, m.checksum)
      BY <2>3 DEF v
    <3>3. QED
      BY <1>2, <3>1, <3>2, DeliverIInv
  <2>4. QED
    BY <1>2, <2>1, <2>2, <2>3 DEF IncomingSubscription
<1>3. CASE handle' = handle /\ IncomingSubscriptionDiff(m)
  <2>1. CASE cache.checksum = m.checksum /\ Confirm
    <3>1. cache # NoCache
      BY <1>0, <1>3, <2>1, NoneIsNoVersion DEF NoCache, IncomingSubscriptionDiff
    <3>2. QED
      BY <1>3, <2>1, <3>1, ConfirmIInv
  <2>2. CASE Refetch(cache) \/ Refetch(NoCache)
    BY <1>3, <2>2, RefetchIInv
  <2>3. CASE Deliver(m.checksum, m.checksum)
    <3>1. m.checksum \in VersionOrNone
      BY <1>0 DEF Downstream
    <3>2. QED
      BY <1>3, <2>3, <3>1, DeliverIInv
  <2>4. QED
    BY <1>3, <2>1, <2>2, <2>3 DEF IncomingSubscriptionDiff
<1>4. QED
  BY <1>1, <1>2, <1>3 DEF Receive

\* The queue and the connection are not part of this invariant.
LEMMA NextIInv == IInv /\ [Next]_vars => IInv'
<1> SUFFICES ASSUME IInv, [Next]_vars PROVE IInv'
  OBVIOUS
<1>1. CASE \E p \in Callers :
            Observe(p) \/ GetFromCache(p) \/ GetWaiting(p) \/ Close(p)
  BY <1>1, ObserveIInv, GetFromCacheIInv, GetWaitingIInv, CloseIInv
<1>2. CASE \E m \in Incoming : Receive(m)
  BY <1>2, ReceiveIInv
<1>3. CASE UNCHANGED <<cnt, subscribers, call, handle, view, cache>>
  BY <1>3 DEF IInv, EntryTypeOK, CountCoversSubscribers, ObserversAgree,
     HandlesMatch, Occupied, NoCache
<1>4. QED
  BY <1>1, <1>2, <1>3 DEF Next, vars, Drain, Connect, Disconnect

\* The strengthened invariant holds in every reachable state; the theorems
\* below take from it what the runs check.
THEOREM Invariance == Spec => []IInv
BY InitIInv, NextIInv, PTL DEF Spec
-----------------------------------------------------------------------------
\* However often callers come and go, the count never falls below the number
\* of subscribers, so no subscriber loses its entry.
THEOREM CountCovers == Spec => []CountCoversSubscribers
BY Invariance, PTL DEF IInv

\* All observers with a subscriber hold the cached value, whatever the server
\* sends and in whatever order.
THEOREM ObserversHoldTheCache == Spec => []ObserversAgree
BY Invariance, PTL DEF IInv

\* A caller with a subscriber waits for what the subscriber says and closes
\* that subscriber.
THEOREM HandlesAreRight == Spec => []HandlesMatch
BY Invariance, PTL DEF IInv

-----------------------------------------------------------------------------
(***************************************************************************)
(* The queue.  Of a queue only the types in it matter here.                *)
(***************************************************************************)
\* What a client asks: a Subscription is with or without a get.
Asking == {m \in Upstream : m.type = "Subscription" => m.get \in {"sub", "both"}}

\* The server is or will be asked for the entry, which is not yet the case of
\* an entry that has lost all of its subscribers.
EntryIsAsked ==
    \/ Queued("Subscription") \/ asked = "sub"
    \/ OnlyGets /\ (Queued("GetSubscription") \/ asked = "get")

QInv ==
    /\ queue \in Seq(Asking)
    /\ draining => connected
    /\ ~connected => asked = "nothing"
    /\ QueueMatchesEntry
    /\ connected /\ cnt # 0 => EntryIsAsked
    /\ connected /\ cnt = 0 /\ asked = "sub" => Queued("Unsubscribe")

LEMMA MessagesAre ==
    /\ UnsubscribeMsg \in Asking /\ UnsubscribeMsg.type = "Unsubscribe"
    /\ SendDataMsg \in Asking /\ SendDataMsg.type = "SendSubscriptionData"
    /\ \A k \in VersionOrNone :
        /\ GetMsg(k) \in Asking /\ GetMsg(k).type = "GetSubscription"
        /\ \A get \in {"sub", "both"} :
            SubscribeMsg(k, get) \in Asking /\ SubscribeMsg(k, get).type = "Subscription"
BY DEF UnsubscribeMsg, SendDataMsg, GetMsg, SubscribeMsg, Request, Asking, Upstream,
       VersionOrNone

\* What is left of the first n requests.
Left(q, types, n) ==
    {s \in Seq(Asking) :
        \A t : (\E i \in 1..Len(s) : s[i].type = t)
               <=> (t \notin types /\ \E i \in 1..n : q[i].type = t)}

LEMMA LeftIs ==
    ASSUME NEW q \in Seq(Asking), NEW types, NEW n \in 1..Len(q),
           NEW s \in Left(q, types, n - 1)
    PROVE  (IF q[n].type \in types THEN s ELSE Append(s, q[n])) \in Left(q, types, n)
<1> DEFINE Before(t) == \E i \in 1..(n - 1) : q[i].type = t
           Upto(t) == \E i \in 1..n : q[i].type = t
           In(r, t) == \E i \in 1..Len(r) : r[i].type = t
<1>1. n \in Nat /\ n \in 1..n /\ \A i : i \in 1..n <=> i \in 1..(n - 1) \/ i = n
  OBVIOUS
<1>2. \A t : Upto(t) <=> Before(t) \/ q[n].type = t
  BY <1>1, Zenon
<1>3. s \in Seq(Asking) /\ \A t : In(s, t) <=> (t \notin types /\ Before(t))
  BY DEF Left
<1>4. CASE q[n].type \in types
  <2>1. \A t : In(s, t) <=> (t \notin types /\ Upto(t))
    BY <1>2, <1>3, <1>4, Zenon
  <2>2. QED
    BY <1>3, <1>4, <2>1 DEF Left
<1>5. CASE q[n].type \notin types
  <2> DEFINE r == Append(s, q[n])
             l == Len(s)
  <2>1. /\ l \in Nat /\ r \in Seq(Asking) /\ Len(r) = l + 1
        /\ r[l + 1] = q[n] /\ \A i \in 1..l : r[i] = s[i]
    BY <1>3
  <2> HIDE DEF r
  <2>2. \A t : In(s, t) <=> \E i \in 1..l : s[i].type = t
    OBVIOUS
  <2> HIDE DEF l
  <2>3. \A i : i \in 1..Len(r) <=> i \in 1..l \/ i = l + 1
    BY <2>1
  <2>4. \A t : In(r, t) <=> In(s, t) \/ q[n].type = t
    <3> SUFFICES ASSUME NEW t PROVE In(r, t) <=> In(s, t) \/ q[n].type = t
      OBVIOUS
    <3>1. ASSUME In(r, t) PROVE In(s, t) \/ q[n].type = t
      <4>1. PICK i \in 1..Len(r) : r[i].type = t
        BY <3>1
      <4>2. QED
        BY <2>1, <2>2, <2>3, <4>1
    <3>2. ASSUME In(s, t) PROVE In(r, t)
      <4>1. PICK i \in 1..l : s[i].type = t
        BY <2>2, <3>2
      <4>2. i \in 1..Len(r) /\ r[i].type = t
        BY <2>1, <2>3, <4>1
      <4>3. QED
        BY <4>2
    <3>3. ASSUME q[n].type = t PROVE In(r, t)
      <4>1. l + 1 \in 1..Len(r) /\ r[l + 1].type = t
        BY <2>1, <2>3, <3>3
      <4>2. QED
        BY <4>1
    <3>4. QED
      BY <3>1, <3>2, <3>3
  <2>5. \A t : In(r, t) <=> (t \notin types /\ Upto(t))
    BY <1>2, <1>3, <1>5, <2>4, Zenon
  <2>6. r \in Left(q, types, n)
    BY <2>1, <2>5 DEF Left
  <2>7. QED
    BY <1>5, <2>6 DEF r
<1>6. QED
  BY <1>4, <1>5

LEMMA WithoutIs ==
    ASSUME NEW q \in Seq(Asking), NEW types
    PROVE  /\ Without(q, types) \in Seq(Asking)
           /\ \A t : Positions(Without(q, types), t) # {}
                    <=> (t \notin types /\ Positions(q, t) # {})
<1> DEFINE n == Len(q)
           I == [i \in 0..n |-> Left(q, types, i)]
           Step(s, i) == IF q[i].type \in types THEN s ELSE Append(s, q[i])
           G == [i \in 1..n |-> [s \in I[i - 1] |-> Step(s, i)]]
           E(f) == f = [i \in 0..n |-> IF i = 0 THEN <<>>
                                       ELSE IF q[i].type \in types THEN f[i - 1]
                                       ELSE Append(f[i - 1], q[i])]
           rest == CHOOSE f : E(f)
<1>1. n \in Nat
  OBVIOUS
<1>2. Without(q, types) = rest[n]
  BY DEF Without
<1>3. <<>> \in Left(q, types, 0)
  <2>1. <<>> \in Seq(Asking) /\ Len(<<>>) = 0 /\ \A i : i \notin 1..0
    OBVIOUS
  <2>2. QED
    BY <2>1 DEF Left
<1>4. ASSUME NEW i \in 1..n, NEW s \in Left(q, types, i - 1)
      PROVE  Step(s, i) \in Left(q, types, i)
  BY LeftIs
<1> HIDE DEF n, Step
<1>5. \A i \in 0..n : I[i] = Left(q, types, i)
  OBVIOUS
<1>6. 0 \in 0..n /\ \A i \in 1..n : i \in 0..n /\ i - 1 \in 0..n /\ i # 0
  BY <1>1
<1>7. ASSUME NEW f, f[0] = <<>>,
             \A i \in 1..n : f[i - 1] \in Left(q, types, i - 1) => f[i] = Step(f[i - 1], i)
      PROVE  \A i \in 0..n : f[i] \in Left(q, types, i)
  <2> HIDE DEF I
  <2>1. f[0] \in I[0]
    BY <1>3, <1>5, <1>6, <1>7
  <2>2. \A i \in 1..n : f[i - 1] \in I[i - 1] => f[i] \in I[i]
    BY <1>4, <1>5, <1>6, <1>7, Zenon
  <2>3. \A i \in 0..n : f[i] \in I[i]
    BY <1>1, <2>1, <2>2, KeptByEveryStep, Zenon
  <2>4. QED
    BY <1>5, <2>3, Zenon
<1>8. \E f : E(f)
  <2>1. PICK h : Recursion(h, G, <<>>, n)
    <3> HIDE DEF G
    <3>1. QED
      BY <1>1, RecursionExists, Zenon
  <2>2. h = [i \in 0..n |-> IF i = 0 THEN <<>> ELSE G[i][h[i - 1]]]
    <3> HIDE DEF G
    <3>1. QED
      BY <2>1 DEF Recursion
  <2>3. h[0] = <<>> /\ \A i \in 1..n : h[i] = G[i][h[i - 1]]
    <3> HIDE DEF G
    <3>1. QED
      BY <1>6, <2>2, Zenon
  <2>4. \A i \in 1..n : h[i - 1] \in I[i - 1] => h[i] = Step(h[i - 1], i)
    <3> HIDE DEF I
    <3>1. QED
      BY <2>3
  <2>5. \A i \in 0..n : h[i] \in Left(q, types, i)
    BY <1>5, <1>6, <1>7, <2>3, <2>4
  <2>6. \A i \in 1..n : h[i] = Step(h[i - 1], i)
    <3> HIDE DEF I
    <3>1. QED
      BY <1>5, <1>6, <2>4, <2>5, Zenon
  <2>7. ASSUME NEW i \in 0..n
        PROVE  h[i] = IF i = 0 THEN <<>> ELSE Step(h[i - 1], i)
    <3>1. CASE i = 0
      BY <2>3, <3>1
    <3>2. CASE i # 0
      <4>1. i \in 1..n
        BY <1>1, <3>2
      <4>2. QED
        BY <2>6, <3>2, <4>1, Zenon
    <3>3. QED
      BY <3>1, <3>2
  <2> HIDE DEF G, I
  <2>8. h = [i \in 0..n |-> IF i = 0 THEN <<>> ELSE Step(h[i - 1], i)]
    BY <2>2, <2>7, Zenon
  <2>9. E(h)
    BY <2>8, Zenon DEF Step
  <2>10. QED
    BY <2>9, Zenon
<1>9. E(rest)
  BY <1>8, Zenon
<1>10. rest[0] = <<>> /\ \A i \in 1..n : rest[i] = Step(rest[i - 1], i)
  <2> HIDE DEF rest
  <2>1. QED
    BY <1>6, <1>9, Zenon DEF Step
<1> HIDE DEF rest, E, G, I
<1>11. rest[n] \in Left(q, types, n)
  <2>1. \A i \in 0..n : rest[i] \in Left(q, types, i)
    BY <1>7, <1>10
  <2>2. n \in 0..n
    BY <1>1
  <2>3. QED
    BY <2>1, <2>2
<1>12. \A s \in Seq(Asking) : \A t :
          Positions(s, t) # {} <=> \E i \in 1..Len(s) : s[i].type = t
  BY DEF Positions
<1>13. QED
  <2> DEFINE r == rest[n]
  <2> HIDE DEF r
  <2>1. r \in Seq(Asking)
    BY <1>11 DEF Left, r
  <2>2. \A t : (\E i \in 1..Len(r) : r[i].type = t)
               <=> (t \notin types /\ \E i \in 1..Len(q) : q[i].type = t)
    BY <1>11, Zenon DEF Left, r, n
  <2>3. \A t : Positions(r, t) # {} <=> (t \notin types /\ Positions(q, t) # {})
    BY <1>12, <2>1, <2>2, Zenon
  <2>4. QED
    BY <1>2, <2>1, <2>3, Zenon DEF r

\* A queue of one request that is of none of the types stays.
LEMMA WithoutOne ==
    ASSUME NEW q \in Seq(Asking), Len(q) = 1, NEW types, q[1].type \notin types
    PROVE  Without(q, types) = q
<1> DEFINE E(f) == f = [i \in 0..1 |-> IF i = 0 THEN <<>>
                                       ELSE IF q[i].type \in types THEN f[i - 1]
                                       ELSE Append(f[i - 1], q[i])]
           rest == CHOOSE f : E(f)
           h == [i \in 0..1 |-> IF i = 0 THEN <<>> ELSE q]
<1>1. Without(q, types) = rest[1]
  BY DEF Without
<1>2. Append(<<>>, q[1]) = q
  OBVIOUS
<1>3. E(h)
  <2>1. ASSUME NEW i \in 0..1
        PROVE  h[i] = IF i = 0 THEN <<>>
                      ELSE IF q[i].type \in types THEN h[i - 1]
                      ELSE Append(h[i - 1], q[i])
    <3>1. i = 0 \/ i = 1
      OBVIOUS
    <3>2. h[0] = <<>> /\ h[1] = q
      OBVIOUS
    <3> HIDE DEF h, E, rest
    <3>3. CASE i = 0
      BY <3>2, <3>3
    <3>4. CASE i = 1
      <4>1. q[i].type \notin types /\ h[i - 1] = <<>> /\ h[i] = q
        BY <3>2, <3>4
      <4>2. QED
        BY <1>2, <3>4, <4>1
    <3>5. QED
      BY <3>1, <3>3, <3>4
  <2>2. h = [i \in 0..1 |-> h[i]]
    OBVIOUS
  <2> HIDE DEF h
  <2>3. QED
    BY <2>1, <2>2
<1>4. E(rest)
  <2> HIDE DEF h
  <2>1. QED
    BY <1>3, Zenon
<1>5. rest[0] = <<>> /\ rest[1] = Append(rest[0], q[1])
  <2> HIDE DEF rest
  <2>1. QED
    BY <1>4
<1> HIDE DEF rest
<1>6. QED
  BY <1>1, <1>2, <1>5

\* What is added to a queue is in it, with what was there.
LEMMA AppendHas ==
    ASSUME NEW q \in Seq(Asking), NEW m \in Asking, queue' = Append(q, m)
    PROVE  /\ queue' \in Seq(Asking)
           /\ \A t : Queued(t)' <=> Positions(q, t) # {} \/ m.type = t
<1> DEFINE l == Len(q)
<1>1. /\ queue' \in Seq(Asking) /\ l \in Nat /\ Len(queue') = l + 1
      /\ queue'[l + 1] = m /\ \A i \in 1..l : queue'[i] = q[i]
  OBVIOUS
<1>2. \A t : Positions(q, t) # {} <=> \E i \in 1..l : q[i].type = t
  BY DEF Positions
<1>3. \A t : Queued(t)' <=> \E i \in 1..Len(queue') : queue'[i].type = t
  BY <1>1 DEF Queued, Positions
<1> HIDE DEF l
<1>4. \A i : i \in 1..Len(queue') <=> i \in 1..l \/ i = l + 1
  BY <1>1
<1>5. ASSUME NEW t PROVE Queued(t)' <=> Positions(q, t) # {} \/ m.type = t
  <2>1. ASSUME Queued(t)' PROVE Positions(q, t) # {} \/ m.type = t
    <3>1. PICK i \in 1..Len(queue') : queue'[i].type = t
      BY <1>3, <2>1
    <3>2. QED
      BY <1>1, <1>2, <1>4, <3>1
  <2>2. ASSUME Positions(q, t) # {} PROVE Queued(t)'
    <3>1. PICK i \in 1..l : q[i].type = t
      BY <1>2, <2>2
    <3>2. i \in 1..Len(queue') /\ queue'[i].type = t
      BY <1>1, <1>4, <3>1
    <3>3. QED
      BY <1>3, <3>2
  <2>3. ASSUME m.type = t PROVE Queued(t)'
    <3>1. l + 1 \in 1..Len(queue') /\ queue'[l + 1].type = t
      BY <1>1, <1>4, <2>3
    <3>2. QED
      BY <1>3, <3>1
  <2>4. QED
    BY <2>1, <2>2, <2>3
<1>6. QED
  BY <1>1, <1>5

LEMMA PushHas ==
    ASSUME NEW q \in Seq(Asking), NEW m \in Asking, Push(q, m)
    PROVE  /\ queue' \in Seq(Asking)
           /\ \A t : Queued(t)' <=> Positions(q, t) # {} \/ m.type = t
           /\ draining' = (draining \/ connected)
BY AppendHas DEF Push

\* A refresh changes a checksum and no type.
LEMMA RefreshHas ==
    ASSUME EntryTypeOK, NEW q \in Seq(Asking), NEW type, Positions(q, type) # {}
    PROVE  /\ Refresh(q, type) \in Seq(Asking)
           /\ \A t : Positions(Refresh(q, type), t) # {} <=> Positions(q, t) # {}
<1> DEFINE P == Positions(q, type)
           last == CHOOSE i \in P : \A j \in P : j <= i
           r == [q EXCEPT ![last].checksum = cache.checksum]
<1>1. Refresh(q, type) = IF cache = NoCache THEN q ELSE r
  BY DEF Refresh
<1>2. cache.checksum \in VersionOrNone
  BY DEF EntryTypeOK
<1> HIDE DEF last
<1>3. /\ r \in Seq(Asking) /\ Len(r) = Len(q)
      /\ \A i \in 1..Len(q) : r[i].type = q[i].type
  <2>1. \A x \in Asking : /\ [x EXCEPT !.checksum = cache.checksum] \in Asking
                            /\ [x EXCEPT !.checksum = cache.checksum].type = x.type
    BY <1>2 DEF Asking, Upstream
  <2>2. r = [i \in 1..Len(q) |-> IF i = last
                THEN [q[i] EXCEPT !.checksum = cache.checksum] ELSE q[i]]
    OBVIOUS
  <2>3. \A i \in 1..Len(q) : q[i] \in Asking
    OBVIOUS
  <2>4. \A i \in 1..Len(q) : r[i] \in Asking /\ r[i].type = q[i].type
    BY <2>1, <2>2, <2>3
  <2> HIDE DEF r
  <2>5. r \in [1..Len(q) -> Asking] /\ Len(q) \in Nat
    BY <2>2, <2>4
  <2>6. r \in Seq(Asking) /\ Len(r) = Len(q)
    BY <2>5
  <2>7. QED
    BY <2>4, <2>6
<1> HIDE DEF r
<1>4. \A t : Positions(r, t) # {} <=> Positions(q, t) # {}
  <2>1. DOMAIN r = 1..Len(q) /\ DOMAIN q = 1..Len(q)
    BY <1>3
  <2>2. \A t : Positions(r, t) = Positions(q, t)
    BY <1>3, <2>1 DEF Positions
  <2>3. QED
    BY <2>2
<1>5. QED
  BY <1>1, <1>3, <1>4

LEMMA InitQInv == Init => QInv
BY DEF Init, QInv, QueueMatchesEntry, Queued, Positions

\* An observe() that needs a subscription asks for it, in place of any get.
LEMMA ObserveQInv ==
    ASSUME IInv, QInv, NEW p \in Callers, Observe(p)
    PROVE  QInv'
<1>1. /\ cnt \in Nat /\ cnt' = cnt + 1 /\ cnt' # 0
      /\ cache.checksum \in VersionOrNone
      /\ UNCHANGED <<connected, asked>>
  BY MaxSlotIsNat DEF Observe, Join, IInv, EntryTypeOK
<1>2. queue \in Seq(Asking)
  BY DEF QInv
<1> DEFINE q1 == Without(queue, {"Unsubscribe", "SendSubscriptionData",
                                 "GetSubscription"})
           q2 == Without(queue, {"GetSubscription"})
           get == IF cache # NoCache THEN "both" ELSE "sub"
           m == SubscribeMsg(cache.checksum, get)
           b == SubscribeMsg(cache.checksum, "both")
<1>3. /\ m \in Asking /\ m.type = "Subscription"
      /\ b \in Asking /\ b.type = "Subscription"
  <2>1. get \in {"sub", "both"}
    OBVIOUS
  <2> HIDE DEF get
  <2>2. QED
    BY <1>1, <2>1, MessagesAre
<1>4. CASE cnt = 0 /\ Push(q1, m)
  <2>1. q1 \in Seq(Asking)
        /\ \A t : Positions(q1, t) # {}
             <=> t \notin {"Unsubscribe", "SendSubscriptionData", "GetSubscription"}
                 /\ Positions(queue, t) # {}
    BY <1>2, WithoutIs
  <2> HIDE DEF q1, m
  <2>2. /\ queue' \in Seq(Asking)
        /\ \A t : Queued(t)' <=> Positions(q1, t) # {} \/ t = "Subscription"
        /\ draining' = (draining \/ connected)
    BY <1>3, <1>4, <2>1, PushHas
  <2>3. Queued("Subscription")' /\ ~Queued("Unsubscribe")' /\ ~Queued("GetSubscription")'
    BY <2>1, <2>2
  <2>4. QED
    BY <1>1, <2>2, <2>3 DEF QInv, QueueMatchesEntry, EntryIsAsked
<1>5. CASE cnt # 0 /\ Push(q2, b)
  <2>1. q2 \in Seq(Asking)
        /\ \A t : Positions(q2, t) # {}
             <=> t \notin {"GetSubscription"} /\ Positions(queue, t) # {}
    BY <1>2, WithoutIs
  <2> HIDE DEF q2, b
  <2>2. /\ queue' \in Seq(Asking)
        /\ \A t : Queued(t)' <=> Positions(q2, t) # {} \/ t = "Subscription"
        /\ draining' = (draining \/ connected)
    BY <1>3, <1>5, <2>1, PushHas
  <2>3. ~Queued("Unsubscribe")
    BY <1>5 DEF QInv, QueueMatchesEntry
  <2>4. Queued("Subscription")' /\ ~Queued("Unsubscribe")' /\ ~Queued("GetSubscription")'
    BY <2>1, <2>2, <2>3 DEF Queued
  <2>5. QED
    BY <1>1, <2>2, <2>4 DEF QInv, QueueMatchesEntry, EntryIsAsked
<1>6. CASE cnt # 0 /\ ~OnlyGets /\ KeepQueue
  <2>1. UNCHANGED <<queue, draining>>
    BY <1>6 DEF KeepQueue
  <2>2. \A t : Queued(t)' <=> Queued(t)
    BY <2>1 DEF Queued
  <2>3. connected => Queued("Subscription") \/ asked = "sub"
    BY <1>6 DEF QInv, EntryIsAsked
  <2>4. QED
    BY <1>1, <1>6, <2>1, <2>2, <2>3 DEF QInv, QueueMatchesEntry, EntryIsAsked
<1>7. QED
  BY <1>4, <1>5, <1>6 DEF Observe

\* The first get() asks once; one that joins asks for nothing.
LEMMA GetWaitingQInv ==
    ASSUME IInv, QInv, NEW p \in Callers, GetWaiting(p)
    PROVE  QInv'
<1>1. /\ cnt \in Nat /\ cnt' = cnt + 1 /\ cnt' # 0
      /\ cache.checksum \in VersionOrNone
      /\ UNCHANGED <<connected, asked>>
  BY MaxSlotIsNat DEF GetWaiting, Join, IInv, EntryTypeOK
<1>2. queue \in Seq(Asking)
  BY DEF QInv
<1>3. OnlyGets => OnlyGets'
  <2>1. /\ ~subscribers'[cnt + 1].onData
        /\ \A s \in Occupied' : s # cnt + 1 =>
              s \in Occupied /\ subscribers'[s] = subscribers[s]
    BY JoinStep DEF GetWaiting
  <2>2. QED
    BY <2>1 DEF OnlyGets
<1>4. CASE cnt # 0
  <2>1. UNCHANGED <<queue, draining>>
    BY <1>4 DEF GetWaiting, KeepQueue
  <2>2. \A t : Queued(t)' <=> Queued(t)
    BY <2>1 DEF Queued
  <2>3. QED
    BY <1>1, <1>3, <1>4, <2>1, <2>2 DEF QInv, QueueMatchesEntry, EntryIsAsked
<1>5. CASE cnt = 0
  <2> DEFINE q == Without(queue, {"Unsubscribe", "SendSubscriptionData"})
             m == GetMsg(cache.checksum)
  <2>1. q \in Seq(Asking)
        /\ \A t : Positions(q, t) # {}
             <=> t \notin {"Unsubscribe", "SendSubscriptionData"}
                 /\ Positions(queue, t) # {}
    BY <1>2, WithoutIs
  <2>2. m \in Asking /\ m.type = "GetSubscription"
    BY <1>1, MessagesAre
  <2>3. \/ Queued("GetSubscription") /\ queue' = q /\ UNCHANGED draining
        \/ Push(q, m)
    BY <1>5 DEF GetWaiting
  <2> HIDE DEF q, m
  <2>4. ~Queued("Subscription")
    BY <1>5 DEF QInv, QueueMatchesEntry
  <2>5. OnlyGets'
    <3>1. Occupied = {}
      BY <1>5, OccupiedFinite, FS_EmptySet DEF IInv, CountCoversSubscribers
    <3>2. OnlyGets
      BY <3>1 DEF OnlyGets
    <3>3. QED
      BY <1>3, <3>2
  <2>6. /\ queue' \in Seq(Asking)
        /\ Queued("GetSubscription")'
        /\ ~Queued("Unsubscribe")' /\ ~Queued("Subscription")'
        /\ draining' => draining \/ connected
    <3>1. CASE Queued("GetSubscription") /\ queue' = q /\ UNCHANGED draining
      BY <2>1, <2>4, <3>1 DEF Queued
    <3>2. CASE Push(q, m)
      <4>1. /\ queue' \in Seq(Asking)
            /\ \A t : Queued(t)' <=> Positions(q, t) # {} \/ t = "GetSubscription"
            /\ draining' = (draining \/ connected)
        BY <2>1, <2>2, <3>2, PushHas
      <4>2. Positions(queue, "Subscription") = {}
        BY <2>4 DEF Queued
      <4>3. QED
        BY <2>1, <4>1, <4>2
    <3>3. QED
      BY <2>3, <3>1, <3>2
  <2>7. QED
    BY <1>1, <2>5, <2>6 DEF QInv, QueueMatchesEntry, EntryIsAsked
<1>6. QED
  BY <1>4, <1>5

\* The entry goes with its last subscriber, and then what it asked for is
\* withdrawn; as long as it stays the queue stays.
LEMMA ReleaseQInv ==
    ASSUME IInv, QInv, NEW R, R \subseteq Occupied, Release(R),
           \A s \in Occupied' :
              s \in Occupied /\ subscribers'[s].onData = subscribers[s].onData,
           UNCHANGED <<connected, asked>>
    PROVE  QInv'
<1>1. /\ cnt \in Nat /\ Cardinality(R) \in Nat
      /\ Cardinality(R) <= Cardinality(Occupied)
      /\ R = {} => Cardinality(R) = 0
      /\ cnt' = cnt - Cardinality(R)
  BY MaxSlotIsNat, OccupiedFinite, FS_Subset, FS_CardinalityType, FS_EmptySet
  DEF Release, IInv, EntryTypeOK
<1>2. Cardinality(Occupied) <= cnt /\ Cardinality(Occupied) \in Nat
  BY OccupiedFinite DEF IInv, CountCoversSubscribers
<1>3. OnlyGets => OnlyGets'
  BY DEF OnlyGets
<1>4. queue \in Seq(Asking)
  BY DEF QInv
<1>5. CASE R = {} \/ cnt # Cardinality(R)
  <2>1. UNCHANGED <<queue, draining>>
    BY <1>5 DEF Release, KeepQueue
  <2>2. \A t : Queued(t)' <=> Queued(t)
    BY <2>1 DEF Queued
  <2>3. cnt' = 0 <=> cnt = 0
    BY <1>1, <1>2, <1>5
  <2>4. QED
    BY <1>3, <2>1, <2>2, <2>3 DEF QInv, QueueMatchesEntry, EntryIsAsked
<1>6. CASE R # {} /\ cnt = Cardinality(R)
  <2> DEFINE q == Without(queue, {"Subscription", "SendSubscriptionData"})
  <2>1. q \in Seq(Asking)
        /\ \A t : Positions(q, t) # {}
             <=> t \notin {"Subscription", "SendSubscriptionData"}
                 /\ Positions(queue, t) # {}
    BY <1>4, WithoutIs
  <2>2. \/ Queued("Unsubscribe") /\ queue' = q /\ UNCHANGED draining
        \/ Push(q, UnsubscribeMsg)
    BY <1>6 DEF Release, PushUnsubscribe
  <2> HIDE DEF q
  <2>3. /\ queue' \in Seq(Asking)
        /\ Queued("Unsubscribe")'
        /\ ~Queued("Subscription")' /\ ~Queued("SendSubscriptionData")'
        /\ draining' => draining \/ connected
    <3>1. CASE Queued("Unsubscribe") /\ queue' = q /\ UNCHANGED draining
      BY <2>1, <3>1 DEF Queued
    <3>2. CASE Push(q, UnsubscribeMsg)
      <4>1. /\ queue' \in Seq(Asking)
            /\ \A t : Queued(t)' <=> Positions(q, t) # {} \/ t = "Unsubscribe"
            /\ draining' = (draining \/ connected)
        BY <2>1, <3>2, PushHas, MessagesAre
      <4>2. QED
        BY <2>1, <4>1
    <3>3. QED
      BY <2>2, <3>1, <3>2
  <2>4. cnt' = 0
    BY <1>1, <1>6
  <2>5. QED
    BY <2>3, <2>4 DEF QInv, QueueMatchesEntry
<1>7. QED
  BY <1>5, <1>6

LEMMA CloseQInv ==
    ASSUME IInv, QInv, NEW p \in Callers, Close(p)
    PROVE  QInv'
<1> DEFINE R == {handle[p]} \cap Occupied
<1>1. /\ subscribers' = [s \in Slots |-> IF s \in R THEN Vacant ELSE subscribers[s]]
      /\ Release(R)
      /\ UNCHANGED <<connected, asked>>
  BY DEF Close
<1>2. R \subseteq Occupied
  OBVIOUS
<1> HIDE DEF R
<1>3. \A s \in Occupied' : s \in Occupied /\ subscribers'[s] = subscribers[s]
  <2>1. Vacant.caller = None
    BY DEF Vacant, Subscriber
  <2>2. QED
    BY <1>1, <2>1 DEF Occupied
<1>4. QED
  BY <1>1, <1>2, <1>3, ReleaseQInv

LEMMA SettleQInv ==
    ASSUME IInv, QInv, NEW R, NEW waiter \in {"idle", "open"},
           Getters \subseteq R, R \subseteq Pending,
           waiter = "idle" => R = Pending,
           Settle(R, waiter), UNCHANGED <<handle, connected, asked>>
    PROVE  QInv'
<1>1. R \subseteq Occupied
  BY DEF Pending
<1>2. /\ Occupied' = Occupied \ R
      /\ \A s \in Occupied' : subscribers'[s].onData = subscribers[s].onData
  BY SettleStep
<1>3. QED
  BY <1>1, <1>2, ReleaseQInv DEF Settle

LEMMA RefetchQInv ==
    ASSUME IInv, QInv, NEW c, Refetch(c), cnt # 0, UNCHANGED <<connected, asked>>
    PROVE  QInv'
<1>1. /\ UNCHANGED <<cnt, subscribers>>
      /\ Push(queue, SendDataMsg)
      /\ queue \in Seq(Asking)
  BY DEF Refetch, QInv
<1>2. /\ queue' \in Seq(Asking)
      /\ \A t : Queued(t)' <=> Queued(t) \/ t = "SendSubscriptionData"
      /\ draining' = (draining \/ connected)
  BY <1>1, PushHas, MessagesAre DEF Queued
<1>3. OnlyGets' <=> OnlyGets
  BY <1>1 DEF OnlyGets, Occupied
<1>4. QED
  BY <1>1, <1>2, <1>3 DEF QInv, QueueMatchesEntry, EntryIsAsked

LEMMA ReceiveQInv ==
    ASSUME IInv, QInv, NEW m \in Incoming, Receive(m)
    PROVE  QInv'
<1>1. CASE UNCHANGED vars
  BY <1>1 DEF vars, QInv, QueueMatchesEntry, EntryIsAsked, Queued, OnlyGets, Occupied
<1>2. CASE /\ cnt # 0 /\ UNCHANGED <<connected, handle, asked>>
           /\ IncomingSubscription(m) \/ IncomingSubscriptionDiff(m)
  <2>1. CASE Reject
    BY <1>2, <2>1, SettleQInv, GettersArePending DEF Reject
  <2>2. CASE Confirm
    BY <1>2, <2>2, SettleQInv, GettersArePending DEF Confirm
  <2>3. ASSUME NEW v, NEW k, Deliver(v, k) PROVE QInv'
    BY <1>2, <2>3, SettleQInv, GettersArePending DEF Deliver
  <2>4. CASE Refetch(cache) \/ Refetch(NoCache)
    BY <1>2, <2>4, RefetchQInv
  <2>5. QED
    BY <1>2, <2>1, <2>2, <2>3, <2>4 DEF IncomingSubscription, IncomingSubscriptionDiff
<1>3. QED
  BY <1>1, <1>2 DEF Receive

\* With an entry no Unsubscribe is in the frame, without one no Subscription.
LEMMA DrainQInv ==
    ASSUME QInv, Drain
    PROVE  QInv'
<1>1. /\ connected /\ ~draining' /\ queue' = <<>>
      /\ asked' = AskedAfter(queue)
      /\ UNCHANGED <<connected, cnt, subscribers>>
  BY DEF Drain, QInv
<1>2. \A t : ~Queued(t)'
  BY <1>1 DEF Queued, Positions
<1>3. OnlyGets' <=> OnlyGets
  BY <1>1 DEF OnlyGets, Occupied
<1> DEFINE stops == Positions(queue, "Unsubscribe")
           rest == {i \in DOMAIN queue : \A j \in stops : j < i}
           Asks(t) == rest \cap Positions(queue, t) # {}
<1>4. asked' = IF Asks("Subscription") \/ (asked = "sub" /\ stops = {}) THEN "sub"
               ELSE IF Asks("GetSubscription") THEN "get"
               ELSE IF stops # {} THEN "stop" ELSE asked
  BY <1>1 DEF AskedAfter
<1>5. /\ \A t : Asks(t) => Queued(t)
      /\ stops = {} => \A t : Queued(t) => Asks(t)
      /\ stops = {} <=> ~Queued("Unsubscribe")
  BY DEF Queued, Positions
<1> HIDE DEF stops, rest, Asks
<1>6. CASE cnt = 0
  <2>1. ~Queued("Subscription") /\ (asked = "sub" => stops # {})
    BY <1>1, <1>5, <1>6 DEF QInv, QueueMatchesEntry
  <2>2. asked' # "sub"
    BY <1>4, <1>5, <2>1
  <2>3. QED
    BY <1>1, <1>2, <1>6, <2>2 DEF QInv, QueueMatchesEntry
<1>7. CASE cnt # 0
  <2>1. stops = {} /\ EntryIsAsked
    BY <1>1, <1>5, <1>7 DEF QInv, QueueMatchesEntry
  <2>2. \A t : Asks(t) <=> Queued(t)
    BY <1>5, <2>1, Zenon
  <2>3. asked' = IF Queued("Subscription") \/ asked = "sub" THEN "sub"
                 ELSE IF Queued("GetSubscription") THEN "get" ELSE asked
    BY <1>4, <2>1, <2>2
  <2>4. asked' = "sub" \/ (OnlyGets /\ asked' = "get")
    BY <2>1, <2>3 DEF EntryIsAsked
  <2>5. QED
    BY <1>1, <1>2, <1>3, <1>7, <2>4 DEF QInv, QueueMatchesEntry, EntryIsAsked
<1>8. QED
  BY <1>6, <1>7

\* A new connection starts with everything that the entry needs queued.
LEMMA ConnectQInv ==
    ASSUME IInv, QInv, Connect
    PROVE  QInv'
<1>1. /\ connected' /\ asked = "nothing" /\ asked' = asked
      /\ UNCHANGED <<cnt, subscribers, cache>>
      /\ queue \in Seq(Asking) /\ EntryTypeOK
      /\ SendAllSubscriptions
  BY DEF Connect, QInv, IInv
<1>2. OnlyGets' <=> OnlyGets
  BY <1>1 DEF OnlyGets, Occupied
<1>3. CASE cnt = 0
  <2>1. queue' = queue
    BY <1>1, <1>3 DEF SendAllSubscriptions
  <2>2. \A t : Queued(t)' <=> Queued(t)
    BY <2>1 DEF Queued
  <2>3. QED
    BY <1>1, <1>3, <2>1, <2>2 DEF QInv, QueueMatchesEntry
<1>4. CASE cnt # 0
  <2> DEFINE q == Without(queue, {"GetSubscription"})
  <2>1. q \in Seq(Asking)
        /\ \A t : Positions(q, t) # {}
             <=> t \notin {"GetSubscription"} /\ Positions(queue, t) # {}
    BY <1>1, WithoutIs
  <2>2. ~Queued("Unsubscribe") /\ ~(Queued("GetSubscription") /\ Queued("Subscription"))
    BY <1>4 DEF QInv, QueueMatchesEntry
  <2>3. CASE Queued("GetSubscription") /\ OnlyGets
    <3>1. queue' = Refresh(queue, "GetSubscription")
      BY <1>1, <1>4, <2>3 DEF SendAllSubscriptions
    <3>2. queue' \in Seq(Asking) /\ \A t : Queued(t)' <=> Queued(t)
      BY <1>1, <2>3, <3>1, RefreshHas DEF Queued
    <3>3. QED
      BY <1>1, <1>2, <1>4, <2>2, <2>3, <3>2 DEF QInv, QueueMatchesEntry, EntryIsAsked
  <2>4. CASE Queued("Subscription") /\ ~(Queued("GetSubscription") /\ OnlyGets)
    <3>1. queue' = Refresh(q, "Subscription")
      BY <1>1, <1>4, <2>4 DEF SendAllSubscriptions
    <3> HIDE DEF q
    <3>2. Positions(q, "Subscription") # {}
      BY <2>1, <2>4 DEF Queued
    <3>3. queue' \in Seq(Asking) /\ \A t : Queued(t)' <=> Positions(q, t) # {}
      BY <1>1, <2>1, <3>1, <3>2, RefreshHas DEF Queued
    <3>4. Queued("Subscription")' /\ ~Queued("Unsubscribe")' /\ ~Queued("GetSubscription")'
      BY <2>1, <2>2, <2>4, <3>3 DEF Queued
    <3>5. QED
      BY <1>1, <1>4, <3>3, <3>4 DEF QInv, QueueMatchesEntry, EntryIsAsked
  <2>5. CASE ~Queued("Subscription") /\ ~(Queued("GetSubscription") /\ OnlyGets)
    <3> DEFINE get == IF Queued("GetSubscription") THEN "both" ELSE "sub"
               m == SubscribeMsg(cache.checksum, get)
    <3>1. Len(q) < MaxQueue /\ queue' = Append(q, m)
      BY <1>1, <1>4, <2>5 DEF SendAllSubscriptions
    <3>2. m \in Asking /\ m.type = "Subscription"
      <4>1. get \in {"sub", "both"} /\ cache.checksum \in VersionOrNone
        BY <1>1 DEF EntryTypeOK
      <4> HIDE DEF get
      <4>2. QED
        BY <4>1, MessagesAre
    <3> HIDE DEF q, m
    <3>3. queue' \in Seq(Asking)
          /\ \A t : Queued(t)' <=> Positions(q, t) # {} \/ t = "Subscription"
      BY <2>1, <3>1, <3>2, AppendHas
    <3>4. Queued("Subscription")' /\ ~Queued("Unsubscribe")' /\ ~Queued("GetSubscription")'
      BY <2>1, <2>2, <3>3 DEF Queued
    <3>5. QED
      BY <1>1, <1>4, <3>3, <3>4 DEF QInv, QueueMatchesEntry, EntryIsAsked
  <2>6. QED
    BY <2>3, <2>4, <2>5
<1>5. QED
  BY <1>3, <1>4

LEMMA DisconnectQInv ==
    ASSUME QInv, Disconnect
    PROVE  QInv'
<1> DEFINE q == Without(queue, {"Unsubscribe", "SendSubscriptionData"})
<1>1. /\ ~connected' /\ ~draining' /\ asked' = "nothing" /\ cnt' = cnt
      /\ queue' = q /\ queue \in Seq(Asking)
  BY DEF Disconnect, QInv
<1>2. q \in Seq(Asking)
      /\ \A t : Positions(q, t) # {}
           <=> t \notin {"Unsubscribe", "SendSubscriptionData"}
               /\ Positions(queue, t) # {}
  BY <1>1, WithoutIs
<1> HIDE DEF q
<1>3. \A t : Queued(t)' <=> t \notin {"Unsubscribe", "SendSubscriptionData"} /\ Queued(t)
  BY <1>1, <1>2 DEF Queued
<1>4. QED
  BY <1>1, <1>2, <1>3 DEF QInv, QueueMatchesEntry

LEMMA NextQInv == IInv /\ QInv /\ [Next]_vars => QInv'
<1> SUFFICES ASSUME IInv, QInv, [Next]_vars PROVE QInv'
  OBVIOUS
<1>1. ASSUME NEW p \in Callers, Observe(p) \/ GetWaiting(p) \/ Close(p)
      PROVE  QInv'
  BY <1>1, ObserveQInv, GetWaitingQInv, CloseQInv
<1>2. ASSUME NEW m \in Incoming, Receive(m) PROVE QInv'
  BY <1>2, ReceiveQInv
<1>3. CASE Drain \/ Connect \/ Disconnect
  BY <1>3, DrainQInv, ConnectQInv, DisconnectQInv
<1>4. CASE UNCHANGED <<connected, cnt, subscribers, queue, draining, asked>>
  BY <1>4 DEF QInv, QueueMatchesEntry, EntryIsAsked, Queued, OnlyGets, Occupied
<1>5. QED
  BY <1>1, <1>2, <1>3, <1>4 DEF Next, vars, GetFromCache

\* The invariant about what is queued and what was asked.
THEOREM QueueInvariance == Spec => []QInv
BY InitQInv, NextQInv, Invariance, PTL DEF Init, Spec

\* The rest of the types: the queue's is in QInv, those of the entry in IInv.
FlagsOK ==
    /\ connected \in BOOLEAN /\ draining \in BOOLEAN
    /\ asked \in {"nothing", "get", "sub", "stop"}

LEMMA NextFlagsOK == FlagsOK /\ [Next]_vars => FlagsOK'
<1> SUFFICES ASSUME FlagsOK, [Next]_vars PROVE FlagsOK'
  OBVIOUS
<1>1. ASSUME NEW q, NEW m, Push(q, m) PROVE draining' \in BOOLEAN
  BY <1>1 DEF Push, FlagsOK
<1>2. ASSUME NEW R, Release(R) PROVE draining' \in BOOLEAN
  BY <1>1, <1>2 DEF Release, PushUnsubscribe, KeepQueue, FlagsOK
<1>3. ASSUME NEW p \in Callers, Observe(p) \/ GetFromCache(p) \/ GetWaiting(p) \/ Close(p)
      PROVE  FlagsOK'
  <2>1. CASE Observe(p)
    BY <1>1, <2>1 DEF Observe, KeepQueue, FlagsOK
  <2>2. CASE GetFromCache(p)
    BY <2>2 DEF GetFromCache, FlagsOK
  <2>3. CASE GetWaiting(p)
    BY <1>1, <2>3 DEF GetWaiting, KeepQueue, FlagsOK
  <2>4. CASE Close(p)
    BY <1>2, <2>4 DEF Close, FlagsOK
  <2>5. QED
    BY <1>3, <2>1, <2>2, <2>3, <2>4
<1>4. ASSUME NEW m \in Incoming, Receive(m) PROVE FlagsOK'
  <2>1. CASE UNCHANGED vars
    BY <2>1 DEF vars, FlagsOK
  <2>2. CASE UNCHANGED <<connected, asked>> /\ draining' \in BOOLEAN
    BY <2>2 DEF FlagsOK
  <2>3. CASE Reject \/ Confirm \/ \E v, k : Deliver(v, k)
    BY <1>2, <1>4, <2>2, <2>3 DEF Reject, Confirm, Deliver, Settle, Receive, vars, FlagsOK
  <2>4. CASE Refetch(cache) \/ Refetch(NoCache)
    BY <1>1, <1>4, <2>1, <2>2, <2>4 DEF Refetch, Receive
  <2>5. QED
    BY <1>4, <2>1, <2>3, <2>4 DEF Receive, IncomingSubscription, IncomingSubscriptionDiff
<1>5. CASE Drain
  BY <1>5 DEF Drain, AskedAfter, FlagsOK
<1>6. CASE Connect \/ Disconnect
  BY <1>6 DEF Connect, Disconnect, FlagsOK
<1>7. QED
  BY <1>3, <1>4, <1>5, <1>6 DEF Next, vars, FlagsOK

\* Every variable of the client model has its type, the queue included.
THEOREM TypeCorrect == Spec => []TypeOK
<1>1. Init => FlagsOK
  BY DEF Init, FlagsOK
<1>2. IInv /\ QInv /\ FlagsOK => TypeOK
  BY DEF IInv, QInv, FlagsOK, TypeOK, Asking
<1>3. QED
  BY <1>1, <1>2, NextFlagsOK, Invariance, QueueInvariance, PTL DEF Spec

\* In every interleaving of callers, answers, drains and reconnects the queue
\* asks for what the entry needs, and no get is queued next to a subscription.
THEOREM QueueIsRight == Spec => []QueueMatchesEntry
BY QueueInvariance, PTL DEF QInv

\* While connected, whoever has a subscriber was or will be asked for, and a
\* subscription without an entry is or will be stopped.
THEOREM ServerKnows == Spec => []ServerIsAsked
<1>1. IInv /\ QInv => ServerIsAsked
  <2> SUFFICES ASSUME IInv, QInv PROVE ServerIsAsked
    OBVIOUS
  <2>1. Occupied # {} => cnt # 0
    <3>1. Cardinality(Occupied) <= cnt /\ cnt \in Nat
      BY MaxSlotIsNat DEF IInv, CountCoversSubscribers, EntryTypeOK
    <3>2. QED
      BY <3>1, OccupiedFinite, FS_EmptySet
  <2>2. QED
    BY <2>1 DEF QInv, EntryIsAsked, ServerIsAsked
<1>2. QED
  BY <1>1, Invariance, QueueInvariance, PTL
===============================================================================
