------------------------ MODULE ServerClientsProofs ------------------------
(***************************************************************************)
(* Proofs about the parts of the server that keep something for each of    *)
(* its clients: Backpressure (BP of Parts), DbSubscription (DB) and        *)
(* UserObservable (UO), for any clients and any bounds.                    *)
(*                                                                         *)
(* Backpressure: it delivers in order, for every number of messages and    *)
(* places in the queues, though strings that waited arrive encoded twice,  *)
(* so that it implements OrderedDelivery, which says just that; and        *)
(* totalBp covers all that waits.                                          *)
(*                                                                         *)
(* DbSubscription: a subscription that has clients is kept, and what is    *)
(* noted for a client is what it holds.  ListedIsCurrent is not inductive: *)
(* what a client is not sent is decided by the version noted for it, so    *)
(* NotedIsHeld relates that to the version it holds; and the version       *)
(* starts again at 0 when the subscription is removed, which UsedIsKept    *)
(* says happens only without clients.                                      *)
(*                                                                         *)
(* UserObservable: clientsCnt counts the emitters, and every run of the    *)
(* function ends with its emitter.  Neither is inductive.  The count is    *)
(* right because an emitter that is destroyed is there (Whole); the        *)
(* timers, because the second timer of an instance needs a listener        *)
(* (TimersAgree); the runs, because init() that finds a run there or       *)
(* starting is what overrun notes (RunsAgree).                             *)
(***************************************************************************)
EXTENDS Parts, Integers, Sequences, FiniteSetTheorems, SequenceTheorems, TLAPS

(***************************************************************************)
(* A behaviour of Spec is one of the part.                                 *)
(***************************************************************************)
LEMMA BackpressurePart == (Init => BP!Init) /\ ([Next]_vars => [BP!Next]_(BP!vars))
BY DEF Init, Next, In, Others, vars, BP!vars
-----------------------------------------------------------------------------
Message == [msg : Nat, late : BOOLEAN]

BpTypeOK ==
    /\ backpressureQueue \in [Clients -> Seq(Message)]
    /\ totalBp \in Int
    /\ buffered \in [Clients -> BOOLEAN]
    /\ ended \in [Clients -> BOOLEAN]
    /\ wire \in [Clients -> Seq(Nat)]
    /\ sends \in [Clients -> Nat]
    /\ requoted \in [Clients -> SUBSET Nat]
    /\ alive \in BOOLEAN

\* What c was given and what waits for it, message by message: w are the
\* messages on the wire, q the queue, n the number that was sent.
InOrder(w, q, n) ==
    /\ Len(w) + Len(q) = n
    /\ \A i \in 1..Len(w) : w[i] = i
    /\ \A i \in 1..Len(q) : q[i].msg = Len(w) + i

\* Nothing waits for a socket that holds no bytes.  This is what lets send()
\* write past the queue.
BpInv ==
    /\ BpTypeOK
    /\ \A c \in Clients : BP!Open(c) =>
           /\ InOrder(wire[c], backpressureQueue[c], sends[c])
           /\ ~buffered[c] => backpressureQueue[c] = <<>>

LEMMA BpInitOK == BP!Init => BpInv
BY DEF BP!Init, BpInv, BpTypeOK, Message, InOrder
-----------------------------------------------------------------------------
(***************************************************************************)
(* Each action keeps what is sent in order.                                *)
(***************************************************************************)
\* c is sent its next message, or nothing is.
MaySend(c) == sends' = [sends EXCEPT ![c] = @ + 1] \/ UNCHANGED sends

\* The queue of c is given up: c is gone, and the others stay as they are.
LEMMA DropStep ==
    ASSUME BpInv, NEW c \in Clients, BP!Drop(c), MaySend(c), totalBp' \in Int
    PROVE  BpInv'
<1>1. sends' \in [Clients -> Nat]
  <2>1. sends \in [Clients -> Nat] /\ sends[c] + 1 \in Nat
    BY DEF BpInv, BpTypeOK
  <2>2. CASE sends' = [sends EXCEPT ![c] = @ + 1]
    BY <2>1, <2>2
  <2>3. QED
    BY <2>1, <2>2 DEF MaySend
<1>2. backpressureQueue' \in [Clients -> Seq(Message)]
  BY DEF BpInv, BpTypeOK, BP!Drop
<1>3. BpTypeOK'
  BY <1>1, <1>2 DEF BpInv, BpTypeOK, BP!Drop
<1>4. ASSUME NEW d \in Clients, BP!Open(d)'
      PROVE  /\ BP!Open(d)
             /\ wire'[d] = wire[d] /\ backpressureQueue'[d] = backpressureQueue[d]
             /\ sends'[d] = sends[d] /\ buffered'[d] = buffered[d]
  BY <1>4 DEF BpInv, BpTypeOK, BP!Drop, BP!Open, MaySend
<1>5. QED
  BY <1>3, <1>4 DEF BpInv

\* Only what belongs to the open client c changes, and its order is kept.
LEMMA OneClientStep ==
    ASSUME BpInv, NEW c \in Clients, BP!Open(c), BpTypeOK',
           UNCHANGED <<ended, alive>>,
           \A d \in Clients \ {c} :
               /\ wire'[d] = wire[d] /\ backpressureQueue'[d] = backpressureQueue[d]
               /\ sends'[d] = sends[d] /\ buffered'[d] = buffered[d],
           InOrder(wire[c], backpressureQueue[c], sends[c])',
           ~buffered'[c] => backpressureQueue'[c] = <<>>
    PROVE  BpInv'
BY DEF BpInv, BP!Open

\* The next message goes on the wire when nothing waits, or to the end of the
\* queue.
LEMMA SendOnEmptyQueue ==
    ASSUME NEW w \in Seq(Nat), NEW n \in Nat, InOrder(w, <<>>, n)
    PROVE  InOrder(Append(w, n + 1), <<>>, n + 1)
<1>1. Len(w) = n /\ \A i \in 1..n : w[i] = i
  BY DEF InOrder
<1>2. /\ Len(Append(w, n + 1)) = n + 1
      /\ \A i \in 1..n : Append(w, n + 1)[i] = w[i]
      /\ Append(w, n + 1)[n + 1] = n + 1
  BY <1>1, AppendProperties
<1>3. QED
  BY <1>1, <1>2 DEF InOrder

LEMMA QueueNext ==
    ASSUME NEW w \in Seq(Nat), NEW q \in Seq(Message), NEW n \in Nat,
           InOrder(w, q, n), NEW m \in Message, m.msg = n + 1
    PROVE  InOrder(w, Append(q, m), n + 1)
<1>1. /\ Len(w) \in Nat /\ Len(q) \in Nat /\ Len(w) + Len(q) = n
      /\ \A i \in 1..Len(q) : q[i].msg = Len(w) + i
  BY DEF InOrder
<1>2. /\ Len(Append(q, m)) = Len(q) + 1
      /\ \A i \in 1..Len(q) : Append(q, m)[i] = q[i]
      /\ Append(q, m)[Len(q) + 1] = m
  BY AppendProperties
<1>3. \A i \in 1..Len(q) + 1 : Append(q, m)[i].msg = Len(w) + i
  <2> SUFFICES ASSUME NEW i \in 1..Len(q) + 1
               PROVE  Append(q, m)[i].msg = Len(w) + i
    OBVIOUS
  <2>1. CASE i \in 1..Len(q)
    BY <1>1, <1>2, <2>1
  <2>2. CASE i = Len(q) + 1
    <3>1. Append(q, m)[i].msg = n + 1
      BY <1>2, <2>2
    <3>2. QED
      BY <1>1, <2>2, <3>1
  <2>3. QED
    BY <1>1, <2>1, <2>2
<1>4. QED
  BY <1>1, <1>2, <1>3 DEF InOrder

LEMMA SendNowStep ==
    ASSUME BpInv, NEW c \in Clients, BP!SendNow(c)
    PROVE  BpInv'
<1>1. PICK full \in BOOLEAN : buffered' = [buffered EXCEPT ![c] = full]
  BY DEF BP!SendNow
<1>2. /\ wire[c] \in Seq(Nat) /\ sends[c] \in Nat
      /\ backpressureQueue[c] = <<>>
      /\ InOrder(wire[c], backpressureQueue[c], sends[c])
  BY DEF BpInv, BpTypeOK, BP!SendNow, BP!MayWrite
<1>3. /\ sends' = [sends EXCEPT ![c] = @ + 1] /\ sends'[c] = sends[c] + 1
      /\ wire' = [wire EXCEPT ![c] = Append(@, sends[c] + 1)]
      /\ wire'[c] = Append(wire[c], sends[c] + 1)
      /\ backpressureQueue' = backpressureQueue
  BY DEF BP!SendNow, BpInv, BpTypeOK
<1>4. BpTypeOK'
  BY <1>1, <1>2, <1>3 DEF BpInv, BpTypeOK, BP!SendNow
<1>5. InOrder(wire[c], backpressureQueue[c], sends[c])'
  BY <1>2, <1>3, SendOnEmptyQueue
<1>6. QED
  BY <1>1, <1>2, <1>3, <1>4, <1>5, OneClientStep DEF BP!SendNow, BpInv, BpTypeOK

LEMMA SendLaterStep ==
    ASSUME BpInv, NEW c \in Clients, BP!SendLater(c)
    PROVE  BpInv'
<1>1. sends' = [sends EXCEPT ![c] = @ + 1] /\ MaySend(c) /\ totalBp \in Int /\ BP!Open(c)
  BY DEF BP!SendLater, MaySend, BpInv, BpTypeOK
<1>2. CASE BP!HeadLate(c)
  BY <1>1, <1>2, DropStep DEF BP!SendLater
<1>3. CASE ~BP!HeadLate(c) /\ totalBp' > MaxTotal
  <2>1. /\ alive' = FALSE /\ totalBp' = totalBp + 1
        /\ UNCHANGED <<backpressureQueue, ended, buffered, wire, requoted>>
    BY <1>3 DEF BP!SendLater
  <2>2. sends[c] + 1 \in Nat
    BY DEF BpInv, BpTypeOK
  <2>3. BpTypeOK'
    <3>1. sends' \in [Clients -> Nat] /\ totalBp' \in Int /\ alive' \in BOOLEAN
      <4>1. sends \in [Clients -> Nat] /\ totalBp \in Int
        BY DEF BpInv, BpTypeOK
      <4>2. sends' \in [Clients -> Nat]
        BY <1>1, <2>2, <4>1
      <4>3. alive' \in BOOLEAN
        BY <2>1
      <4>4. QED
        BY <2>1, <4>1, <4>2, <4>3
    <3>2. QED
      BY <2>1, <3>1 DEF BpInv, BpTypeOK
  <2>4. QED
    BY <2>1, <2>3 DEF BpInv, BP!Open
<1>4. CASE ~BP!HeadLate(c) /\ ~(totalBp' > MaxTotal) /\ Len(backpressureQueue[c]) >= MaxQueue
  BY <1>1, <1>4, DropStep DEF BP!SendLater
<1>5. CASE ~BP!HeadLate(c) /\ ~(totalBp' > MaxTotal) /\ ~(Len(backpressureQueue[c]) >= MaxQueue)
  <2> DEFINE m == [msg |-> sends[c] + 1, late |-> FALSE]
  <2>1. /\ wire[c] \in Seq(Nat) /\ sends[c] \in Nat
        /\ backpressureQueue[c] \in Seq(Message)
        /\ InOrder(wire[c], backpressureQueue[c], sends[c])
    BY <1>1 DEF BpInv, BpTypeOK
  <2>2. sends'[c] = sends[c] + 1 /\ m \in Message /\ m.msg = sends[c] + 1
    BY <1>1, <2>1 DEF BpInv, BpTypeOK, Message
  <2>3. /\ backpressureQueue' = [backpressureQueue EXCEPT ![c] = Append(@, m)]
        /\ totalBp' = totalBp + 1
        /\ UNCHANGED <<ended, buffered, wire, requoted, alive>>
    BY <1>5, <2>2 DEF BP!SendLater
  <2> HIDE DEF m
  <2>4. backpressureQueue'[c] = Append(backpressureQueue[c], m)
    BY <2>3 DEF BpInv, BpTypeOK
  <2>5. BpTypeOK'
    BY <1>1, <2>1, <2>2, <2>3 DEF BpInv, BpTypeOK
  <2>6. InOrder(wire[c], backpressureQueue[c], sends[c])'
    BY <2>1, <2>2, <2>3, <2>4, QueueNext
  <2>7. buffered'[c]
    BY <2>3 DEF BP!SendLater
  <2>8. QED
    BY <1>1, <2>3, <2>5, <2>6, <2>7, OneClientStep DEF BpInv, BpTypeOK
<1>6. QED
  BY <1>2, <1>3, <1>4, <1>5

\* The numbers of the messages in the queue q.
Numbers(s, q) ==
    /\ Len(s) = Len(q)
    /\ \A i \in 1..Len(q) : s[i] = q[i].msg

\* Waiting(c) as a sequence.
LEMMA WaitingSeq ==
    ASSUME NEW c \in Clients, backpressureQueue[c] \in Seq(Message)
    PROVE  BP!Waiting(c) \in Seq(Nat) /\ Numbers(BP!Waiting(c), backpressureQueue[c])
<1> DEFINE q == backpressureQueue[c]
<1>1. Len(q) \in Nat /\ \A i \in 1..Len(q) : q[i] \in Message
  BY ElementOfSeq
<1>2. \A i \in 1..Len(q) : q[i].msg \in Nat
  BY <1>1 DEF Message
<1>3. BP!Waiting(c) \in [1..Len(q) -> Nat]
  BY <1>2 DEF BP!Waiting
<1>4. BP!Waiting(c) \in Seq(Nat)
  BY <1>1, <1>3, SeqDef
<1>5. QED
  BY <1>1, <1>3, <1>4, LenProperties DEF BP!Waiting, Numbers

\* The first k messages of a queue move to the wire.
LEMMA MoveInOrder ==
    ASSUME NEW w \in Seq(Nat), NEW q \in Seq(Message), NEW n \in Nat,
           InOrder(w, q, n), NEW k \in 0..Len(q),
           NEW waiting \in Seq(Nat), Numbers(waiting, q)
    PROVE  /\ w \o SubSeq(waiting, 1, k) \in Seq(Nat)
           /\ SubSeq(q, k + 1, Len(q)) \in Seq(Message)
           /\ Len(SubSeq(q, k + 1, Len(q))) = Len(q) - k
           /\ InOrder(w \o SubSeq(waiting, 1, k), SubSeq(q, k + 1, Len(q)), n)
<1> DEFINE sent == SubSeq(waiting, 1, k)
           others == SubSeq(q, k + 1, Len(q))
<1>1. Len(waiting) = Len(q) /\ \A i \in 1..Len(q) : waiting[i] = q[i].msg
  BY DEF Numbers
<1>2. /\ sent \in Seq(Nat) /\ Len(sent) = k
      /\ \A i \in 1..k : sent[i] = waiting[i]
  BY <1>1
<1>3. /\ others \in Seq(Message) /\ Len(others) = Len(q) - k
      /\ \A i \in 1..Len(others) : others[i] = q[k + i]
  OBVIOUS
<1> HIDE DEF sent, others
<1>4. /\ w \o sent \in Seq(Nat) /\ Len(w \o sent) = Len(w) + k
      /\ \A i \in 1..Len(w) : (w \o sent)[i] = w[i]
      /\ \A i \in Len(w) + 1..Len(w) + k : (w \o sent)[i] = sent[i - Len(w)]
  <2>1. Len(w) \in Nat
    OBVIOUS
  <2>2. /\ w \o sent \in Seq(Nat) /\ Len(w \o sent) = Len(w) + k
        /\ \A i \in 1..Len(w) + k :
               (w \o sent)[i] = IF i <= Len(w) THEN w[i] ELSE sent[i - Len(w)]
    BY <1>2, ConcatProperties
  <2>3. QED
    BY <2>1, <2>2
<1>5. \A i \in 1..Len(w \o sent) : (w \o sent)[i] = i
  <2> SUFFICES ASSUME NEW i \in 1..Len(w \o sent)
               PROVE  (w \o sent)[i] = i
    OBVIOUS
  <2>1. CASE i \in 1..Len(w)
    BY <1>4, <2>1 DEF InOrder
  <2>2. CASE i \in Len(w) + 1..Len(w) + k
    <3>1. i - Len(w) \in 1..k /\ i - Len(w) \in 1..Len(q)
      BY <2>2
    <3>2. (w \o sent)[i] = q[i - Len(w)].msg
      BY <1>1, <1>2, <1>4, <2>2, <3>1
    <3>3. QED
      BY <3>1, <3>2 DEF InOrder
  <2>3. QED
    BY <1>4, <2>1, <2>2
<1>6. \A i \in 1..Len(others) : others[i].msg = Len(w \o sent) + i
  <2> SUFFICES ASSUME NEW i \in 1..Len(others)
               PROVE  others[i].msg = Len(w \o sent) + i
    OBVIOUS
  <2>1. k + i \in 1..Len(q)
    BY <1>3
  <2>2. q[k + i].msg = Len(w) + (k + i)
    BY <2>1 DEF InOrder
  <2>3. QED
    BY <1>3, <1>4, <2>2
<1>7. InOrder(w \o sent, others, n)
  <2>1. Len(w) \in Nat /\ Len(q) \in Nat /\ Len(w) + Len(q) = n
    BY DEF InOrder
  <2>2. Len(w \o sent) + Len(others) = n
    <3>1. Len(w \o sent) = Len(w) + k /\ Len(others) = Len(q) - k /\ k \in Nat
      BY <1>3, <1>4, <2>1
    <3>2. Len(w \o sent) + Len(others) = (Len(w) + k) + (Len(q) - k)
      BY <3>1
    <3>3. (Len(w) + k) + (Len(q) - k) = Len(w) + Len(q)
      BY <2>1, <3>1
    <3>4. QED
      BY <2>1, <3>2, <3>3
  <2>3. QED
    BY <1>5, <1>6, <2>2 DEF InOrder
<1>8. QED
  BY <1>3, <1>4, <1>7 DEF sent, others

LEMMA DrainStep ==
    ASSUME BpInv, NEW c \in Clients, BP!Drain(c)
    PROVE  BpInv'
<1>1. MaySend(c) /\ totalBp \in Int /\ BP!Open(c) /\ sends' = sends
  BY DEF BP!Drain, MaySend, BpInv, BpTypeOK
<1>2. CASE BP!HeadLate(c)
  BY <1>1, <1>2, DropStep DEF BP!Drain
<1>3. CASE ~BP!HeadLate(c)
  <2>1. PICK k \in 0..Len(backpressureQueue[c]), full \in BOOLEAN :
            /\ k < Len(backpressureQueue[c]) => k > 0 /\ full
            /\ totalBp' = totalBp - k
            /\ wire' = [wire EXCEPT ![c] = @ \o SubSeq(BP!Waiting(c), 1, k)]
            /\ backpressureQueue' = [backpressureQueue EXCEPT ![c] =
                                         SubSeq(@, k + 1, Len(@))]
            /\ buffered' = [buffered EXCEPT ![c] = full]
            /\ requoted' = [requoted EXCEPT ![c] =
                   @ \cup ({BP!Waiting(c)[i] : i \in 1..k} \cap Strings)]
            /\ UNCHANGED <<ended, alive>>
    BY <1>3 DEF BP!Drain
  <2>2. /\ wire[c] \in Seq(Nat) /\ sends[c] \in Nat
        /\ backpressureQueue[c] \in Seq(Message)
        /\ InOrder(wire[c], backpressureQueue[c], sends[c])
    BY <1>1 DEF BpInv, BpTypeOK
  <2> DEFINE w == wire[c] \o SubSeq(BP!Waiting(c), 1, k)
             q == SubSeq(backpressureQueue[c], k + 1, Len(backpressureQueue[c]))
  <2>3. /\ w \in Seq(Nat) /\ q \in Seq(Message)
        /\ Len(q) = Len(backpressureQueue[c]) - k
        /\ InOrder(w, q, sends[c])
    BY <2>2, MoveInOrder, WaitingSeq
  <2>4. /\ wire' = [wire EXCEPT ![c] = w]
        /\ backpressureQueue' = [backpressureQueue EXCEPT ![c] = q]
    BY <2>1
  <2> HIDE DEF w, q
  <2>5. wire'[c] = w /\ backpressureQueue'[c] = q /\ buffered'[c] = full
    BY <2>1, <2>4 DEF BpInv, BpTypeOK
  <2>6. BpTypeOK'
    <3>1. totalBp' \in Int
      BY <1>1, <2>1, <2>2
    <3>2. {BP!Waiting(c)[i] : i \in 1..k} \subseteq Nat
      <4>1. /\ BP!Waiting(c) \in Seq(Nat) /\ Len(BP!Waiting(c)) = Len(backpressureQueue[c])
            /\ Len(backpressureQueue[c]) \in Nat
        BY <2>2, WaitingSeq, LenProperties DEF Numbers
      <4>2. \A i \in 1..k : BP!Waiting(c)[i] \in Nat
        BY <4>1, ElementOfSeq
      <4>3. QED
        BY <4>2
    <3>3. requoted' \in [Clients -> SUBSET Nat]
      <4> DEFINE more == {BP!Waiting(c)[i] : i \in 1..k} \cap Strings
      <4>1. requoted' = [requoted EXCEPT ![c] = @ \cup more] /\ more \subseteq Nat
        BY <2>1, <3>2
      <4> HIDE DEF more
      <4>2. QED
        BY <4>1 DEF BpInv, BpTypeOK
    <3>4. QED
      BY <1>1, <2>1, <2>3, <2>4, <3>1, <3>3 DEF BpInv, BpTypeOK
  <2>7. ~buffered'[c] => backpressureQueue'[c] = <<>>
    BY <2>1, <2>2, <2>3, <2>5
  <2>8. \A d \in Clients \ {c} :
            /\ wire'[d] = wire[d] /\ backpressureQueue'[d] = backpressureQueue[d]
            /\ sends'[d] = sends[d] /\ buffered'[d] = buffered[d]
    BY <1>1, <2>1, <2>4 DEF BpInv, BpTypeOK
  <2>9. QED
    BY <1>1, <2>1, <2>3, <2>5, <2>6, <2>7, <2>8, OneClientStep
<1>4. QED
  BY <1>2, <1>3

LEMMA DestroyStep ==
    ASSUME BpInv, NEW c \in Clients, BP!Destroy(c)
    PROVE  BpInv'
<1>1. Len(backpressureQueue[c]) \in Nat /\ totalBp \in Int
  BY DEF BpInv, BpTypeOK
<1>2. QED
  BY <1>1, DropStep DEF BP!Destroy, MaySend

LEMMA TenSecondsStep ==
    ASSUME BpInv, BP!TenSeconds
    PROVE  BpInv'
<1>1. ASSUME NEW c \in Clients
      PROVE  /\ backpressureQueue'[c] \in Seq(Message)
             /\ Len(backpressureQueue'[c]) = Len(backpressureQueue[c])
             /\ \A i \in 1..Len(backpressureQueue[c]) :
                    backpressureQueue'[c][i].msg = backpressureQueue[c][i].msg
             /\ backpressureQueue[c] = <<>> => backpressureQueue'[c] = <<>>
  <2>1. backpressureQueue[c] \in Seq(Message)
    BY DEF BpInv, BpTypeOK
  <2>2. backpressureQueue'[c] = [i \in 1..Len(backpressureQueue[c]) |->
            [backpressureQueue[c][i] EXCEPT !.late = TRUE]]
    BY <2>1 DEF BP!TenSeconds
  <2> DEFINE q == backpressureQueue[c]
  <2>3a. \A i \in 1..Len(q) : q[i] \in Message
    BY <2>1, ElementOfSeq
  <2>3. \A i \in 1..Len(backpressureQueue[c]) :
            /\ [backpressureQueue[c][i] EXCEPT !.late = TRUE] \in Message
            /\ [backpressureQueue[c][i] EXCEPT !.late = TRUE].msg =
                   backpressureQueue[c][i].msg
    BY <2>3a DEF Message
  <2>4. QED
    BY <2>1, <2>2, <2>3
<1>2. BpTypeOK'
  BY <1>1 DEF BpInv, BpTypeOK, BP!TenSeconds
<1>3. ASSUME NEW c \in Clients, BP!Open(c)'
      PROVE  /\ InOrder(wire[c], backpressureQueue[c], sends[c])'
             /\ ~buffered'[c] => backpressureQueue'[c] = <<>>
  <2>1. /\ BP!Open(c) /\ wire' = wire /\ sends' = sends /\ buffered' = buffered
    BY <1>3 DEF BP!TenSeconds, BP!Open
  <2>2. QED
    BY <1>1, <2>1 DEF BpInv, InOrder
<1>4. QED
  BY <1>2, <1>3 DEF BpInv

LEMMA BpStepOK == BpInv /\ [BP!Next]_(BP!vars) => BpInv'
<1> SUFFICES ASSUME BpInv, [BP!Next]_(BP!vars)
             PROVE  BpInv'
  OBVIOUS
<1>1. CASE UNCHANGED BP!vars
  BY <1>1 DEF BP!vars, BpInv, BpTypeOK, BP!Open
<1>2. QED
  BY <1>1, SendNowStep, SendLaterStep, DrainStep, DestroyStep, TenSecondsStep DEF BP!Next

\* The invariant holds in every reachable state.
LEMMA BpInvariance == Spec => []BpInv
BY BpInitOK, BpStepOK, BackpressurePart, PTL DEF Spec
-----------------------------------------------------------------------------
(***************************************************************************)
(* What follows from the order.                                            *)
(***************************************************************************)
\* What an open socket was given, and then what waits for it, is what was sent.
LEMMA OrderIsComplete == BpInv => BP!NothingOvertakes
<1> SUFFICES ASSUME BpInv, NEW c \in Clients, BP!Open(c)
             PROVE  wire[c] \o BP!Waiting(c) = [i \in 1..sends[c] |-> i]
  BY DEF BP!NothingOvertakes
<1> DEFINE w == wire[c]
           q == backpressureQueue[c]
           n == sends[c]
           ws == BP!Waiting(c)
           all == [i \in 1..n |-> i]
<1>1. w \in Seq(Nat) /\ q \in Seq(Message) /\ n \in Nat /\ InOrder(w, q, n)
  BY DEF BpInv, BpTypeOK
<1>2. ws \in Seq(Nat) /\ Numbers(ws, q)
  BY <1>1, WaitingSeq
<1>3. all \in Seq(Nat) /\ Len(all) = n /\ \A i \in 1..n : all[i] = i
  <2>1. all \in [1..n -> Nat]
    BY <1>1
  <2>2. all \in Seq(Nat)
    BY <1>1, <2>1, SeqDef
  <2>3. QED
    BY <1>1, <2>1, <2>2, LenProperties
<1> HIDE DEF w, q, n, ws, all
<1>4. /\ Len(w) \in Nat /\ Len(q) \in Nat
      /\ Len(w) + Len(q) = n /\ Len(ws) = Len(q)
  BY <1>1, <1>2 DEF InOrder, Numbers
<1>5. /\ w \o ws \in Seq(Nat) /\ Len(w \o ws) = n
      /\ \A i \in 1..n : (w \o ws)[i] = IF i <= Len(w) THEN w[i] ELSE ws[i - Len(w)]
  BY <1>1, <1>2, <1>4, ConcatProperties
<1>6. ASSUME NEW i \in 1..n
      PROVE  (w \o ws)[i] = i
  <2>1. CASE i <= Len(w)
    BY <1>1, <1>4, <1>5, <2>1 DEF InOrder
  <2>2. CASE ~(i <= Len(w))
    <3>1. i - Len(w) \in 1..Len(q)
      BY <1>4, <2>2
    <3>2. ws[i - Len(w)] = Len(w) + (i - Len(w))
      BY <1>1, <1>2, <3>1 DEF InOrder, Numbers
    <3>3. Len(w) + (i - Len(w)) = i
      BY <1>4
    <3>4. QED
      BY <1>5, <2>2, <3>2, <3>3
  <2>3. QED
    BY <2>1, <2>2
<1>7. w \o ws = all
  BY <1>3, <1>5, <1>6, SeqEqual
<1>8. QED
  BY <1>7 DEF w, ws, all, n

\* send() and drain() never let a message overtake another: what the socket of
\* an open client was given and what waits in its backpressureQueue are, in
\* this order, the messages that were sent to it.
THEOREM InOrderAlways == Spec => []BP!NothingOvertakes
BY BpInvariance, OrderIsComplete, PTL
-----------------------------------------------------------------------------
(***************************************************************************)
(* Backpressure implements OrderedDelivery.                                *)
(***************************************************************************)
gone == [c \in Clients |-> ~BP!Open(c)]

\* The messages on the wire of an open client are the first that were sent.
LEMMA WireIsFirstOnes ==
    ASSUME NEW w \in Seq(Nat), NEW q \in Seq(Message), NEW n \in Nat,
           InOrder(w, q, n)
    PROVE  w = BP!Delivery!FirstOnes(Len(w)) /\ Len(w) \in 0..n
<1>1. /\ Len(w) \in Nat /\ Len(q) \in Nat /\ Len(w) + Len(q) = n
      /\ \A i \in 1..Len(w) : w[i] = i
  BY DEF InOrder
<1>2. w \in [1..Len(w) -> Nat]
  BY LenProperties
<1>3. QED
  BY <1>1, <1>2 DEF BP!Delivery!FirstOnes

\* What the step gives to c encoded twice: the strings sent before the step.
Garbled(c) == Strings \cap (Len(wire[c]) + 1)..Len(wire'[c]) \cap 1..sends[c]

LEMMA LenOfFirst ==
    ASSUME NEW s \in Seq(Nat), NEW k \in Nat, k <= Len(s)
    PROVE  Len(SubSeq(s, 1, k)) = k
<1>1. k \in Int /\ Len(s) \in Nat /\ \A i \in 1..k : s[i] \in Nat
  BY ElementOfSeq, LenProperties
<1>2. Len(SubSeq(s, 1, k)) = IF 1 <= k THEN k - 1 + 1 ELSE 0
  BY <1>1, SubSeqProperties
<1>3. QED
  BY <1>2

LEMMA Shifted ==
    ASSUME NEW n \in Nat, NEW k \in Nat, NEW m \in Nat, n + k <= m
    PROVE  {n + i : i \in 1..k} = (n + 1)..(n + k) \cap 1..m
<1>1. \A j \in (n + 1)..(n + k) : j - n \in 1..k /\ n + (j - n) = j /\ j \in 1..m
  OBVIOUS
<1>2. \A i \in 1..k : n + i \in (n + 1)..(n + k)
  OBVIOUS
<1>3. QED
  BY <1>1, <1>2

\* A step that only an open client c and its messages take part in.
LEMMA TransmitStep ==
    ASSUME BpInv, BpInv', NEW c \in Clients, BP!Open(c), BP!Open(c)', MaySend(c),
           wire' = [wire EXCEPT ![c] = wire'[c]], Len(wire[c]) <= Len(wire'[c]),
           requoted' = [requoted EXCEPT ![c] = @ \cup Garbled(c)],
           UNCHANGED <<ended, alive>>
    PROVE  BP!Delivery!Transmit(c)
<1>1. wire'[c] = BP!Delivery!FirstOnes(Len(wire'[c])) /\ Len(wire'[c]) \in 0..sends'[c]
  BY WireIsFirstOnes DEF BpInv, BpTypeOK
<1>2. Len(wire'[c]) \in Len(wire[c])..sends'[c]
  BY <1>1 DEF BpInv, BpTypeOK
<1>3. wire' = [wire EXCEPT ![c] = BP!Delivery!FirstOnes(Len(wire'[c]))]
  BY <1>1
<1>4. UNCHANGED gone /\ ~gone[c]
  BY DEF gone, BP!Open
<1>5. QED
  BY <1>2, <1>3, <1>4 DEF BP!Delivery!Transmit, BP!Delivery!Send, MaySend, gone, Garbled

\* A step with which clients go.
LEMMA LoseStep ==
    ASSUME NEW c \in Clients, BP!Open(c), MaySend(c), UNCHANGED <<wire, requoted>>,
           NEW C \in SUBSET Clients,
           \A d \in Clients : BP!Open(d)' <=> BP!Open(d) /\ d \notin C
    PROVE  BP!Delivery!Lose(c, C)
BY DEF BP!Delivery!Lose, BP!Delivery!Send, MaySend

LEMMA DropLoses ==
    ASSUME BpInv, NEW c \in Clients, BP!Open(c), MaySend(c), BP!Drop(c)
    PROVE  BP!Delivery!Next
<1>1. \A d \in Clients : BP!Open(d)' <=> BP!Open(d) /\ d \notin {c}
  BY DEF BP!Drop, BP!Open, BpInv, BpTypeOK
<1>2. BP!Delivery!Lose(c, {c})
  BY <1>1, LoseStep DEF BP!Drop
<1>3. QED
  BY <1>2 DEF BP!Delivery!Next

LEMMA InitRefines == BP!Init => BP!Delivery!Init
BY DEF BP!Init, BP!Delivery!Init, BP!Open

LEMMA StepRefines ==
    BpInv /\ BpInv' /\ [BP!Next]_(BP!vars) => [BP!Delivery!Next]_(BP!Delivery!vars)
<1> SUFFICES ASSUME BpInv, BpInv', [BP!Next]_(BP!vars)
             PROVE  BP!Delivery!Next \/ UNCHANGED BP!Delivery!vars
  OBVIOUS
<1>1. ASSUME NEW c \in Clients, BP!SendNow(c)
      PROVE  BP!Delivery!Next
  <2>1. /\ BP!Open(c) /\ BP!Open(c)' /\ UNCHANGED <<ended, alive>>
        /\ MaySend(c) /\ wire[c] \in Seq(Nat) /\ sends'[c] = sends[c] + 1
        /\ sends'[c] \in Nat
        /\ wire' = [wire EXCEPT ![c] = Append(@, sends'[c])]
    BY <1>1 DEF BP!SendNow, BP!Open, MaySend, BpInv, BpTypeOK
  <2>2. wire'[c] = Append(wire[c], sends'[c])
    BY <2>1 DEF BpInv, BpTypeOK
  <2>3. wire' = [wire EXCEPT ![c] = wire'[c]] /\ Len(wire[c]) <= Len(wire'[c])
    <3>1. wire' = [wire EXCEPT ![c] = wire'[c]]
      BY <2>1, <2>2
    <3>2. Len(wire'[c]) = Len(wire[c]) + 1 /\ Len(wire[c]) \in Nat
      BY <2>1, <2>2, AppendProperties
    <3>3. QED
      BY <3>1, <3>2
  <2>4. requoted' = [requoted EXCEPT ![c] = @ \cup Garbled(c)]
    <3>1. InOrder(wire[c], <<>>, sends[c]) /\ sends[c] \in Nat
      BY <1>1, <2>1 DEF BP!SendNow, BP!MayWrite, BpInv, BpTypeOK
    <3>2. Len(wire[c]) = sends[c]
      BY <2>1, <3>1 DEF InOrder
    <3>3. Garbled(c) = {}
      BY <3>1, <3>2 DEF Garbled
    <3>4. QED
      BY <1>1, <3>3 DEF BP!SendNow, BpInv, BpTypeOK
  <2>5. QED
    BY <2>1, <2>3, <2>4, TransmitStep DEF BP!Delivery!Next
<1>2. ASSUME NEW c \in Clients, BP!SendLater(c)
      PROVE  BP!Delivery!Next
  <2>1. BP!Open(c) /\ MaySend(c)
    BY <1>2 DEF BP!SendLater, MaySend
  <2>2. CASE BP!Drop(c)
    BY <2>1, <2>2, DropLoses
  <2>3. CASE alive' = FALSE /\ UNCHANGED <<wire, requoted>>
    <3>1. BP!Delivery!Lose(c, Clients)
      BY <2>1, <2>3, LoseStep DEF BP!Open
    <3>2. QED
      BY <3>1 DEF BP!Delivery!Next
  <2>4. CASE UNCHANGED <<ended, buffered, wire, requoted, alive>>
    <3>1. wire' = [wire EXCEPT ![c] = wire'[c]] /\ Len(wire[c]) <= Len(wire'[c])
      BY <2>4 DEF BpInv, BpTypeOK
    <3>2. Garbled(c) = {}
      <4>1. Len(wire'[c]) = Len(wire[c]) /\ Len(wire[c]) \in Nat
        BY <2>4 DEF BpInv, BpTypeOK
      <4>2. QED
        BY <4>1 DEF Garbled
    <3>3. requoted' = [requoted EXCEPT ![c] = @ \cup Garbled(c)]
      BY <2>4, <3>2 DEF BpInv, BpTypeOK
    <3>4. QED
      BY <2>1, <2>4, <3>1, <3>3, TransmitStep DEF BP!Delivery!Next, BP!Open
  <2>5. QED
    BY <1>2, <2>2, <2>3, <2>4 DEF BP!SendLater
<1>3. ASSUME NEW c \in Clients, BP!Drain(c)
      PROVE  BP!Delivery!Next
  <2>1. BP!Open(c) /\ MaySend(c) /\ wire[c] \in Seq(Nat)
    BY <1>3 DEF BP!Drain, MaySend, BpInv, BpTypeOK
  <2>2. CASE BP!HeadLate(c)
    BY <1>3, <2>1, <2>2, DropLoses DEF BP!Drain
  <2>3. CASE ~BP!HeadLate(c)
    <3>1. PICK k \in 0..Len(backpressureQueue[c]) :
              /\ wire' = [wire EXCEPT ![c] = @ \o SubSeq(BP!Waiting(c), 1, k)]
              /\ requoted' = [requoted EXCEPT ![c] =
                     @ \cup ({BP!Waiting(c)[i] : i \in 1..k} \cap Strings)]
              /\ UNCHANGED <<ended, alive>>
      BY <1>3, <2>3 DEF BP!Drain
    <3>2. /\ backpressureQueue[c] \in Seq(Message) /\ sends[c] \in Nat
          /\ InOrder(wire[c], backpressureQueue[c], sends[c])
      BY <2>1 DEF BpInv, BpTypeOK
    <3>3. SubSeq(BP!Waiting(c), 1, k) \in Seq(Nat)
      <4>1. /\ BP!Waiting(c) \in Seq(Nat) /\ Len(BP!Waiting(c)) = Len(backpressureQueue[c])
        BY <3>2, WaitingSeq DEF Numbers
      <4>2. \A i \in 1..k : BP!Waiting(c)[i] \in Nat
        BY <4>1, ElementOfSeq
      <4>3. QED
        BY <4>2, SubSeqProperties
    <3>4. wire'[c] = wire[c] \o SubSeq(BP!Waiting(c), 1, k)
      BY <3>1 DEF BpInv, BpTypeOK
    <3>5. wire' = [wire EXCEPT ![c] = wire'[c]] /\ Len(wire[c]) <= Len(wire'[c])
      <4>1. wire' = [wire EXCEPT ![c] = wire'[c]]
        BY <3>1, <3>4
      <4>2. /\ Len(wire'[c]) = Len(wire[c]) + Len(SubSeq(BP!Waiting(c), 1, k))
            /\ Len(wire[c]) \in Nat /\ Len(SubSeq(BP!Waiting(c), 1, k)) \in Nat
        BY <2>1, <3>3, <3>4, ConcatProperties, LenProperties
      <4>3. \A a, b \in Nat : a <= a + b
        OBVIOUS
      <4>4. Len(wire[c]) <= Len(wire'[c])
        BY <4>2, <4>3, Zenon
      <4>5. QED
        BY <4>1, <4>4
    <3>6. {BP!Waiting(c)[i] : i \in 1..k} \cap Strings = Garbled(c)
      <4>1. /\ Len(wire[c]) \in Nat /\ Len(backpressureQueue[c]) \in Nat
            /\ Len(wire[c]) + Len(backpressureQueue[c]) = sends[c]
            /\ k \in Nat /\ k <= Len(backpressureQueue[c])
        <5>1. Len(wire[c]) \in Nat /\ Len(backpressureQueue[c]) \in Nat
          BY <2>1, <3>2, LenProperties
        <5>2. k \in Nat /\ k <= Len(backpressureQueue[c])
          BY <5>1
        <5>3. QED
          BY <3>2, <5>1, <5>2 DEF InOrder
      <4>2. \A i \in 1..k : BP!Waiting(c)[i] = Len(wire[c]) + i
        <5>1. \A i \in 1..Len(backpressureQueue[c]) :
                  backpressureQueue[c][i].msg = Len(wire[c]) + i
          BY <3>2 DEF InOrder
        <5>2. \A i \in 1..Len(backpressureQueue[c]) :
                  BP!Waiting(c)[i] = backpressureQueue[c][i].msg
          BY <3>2, WaitingSeq DEF Numbers
        <5>3. \A i \in 1..k : i \in 1..Len(backpressureQueue[c])
          BY <4>1
        <5>4. QED
          BY <5>1, <5>2, <5>3, Zenon
      <4>3. Len(wire'[c]) = Len(wire[c]) + k
        <5>1. /\ Len(BP!Waiting(c)) = Len(backpressureQueue[c])
              /\ BP!Waiting(c) \in Seq(Nat)
          BY <3>2, WaitingSeq DEF Numbers
        <5>2. Len(SubSeq(BP!Waiting(c), 1, k)) = k
          BY <4>1, <5>1, LenOfFirst
        <5>3. Len(wire'[c]) = Len(wire[c]) + Len(SubSeq(BP!Waiting(c), 1, k))
          BY <2>1, <3>3, <3>4, ConcatProperties
        <5>4. QED
          BY <5>2, <5>3
      <4>4. {Len(wire[c]) + i : i \in 1..k} =
                (Len(wire[c]) + 1)..(Len(wire[c]) + k) \cap 1..sends[c]
        <5> DEFINE n == Len(wire[c])
                   l == Len(backpressureQueue[c])
                   m == sends[c]
        <5>1. n \in Nat /\ l \in Nat /\ m \in Nat /\ n + l = m /\ k \in Nat /\ k <= l
          BY <3>2, <4>1
        <5> HIDE DEF n, l, m
        <5>2. n + k <= m
          BY <5>1
        <5>3. {n + i : i \in 1..k} = (n + 1)..(n + k) \cap 1..m
          BY <5>1, <5>2, Shifted
        <5>4. QED
          BY <5>3 DEF n, m
      <4>5. {BP!Waiting(c)[i] : i \in 1..k} = {Len(wire[c]) + i : i \in 1..k}
        BY <4>2
      <4>6. QED
        BY <4>3, <4>4, <4>5 DEF Garbled
    <3>7. QED
      BY <2>1, <3>1, <3>5, <3>6, TransmitStep DEF BP!Delivery!Next, BP!Open
  <2>4. QED
    BY <2>2, <2>3
<1>4. ASSUME NEW c \in Clients, BP!Destroy(c)
      PROVE  BP!Delivery!Next
  BY <1>4, DropLoses DEF BP!Destroy, MaySend
<1>5. CASE BP!TenSeconds
  BY <1>5 DEF BP!TenSeconds, BP!Delivery!vars, BP!Open
<1>6. CASE UNCHANGED BP!vars
  BY <1>6 DEF BP!vars, BP!Delivery!vars, BP!Open
<1>7. QED
  BY <1>1, <1>2, <1>3, <1>4, <1>5, <1>6 DEF BP!Next

\* A client counts on what OrderedDelivery says, and no more: it is given the
\* messages in the order in which send() was called, each once and none left
\* out, until it is gone; and nothing afterwards.  Strings that had to wait
\* are among them, but encoded twice, and the client drops them.
THEOREM DeliveryImplemented == Spec => ImplementsDelivery
<1>1. BpInv /\ [BP!Next]_(BP!vars) /\ BpInv' => [BP!Delivery!Next]_(BP!Delivery!vars)
  BY StepRefines
<1>2. QED
  BY BpInvariance, InitRefines, <1>1, BackpressurePart, PTL
     DEF Spec, ImplementsDelivery, BP!ImplementsDelivery, BP!Delivery!Spec
-----------------------------------------------------------------------------
(***************************************************************************)
(* totalBp covers what waits.                                              *)
(***************************************************************************)
\* What waits in the queues Q for the clients in C.
BacklogOf(Q, C) == UNION {{c} \X DOMAIN Q[c] : c \in C}

\* Cardinality of the part is the library's.
LEMMA CoversIs ==
    /\ BP!TotalCoversQueues <=> totalBp >= Cardinality(BP!Backlog)
    /\ BP!TotalCoversQueues' <=> totalBp' >= Cardinality(BP!Backlog')
BY DEF BP!TotalCoversQueues, BP!Cardinality, Cardinality

QueueFunctions == [Clients -> Seq(Message)]

LEMMA CountUpTo ==
    ASSUME NEW n \in Nat
    PROVE  IsFiniteSet(1..n) /\ Cardinality(1..n) = n
<1>1. /\ IsFiniteSet(1..n)
      /\ Cardinality(1..n) = IF 1 > n THEN 0 ELSE n - 1 + 1
  BY FS_Interval
<1>2. QED
  BY <1>1

LEMMA BacklogFinite ==
    ASSUME NEW Q \in QueueFunctions, NEW C \in SUBSET Clients
    PROVE  IsFiniteSet(BacklogOf(Q, C))
<1> DEFINE f == [c \in C |-> {c} \X DOMAIN Q[c]]
           S == {{c} \X DOMAIN Q[c] : c \in C}
<1>1. IsFiniteSet(C)
  BY FS_Subset, ClientsAreFinite
<1>2. f \in Surjection(C, S)
  BY DEF Surjection
<1>3. IsFiniteSet(S)
  BY <1>1, <1>2, FS_Surjection
<1>4. ASSUME NEW c \in C
      PROVE  IsFiniteSet({c} \X DOMAIN Q[c])
  <2>1. Q[c] \in Seq(Message)
    BY DEF QueueFunctions
  <2>2. DOMAIN Q[c] = 1..Len(Q[c]) /\ Len(Q[c]) \in Nat
    BY <2>1, LenProperties
  <2>3. IsFiniteSet(DOMAIN Q[c]) /\ IsFiniteSet({c})
    BY <2>2, CountUpTo, FS_Singleton
  <2>4. QED
    BY <2>3, FS_Product
<1>5. \A T \in S : IsFiniteSet(T)
  BY <1>4
<1>6. QED
  BY <1>3, <1>5, FS_UNION DEF BacklogOf

\* The messages for one client can be counted apart.
LEMMA BacklogSplits ==
    ASSUME NEW Q \in QueueFunctions, NEW c \in Clients
    PROVE  /\ Cardinality(BacklogOf(Q, Clients \ {c})) \in Nat
           /\ Len(Q[c]) \in Nat
           /\ Cardinality(BacklogOf(Q, Clients)) =
                  Cardinality(BacklogOf(Q, Clients \ {c})) + Len(Q[c])
<1> DEFINE others == BacklogOf(Q, Clients \ {c})
           own  == {c} \X DOMAIN Q[c]
<1>1. Q[c] \in Seq(Message)
  BY DEF QueueFunctions
<1>2. DOMAIN Q[c] = 1..Len(Q[c]) /\ Len(Q[c]) \in Nat
  BY <1>1, LenProperties
<1>3. IsFiniteSet(own) /\ Cardinality(own) = Len(Q[c])
  <2>1. /\ IsFiniteSet(DOMAIN Q[c]) /\ Cardinality(DOMAIN Q[c]) = Len(Q[c])
        /\ IsFiniteSet({c}) /\ Cardinality({c}) = 1
    BY <1>2, CountUpTo, FS_Singleton
  <2>2. IsFiniteSet(own) /\ Cardinality(own) = 1 * Len(Q[c])
    BY <2>1, FS_Product
  <2>3. QED
    BY <1>2, <2>2
<1>4. IsFiniteSet(others)
  BY BacklogFinite
<1>5. BacklogOf(Q, Clients) = others \cup own
  BY DEF BacklogOf
<1>6. others \cap own = {}
  BY DEF BacklogOf
<1> HIDE DEF others, own
<1>7. Cardinality(others \cup own) = Cardinality(others) + Len(Q[c])
  <2>1. Cardinality(others \cup own) =
            Cardinality(others) + Cardinality(own) - Cardinality(others \cap own)
    BY <1>3, <1>4, FS_Union
  <2>2. Cardinality(others \cap own) = 0
    BY <1>6, FS_EmptySet
  <2>3. Cardinality(others) \in Nat
    BY <1>4, FS_CardinalityType
  <2>4. QED
    BY <1>2, <1>3, <2>1, <2>2, <2>3
<1>8. Cardinality(others) \in Nat
  BY <1>4, FS_CardinalityType
<1>9. QED
  BY <1>2, <1>5, <1>7, <1>8 DEF others

\* Another queue for c changes what waits by the difference of the lengths.
LEMMA BacklogChanges ==
    ASSUME NEW Q \in QueueFunctions, NEW c \in Clients,
           NEW q \in Seq(Message)
    PROVE  /\ Cardinality(BacklogOf(Q, Clients)) \in Nat
           /\ Cardinality(BacklogOf([Q EXCEPT ![c] = q], Clients)) + Len(Q[c]) =
                  Cardinality(BacklogOf(Q, Clients)) + Len(q)
           /\ Cardinality(BacklogOf([Q EXCEPT ![c] = q], Clients)) \in Nat
           /\ Len(Q[c]) <= Cardinality(BacklogOf(Q, Clients))
<1> DEFINE R == [Q EXCEPT ![c] = q]
<1>1. R \in QueueFunctions /\ R[c] = q
  BY DEF QueueFunctions
<1>2. BacklogOf(R, Clients \ {c}) = BacklogOf(Q, Clients \ {c})
  <2>1. \A d \in Clients \ {c} : R[d] = Q[d]
    BY DEF QueueFunctions
  <2>2. QED
    BY <2>1 DEF BacklogOf
<1> HIDE DEF R
<1>3. /\ Cardinality(BacklogOf(R, Clients)) =
             Cardinality(BacklogOf(Q, Clients \ {c})) + Len(q)
      /\ Len(q) \in Nat
  BY <1>1, <1>2, BacklogSplits
<1>4. /\ Cardinality(BacklogOf(Q, Clients)) =
             Cardinality(BacklogOf(Q, Clients \ {c})) + Len(Q[c])
      /\ Len(Q[c]) \in Nat /\ Cardinality(BacklogOf(Q, Clients \ {c})) \in Nat
  BY BacklogSplits
<1>5. QED
  BY <1>3, <1>4 DEF R

\* totalBp covers what waits after a step that loses the queue of c, and
\* lowers totalBp by at most its length.
LEMMA DropCovers ==
    ASSUME BpInv, BP!TotalCoversQueues,
           NEW c \in Clients, BP!Drop(c), totalBp' \in Int,
           totalBp' >= totalBp - Len(backpressureQueue[c])
    PROVE  BP!TotalCoversQueues'
<1>1. /\ backpressureQueue \in QueueFunctions
      /\ backpressureQueue' = [backpressureQueue EXCEPT ![c] = <<>>]
      /\ totalBp \in Int
  BY DEF BpInv, BpTypeOK, QueueFunctions, BP!Drop
<1>2. /\ Cardinality(BacklogOf(backpressureQueue', Clients)) + Len(backpressureQueue[c]) =
             Cardinality(BacklogOf(backpressureQueue, Clients)) + Len(<<>>)
      /\ Cardinality(BacklogOf(backpressureQueue', Clients)) \in Nat
      /\ Cardinality(BacklogOf(backpressureQueue, Clients)) \in Nat
  BY <1>1, BacklogChanges, EmptySeq
<1>3. totalBp >= Cardinality(BacklogOf(backpressureQueue, Clients))
  BY CoversIs DEF BP!Backlog, BacklogOf
<1>4. Len(backpressureQueue[c]) \in Nat /\ Len(<<>>) = 0
  BY DEF BpInv, BpTypeOK
<1>5. totalBp' >= Cardinality(BacklogOf(backpressureQueue', Clients))
  BY <1>1, <1>2, <1>3, <1>4
<1>6. QED
  BY <1>5, CoversIs DEF BP!Backlog, BacklogOf

\* It covers what waits after a step that gives c the queue q.
LEMMA QueueCovers ==
    ASSUME BpInv, BP!TotalCoversQueues,
           NEW c \in Clients, NEW q \in Seq(Message),
           backpressureQueue' = [backpressureQueue EXCEPT ![c] = q],
           totalBp' = totalBp + (Len(q) - Len(backpressureQueue[c]))
    PROVE  BP!TotalCoversQueues'
<1>1. backpressureQueue \in QueueFunctions /\ totalBp \in Int
  BY DEF BpInv, BpTypeOK, QueueFunctions
<1>2. /\ Cardinality(BacklogOf(backpressureQueue', Clients)) + Len(backpressureQueue[c]) =
             Cardinality(BacklogOf(backpressureQueue, Clients)) + Len(q)
      /\ Cardinality(BacklogOf(backpressureQueue', Clients)) \in Nat
      /\ Cardinality(BacklogOf(backpressureQueue, Clients)) \in Nat
  BY <1>1, BacklogChanges
<1>3. totalBp >= Cardinality(BacklogOf(backpressureQueue, Clients))
  BY CoversIs DEF BP!Backlog, BacklogOf
<1>4. Len(backpressureQueue[c]) \in Nat /\ Len(q) \in Nat
  BY DEF BpInv, BpTypeOK
<1>5. \A t, u \in Int, old, new, m, n \in Nat :
          u = t + (n - m) /\ t >= old /\ new + m = old + n => u >= new
  OBVIOUS
<1>6. totalBp' \in Int
  BY <1>1, <1>4
<1>7. totalBp' >= Cardinality(BacklogOf(backpressureQueue', Clients))
  BY <1>1, <1>2, <1>3, <1>4, <1>5, <1>6, Zenon
<1>8. QED
  BY <1>7, CoversIs DEF BP!Backlog, BacklogOf

LEMMA StepCovers == BpInv /\ BP!TotalCoversQueues /\ [BP!Next]_(BP!vars) => BP!TotalCoversQueues'
<1> SUFFICES ASSUME BpInv, BP!TotalCoversQueues, [BP!Next]_(BP!vars)
             PROVE  BP!TotalCoversQueues'
  OBVIOUS
<1>0. totalBp \in Int /\ \A c \in Clients : Len(backpressureQueue[c]) \in Nat
  BY DEF BpInv, BpTypeOK
<1>1. CASE UNCHANGED <<backpressureQueue, totalBp>>
  BY <1>1 DEF BP!TotalCoversQueues, BP!Backlog
<1>2. ASSUME NEW c \in Clients, BP!SendLater(c)
      PROVE  BP!TotalCoversQueues'
  <2>1. CASE BP!HeadLate(c)
    BY <1>0, <1>2, <2>1, DropCovers DEF BP!SendLater
  <2>2. CASE ~BP!HeadLate(c) /\ totalBp' > MaxTotal
    <3>1. totalBp' = totalBp + 1 /\ UNCHANGED backpressureQueue
      BY <1>2, <2>2 DEF BP!SendLater
    <3>2. Cardinality(BP!Backlog) <= totalBp /\ Cardinality(BP!Backlog) \in Nat
      BY <1>0, CoversIs, BacklogFinite, FS_CardinalityType
         DEF BP!Backlog, BacklogOf, BpInv, BpTypeOK, QueueFunctions
    <3>3. BP!Backlog' = BP!Backlog
      BY <3>1 DEF BP!Backlog
    <3>4. Cardinality(BP!Backlog) <= totalBp'
      BY <1>0, <3>1, <3>2
    <3>5. QED
      BY <3>3, <3>4, CoversIs
  <2>3. CASE ~BP!HeadLate(c) /\ ~(totalBp' > MaxTotal) /\ Len(backpressureQueue[c]) >= MaxQueue
    BY <1>0, <1>2, <2>3, DropCovers DEF BP!SendLater
  <2>4. CASE ~BP!HeadLate(c) /\ ~(totalBp' > MaxTotal) /\ ~(Len(backpressureQueue[c]) >= MaxQueue)
    <3> DEFINE q == Append(backpressureQueue[c], [msg |-> sends'[c], late |-> FALSE])
    <3>1. backpressureQueue' = [backpressureQueue EXCEPT ![c] = q] /\ totalBp' = totalBp + 1
      BY <1>2, <2>4 DEF BP!SendLater
    <3>2. backpressureQueue[c] \in Seq(Message)
      BY DEF BpInv, BpTypeOK
    <3>3. sends'[c] = sends[c] + 1 /\ sends[c] \in Nat
      BY <1>2 DEF BP!SendLater, BpInv, BpTypeOK
    <3>4. [msg |-> sends'[c], late |-> FALSE] \in Message
      BY <3>3 DEF Message
    <3>5. q \in Seq(Message) /\ Len(q) = Len(backpressureQueue[c]) + 1
      BY <3>2, <3>4, AppendProperties
    <3>6. totalBp' = totalBp + (Len(q) - Len(backpressureQueue[c]))
      <4>1. totalBp \in Int /\ Len(backpressureQueue[c]) \in Nat
        BY <1>0
      <4>2. \A t \in Int, n \in Nat : t + 1 = t + ((n + 1) - n)
        OBVIOUS
      <4>3. totalBp + 1 = totalBp + ((Len(backpressureQueue[c]) + 1) - Len(backpressureQueue[c]))
        BY <4>1, <4>2
      <4>4. QED
        BY <3>1, <3>5, <4>3, Zenon
    <3>7. QED
      BY <3>1, <3>5, <3>6, QueueCovers
  <2>5. QED
    BY <2>1, <2>2, <2>3, <2>4
<1>3. ASSUME NEW c \in Clients, BP!Drain(c)
      PROVE  BP!TotalCoversQueues'
  <2>1. CASE BP!HeadLate(c)
    <3>1. Len(backpressureQueue[c]) >= 1
      BY <2>1 DEF BP!HeadLate, BpInv, BpTypeOK
    <3>2. BP!Drop(c) /\ totalBp' = totalBp - 1
      BY <1>3, <2>1 DEF BP!Drain
    <3>3. totalBp' \in Int /\ totalBp' >= totalBp - Len(backpressureQueue[c])
      BY <1>0, <3>1, <3>2
    <3>4. QED
      BY <3>2, <3>3, DropCovers
  <2>2. CASE ~BP!HeadLate(c)
    <3> DEFINE old == backpressureQueue[c]
    <3>1. PICK k \in 0..Len(old) :
              /\ totalBp' = totalBp - k
              /\ backpressureQueue' = [backpressureQueue EXCEPT ![c] =
                                           SubSeq(@, k + 1, Len(@))]
      BY <1>3, <2>2 DEF BP!Drain
    <3>2. old \in Seq(Message)
      BY DEF BpInv, BpTypeOK
    <3>3. /\ SubSeq(old, k + 1, Len(old)) \in Seq(Message)
          /\ Len(SubSeq(old, k + 1, Len(old))) = Len(old) - k
      BY <3>2
    <3>4. backpressureQueue' = [backpressureQueue EXCEPT ![c] = SubSeq(old, k + 1, Len(old))]
      BY <3>1
    <3>5. totalBp' = totalBp + ((Len(old) - k) - Len(old))
      BY <1>0, <3>1
    <3>6. QED
      BY <3>3, <3>4, <3>5, QueueCovers
  <2>3. QED
    BY <2>1, <2>2
<1>4. ASSUME NEW c \in Clients, BP!Destroy(c)
      PROVE  BP!TotalCoversQueues'
  BY <1>0, <1>4, DropCovers DEF BP!Destroy
<1>5. CASE BP!TenSeconds
  <2>1. \A c \in Clients : DOMAIN backpressureQueue'[c] = DOMAIN backpressureQueue[c]
    BY <1>5 DEF BP!TenSeconds
  <2>2. BP!Backlog' = BP!Backlog /\ totalBp' = totalBp
    BY <1>5, <2>1 DEF BP!TenSeconds, BP!Backlog
  <2>3. QED
    BY <2>2 DEF BP!TotalCoversQueues
<1>6. QED
  BY <1>1, <1>2, <1>3, <1>4, <1>5 DEF BP!Next, BP!SendNow, BP!vars

\* totalBp, by which the server decides to end its process, never is less than
\* the number of messages that wait for its clients, on whichever way their
\* queues were filled, drained, given up or closed.
THEOREM TotalCovers == Spec => []TotalCoversQueues
<1>1. BP!Init => BP!TotalCoversQueues
  <2> SUFFICES ASSUME BP!Init
               PROVE  BP!TotalCoversQueues
    OBVIOUS
  <2>1. BP!Backlog = {}
    BY DEF BP!Init, BP!Backlog
  <2>2. QED
    BY <2>1, FS_EmptySet, CoversIs DEF BP!Init
<1>2. BpInv /\ BP!TotalCoversQueues /\ [BP!Next]_(BP!vars) => BP!TotalCoversQueues'
  BY StepCovers
<1>3. QED
  BY BpInvariance, <1>1, <1>2, BackpressurePart, PTL DEF Spec, TotalCoversQueues
-----------------------------------------------------------------------------
(***************************************************************************)
(* A behaviour of Spec is one of the part.                                 *)
(***************************************************************************)
LEMMA DbPart == (Init => DB!Init) /\ ([Next]_vars => [DB!Next]_(DB!vars))
BY DEF Init, Next, In, Others, vars, DB!vars
-----------------------------------------------------------------------------
DbTypeOK ==
    /\ dbLive \in BOOLEAN /\ errorState \in BOOLEAN
    /\ retryTimer \in BOOLEAN /\ removeTimer \in BOOLEAN
    /\ dbClients \in [Clients -> Nat \cup {None}]
    /\ dbCnt \in Nat /\ version \in Nat
    /\ held \in [Clients -> Nat]
    /\ asks \in [Clients -> BOOLEAN]

\* A client that does not hold what is noted for it is sent the next version.
NotedIsHeld ==
    \A c \in DB!Listed : held[c] = dbClients[c] \/ dbClients[c] <= version

DbInv == DbTypeOK /\ DB!UsedIsKept /\ NotedIsHeld /\ DB!ListedIsCurrent
-----------------------------------------------------------------------------
(***************************************************************************)
(* The number of listed clients.                                           *)
(***************************************************************************)
\* Cardinality of the part is the library's.
LEMMA DbCardinalityIs == \A S : DB!Cardinality(S) = Cardinality(S)
BY DEF DB!Cardinality, Cardinality

LEMMA ListedFinite == IsFiniteSet(DB!Listed) /\ Cardinality(DB!Listed) \in Nat
<1>1. DB!Listed \subseteq Clients
  BY DEF DB!Listed
<1>2. QED
  BY <1>1, FS_Subset, FS_CardinalityType, ClientsAreFinite

\* Listing one client makes them at most one more.
LEMMA ListOne ==
    ASSUME NEW c \in Clients, DB!Listed' \subseteq DB!Listed \cup {c}
    PROVE  Cardinality(DB!Listed') <= Cardinality(DB!Listed) + 1 /\ Cardinality(DB!Listed') \in Nat
<1>1. IsFiniteSet(DB!Listed) /\ Cardinality(DB!Listed) \in Nat
  BY ListedFinite
<1>2. /\ IsFiniteSet(DB!Listed \cup {c})
      /\ Cardinality(DB!Listed \cup {c}) <= Cardinality(DB!Listed) + 1
      /\ Cardinality(DB!Listed \cup {c}) \in Nat
  <2>1. /\ IsFiniteSet(DB!Listed \cup {c})
        /\ \/ Cardinality(DB!Listed \cup {c}) = Cardinality(DB!Listed)
           \/ Cardinality(DB!Listed \cup {c}) = Cardinality(DB!Listed) + 1
    BY <1>1, FS_AddElement
  <2>2. QED
    BY <1>1, <2>1
<1>3. IsFiniteSet(DB!Listed') /\ Cardinality(DB!Listed') <= Cardinality(DB!Listed \cup {c})
  BY <1>2, FS_Subset
<1>4. Cardinality(DB!Listed') \in Nat
  BY <1>3, FS_CardinalityType
<1>5. QED
  BY <1>1, <1>2, <1>3, <1>4

\* Taking a listed client off makes them one less.
LEMMA UnlistOne ==
    ASSUME NEW c \in DB!Listed, DB!Listed' = DB!Listed \ {c}
    PROVE  /\ Cardinality(DB!Listed) \in Nat /\ Cardinality(DB!Listed) >= 1
           /\ Cardinality(DB!Listed') = Cardinality(DB!Listed) - 1
           /\ DB!Listed' # {} => Cardinality(DB!Listed') >= 1
<1>1. IsFiniteSet(DB!Listed) /\ Cardinality(DB!Listed) \in Nat
  BY ListedFinite
<1>2. Cardinality(DB!Listed') = Cardinality(DB!Listed) - 1
  BY <1>1, FS_RemoveElement
<1>3. IsFiniteSet(DB!Listed') /\ Cardinality(DB!Listed') \in Nat
  BY <1>1, FS_RemoveElement, FS_CardinalityType
<1>4. DB!Listed' # {} => Cardinality(DB!Listed') # 0
  BY <1>3, FS_EmptySet
<1>5. QED
  BY <1>1, <1>2, <1>3, <1>4

\* Who is listed, from what the version noted for one client becomes.
LEMMA ListedAfter ==
    ASSUME DbTypeOK, NEW c \in Clients, NEW v,
           dbClients' = [dbClients EXCEPT ![c] = v]
    PROVE  /\ v = None => DB!Listed' = DB!Listed \ {c}
           /\ v # None => DB!Listed' = DB!Listed \cup {c}
BY DEF DbTypeOK, DB!Listed
-----------------------------------------------------------------------------
(***************************************************************************)
(* The steps.                                                              *)
(***************************************************************************)
LEMMA DbInitOK == DB!Init => DbInv
<1> SUFFICES ASSUME DB!Init PROVE DbInv
  OBVIOUS
<1>1. DbTypeOK
  BY DEF DB!Init, DbTypeOK
<1>2. DB!Listed = {}
  BY DEF DB!Init, DB!Listed
<1>3. DB!UsedIsKept
  <2>1. Cardinality(DB!Listed) = 0
    BY <1>2, FS_EmptySet
  <2>2. QED
    BY <1>2, <2>1, DbCardinalityIs DEF DB!Init, DB!UsedIsKept
<1>4. QED
  BY <1>1, <1>2, <1>3 DEF DbInv, NotedIsHeld, DB!ListedIsCurrent

\* The version noted for a client that subscribes, and the one it then has,
\* are the same: the diff is only sent to who holds the version it is from.
LEMMA Presented ==
    ASSUME DbInv, NEW c \in Clients, DB!Subscribe(c)
    PROVE  /\ dbClients' \in [Clients -> Nat \cup {None}]
           /\ held' \in [Clients -> Nat]
           /\ DB!Listed' = DB!Listed \cup {c}
           /\ held'[c] = dbClients'[c]
           /\ \A d \in Clients \ {c} : held'[d] = held[d] /\ dbClients'[d] = dbClients[d]
           /\ errorState' \/ version' = 0 \/ held'[c] = version'
<1>1. DbTypeOK
  BY DEF DbInv
<1>2. CASE ~dbLive \/ errorState \/ version \in {0, held[c]}
  <2>1. dbClients' = [dbClients EXCEPT ![c] = held[c]] /\ held' = held
    BY <1>2 DEF DB!Subscribe
  <2>2. held[c] \in Nat /\ held[c] # None
    BY <1>1, NoneIsNoVersion DEF DbTypeOK
  <2>3. /\ dbClients' \in [Clients -> Nat \cup {None}] /\ held' \in [Clients -> Nat]
        /\ held'[c] = dbClients'[c]
        /\ \A d \in Clients \ {c} : held'[d] = held[d] /\ dbClients'[d] = dbClients[d]
    BY <1>1, <2>1, <2>2 DEF DbTypeOK
  <2>4. errorState' \/ version' = 0 \/ held'[c] = version'
    BY <1>2, <2>1 DEF DB!Subscribe, DB!Join, DB!Fresh
  <2>5. DB!Listed' = DB!Listed \cup {c}
    BY <1>1, <2>1, <2>2, ListedAfter
  <2>6. QED
    BY <2>3, <2>4, <2>5
<1>3. CASE ~(~dbLive \/ errorState \/ version \in {0, held[c]})
  <2>1. /\ dbClients' = [dbClients EXCEPT ![c] = version]
        /\ held' = [held EXCEPT ![c] = version]
    BY <1>3 DEF DB!Subscribe, DB!SendsDiff, DB!FitsDiff
  <2>2. version \in Nat /\ version # None /\ version' = version
    BY <1>1, <1>3, NoneIsNoVersion DEF DbTypeOK, DB!Subscribe, DB!Join
  <2>3. /\ dbClients' \in [Clients -> Nat \cup {None}] /\ held' \in [Clients -> Nat]
        /\ held'[c] = version /\ dbClients'[c] = version
        /\ \A d \in Clients \ {c} : held'[d] = held[d] /\ dbClients'[d] = dbClients[d]
    BY <1>1, <2>1, <2>2 DEF DbTypeOK
  <2>4. DB!Listed' = DB!Listed \cup {c}
    BY <1>1, <2>1, <2>2, ListedAfter
  <2>5. QED
    BY <2>2, <2>3, <2>4
<1>4. QED
  BY <1>2, <1>3

LEMMA DbSubscribeOK ==
    ASSUME DbInv, NEW c \in Clients, DB!Subscribe(c)
    PROVE  DbInv'
<1>1. DbTypeOK /\ DB!UsedIsKept /\ NotedIsHeld /\ DB!ListedIsCurrent
  BY DEF DbInv
<1>2. /\ dbClients' \in [Clients -> Nat \cup {None}]
      /\ held' \in [Clients -> Nat]
      /\ DB!Listed' = DB!Listed \cup {c}
      /\ held'[c] = dbClients'[c]
      /\ \A d \in Clients \ {c} : held'[d] = held[d] /\ dbClients'[d] = dbClients[d]
      /\ errorState' \/ version' = 0 \/ held'[c] = version'
  BY Presented
<1>3. asks' = asks /\ dbLive' /\ ~removeTimer'
  BY DEF DB!Subscribe, DB!Join, DB!Fresh
<1>4. CASE dbLive
  <2>1. dbCnt' = dbCnt + 1 /\ UNCHANGED <<dbLive, version, errorState, retryTimer>>
    BY <1>4 DEF DB!Subscribe, DB!Join
  <2>2. DbTypeOK'
    <3>1. removeTimer' \in BOOLEAN
      BY <1>4, Zenon DEF DB!Subscribe, DB!Join
    <3>2. dbCnt' \in Nat /\ dbLive' \in BOOLEAN /\ version' \in Nat
      BY <1>1, <2>1 DEF DbTypeOK
    <3>3. errorState' \in BOOLEAN /\ retryTimer' \in BOOLEAN
      BY <1>1, <2>1 DEF DbTypeOK
    <3>4. asks' \in [Clients -> BOOLEAN]
      BY <1>1, <1>3 DEF DbTypeOK
    <3>5. QED
      BY <1>2, <3>1, <3>2, <3>3, <3>4 DEF DbTypeOK
  <2>3. dbCnt' >= Cardinality(DB!Listed')
    <3>1. Cardinality(DB!Listed') <= Cardinality(DB!Listed) + 1 /\ Cardinality(DB!Listed') \in Nat
      BY <1>2, ListOne
    <3>2. dbCnt >= Cardinality(DB!Listed) /\ Cardinality(DB!Listed) \in Nat /\ dbCnt \in Nat
      BY <1>1, ListedFinite, DbCardinalityIs DEF DB!UsedIsKept, DbTypeOK
    <3>3. QED
      BY <2>1, <3>1, <3>2
  <2>4. DB!UsedIsKept'
    BY <1>1, <1>3, <2>1, <2>3, DbCardinalityIs DEF DB!UsedIsKept
  <2>5. NotedIsHeld' /\ DB!ListedIsCurrent'
    BY <1>1, <1>2, <1>3, <2>1 DEF NotedIsHeld, DB!ListedIsCurrent, DB!Listed
  <2>6. QED
    BY <2>2, <2>4, <2>5 DEF DbInv
<1>5. CASE ~dbLive
  <2>1. DB!Listed' = {c}
    BY <1>1, <1>2, <1>5 DEF DB!UsedIsKept
  <2>2. /\ dbCnt' = 1 /\ version' = 0 /\ errorState' = FALSE
        /\ retryTimer' = FALSE /\ removeTimer' = FALSE /\ dbLive' = TRUE
    BY <1>5 DEF DB!Subscribe, DB!Join, DB!Fresh
  <2>3. DbTypeOK'
    <3>1. /\ dbLive' \in BOOLEAN /\ errorState' \in BOOLEAN
          /\ retryTimer' \in BOOLEAN /\ removeTimer' \in BOOLEAN
      BY <2>2, Zenon
    <3>2. QED
      BY <1>1, <1>2, <1>3, <2>2, <3>1 DEF DbTypeOK
  <2>4. Cardinality(DB!Listed') = 1
    BY <2>1, FS_Singleton
  <2>5. DB!UsedIsKept'
    BY <2>2, <2>4, DbCardinalityIs DEF DB!UsedIsKept
  <2>6. NotedIsHeld' /\ DB!ListedIsCurrent'
    BY <1>2, <2>1, <2>2 DEF NotedIsHeld, DB!ListedIsCurrent
  <2>7. QED
    BY <2>3, <2>5, <2>6 DEF DbInv
<1>6. QED
  BY <1>4, <1>5

LEMMA UnsubscribeOK ==
    ASSUME DbInv, NEW c \in Clients, DB!Unsubscribe(c)
    PROVE  DbInv'
<1>1. DbTypeOK /\ DB!UsedIsKept /\ NotedIsHeld /\ DB!ListedIsCurrent
  BY DEF DbInv
<1>2. /\ c \in DB!Listed
      /\ dbClients' = [dbClients EXCEPT ![c] = None]
      /\ dbCnt' = dbCnt - 1
      /\ removeTimer' = (removeTimer \/ dbCnt' = 0)
      /\ asks' = [asks EXCEPT ![c] = FALSE]
      /\ UNCHANGED <<dbLive, version, errorState, retryTimer, held>>
  BY DEF DB!Unsubscribe
<1>3. DB!Listed' = DB!Listed \ {c}
  BY <1>1, <1>2, ListedAfter
<1>4. /\ dbCnt' \in Nat /\ dbCnt' >= Cardinality(DB!Listed')
      /\ DB!Listed' # {} => dbCnt' # 0
  <2>1. dbCnt \in Nat /\ dbCnt >= Cardinality(DB!Listed)
    BY <1>1, DbCardinalityIs DEF DbTypeOK, DB!UsedIsKept
  <2>2. /\ Cardinality(DB!Listed) \in Nat /\ Cardinality(DB!Listed) >= 1
        /\ Cardinality(DB!Listed') = Cardinality(DB!Listed) - 1
        /\ DB!Listed' # {} => Cardinality(DB!Listed') >= 1
    BY <1>2, <1>3, UnlistOne
  <2>3. QED
    BY <1>2, <2>1, <2>2
<1>5. DbTypeOK'
  <2>1. removeTimer' \in BOOLEAN
    BY <1>2, Zenon
  <2>2. asks' \in [Clients -> BOOLEAN] /\ dbClients' \in [Clients -> Nat \cup {None}]
    BY <1>1, <1>2 DEF DbTypeOK
  <2>3. QED
    BY <1>1, <1>2, <1>4, <2>1, <2>2 DEF DbTypeOK
<1>6. DB!UsedIsKept'
  <2>1. DB!Listed' # {} => dbLive' /\ ~removeTimer'
    BY <1>1, <1>2, <1>3, <1>4, Zenon DEF DB!UsedIsKept
  <2>2. retryTimer' => dbLive'
    BY <1>1, <1>2 DEF DB!UsedIsKept
  <2>3. QED
    BY <1>4, <2>1, <2>2, DbCardinalityIs DEF DB!UsedIsKept
<1>7. \A d \in DB!Listed' : d \in DB!Listed /\ asks'[d] = asks[d] /\ dbClients'[d] = dbClients[d]
  BY <1>1, <1>2, <1>3 DEF DB!Listed, DbTypeOK
<1>8. NotedIsHeld' /\ DB!ListedIsCurrent'
  BY <1>1, <1>2, <1>7 DEF NotedIsHeld, DB!ListedIsCurrent
<1>9. QED
  BY <1>5, <1>6, <1>8 DEF DbInv

\* A step that neither lists a client nor takes one off keeps UsedIsKept
\* if it keeps the timers, the count and the registration.
LEMMA KeptBySame ==
    ASSUME DB!UsedIsKept, DB!Listed' = DB!Listed,
           UNCHANGED <<dbLive, dbCnt, removeTimer>>, retryTimer' => dbLive
    PROVE  DB!UsedIsKept'
BY DEF DB!UsedIsKept

LEMMA SendDataOK ==
    ASSUME DbInv, NEW c \in Clients, DB!SendData(c)
    PROVE  DbInv'
<1>1. DbTypeOK /\ DB!UsedIsKept /\ NotedIsHeld /\ DB!ListedIsCurrent
  BY DEF DbInv
<1>2. /\ c \in DB!Listed /\ asks' = [asks EXCEPT ![c] = FALSE]
      /\ UNCHANGED <<dbLive, dbCnt, version, errorState, retryTimer, removeTimer>>
  BY DEF DB!SendData
<1>3. asks' \in [Clients -> BOOLEAN] /\ \A d \in Clients \ {c} : asks'[d] = asks[d]
  BY <1>1, <1>2 DEF DbTypeOK
<1>4. CASE version # 0 /\ ~errorState
  <2>1. /\ dbClients' = [dbClients EXCEPT ![c] = version]
        /\ held' = [held EXCEPT ![c] = version]
    BY <1>4 DEF DB!SendData
  <2>2. /\ dbClients' \in [Clients -> Nat \cup {None}] /\ held' \in [Clients -> Nat]
        /\ held'[c] = version /\ dbClients'[c] = version
        /\ \A d \in Clients \ {c} : held'[d] = held[d] /\ dbClients'[d] = dbClients[d]
    BY <1>1, <2>1 DEF DbTypeOK
  <2>3. DB!Listed' = DB!Listed
    BY <1>1, <1>2, <2>2, NoneIsNoVersion DEF DB!Listed, DbTypeOK
  <2>4. DbTypeOK'
    BY <1>1, <1>2, <1>3, <2>2 DEF DbTypeOK
  <2>5. DB!UsedIsKept'
    BY <1>1, <1>2, <2>3, KeptBySame DEF DB!UsedIsKept
  <2>6. NotedIsHeld' /\ DB!ListedIsCurrent'
    BY <1>1, <1>2, <1>3, <2>2, <2>3 DEF NotedIsHeld, DB!ListedIsCurrent, DB!Listed
  <2>7. QED
    BY <2>4, <2>5, <2>6 DEF DbInv
<1>5. CASE ~(version # 0 /\ ~errorState)
  <2>1. UNCHANGED <<dbClients, held>>
    BY <1>5 DEF DB!SendData
  <2>2. DB!Listed' = DB!Listed
    BY <2>1 DEF DB!Listed
  <2>3. DbTypeOK'
    BY <1>1, <1>2, <1>3, <2>1 DEF DbTypeOK
  <2>4. DB!UsedIsKept'
    BY <1>1, <1>2, <2>2, KeptBySame DEF DB!UsedIsKept
  <2>5. NotedIsHeld' /\ DB!ListedIsCurrent'
    BY <1>1, <1>2, <1>5, <2>1, <2>2 DEF NotedIsHeld, DB!ListedIsCurrent
  <2>6. QED
    BY <2>3, <2>4, <2>5 DEF DbInv
<1>6. QED
  BY <1>4, <1>5

LEMMA ForgetOK ==
    ASSUME DbInv, NEW c \in Clients, DB!Forget(c)
    PROVE  DbInv'
<1>1. DbTypeOK /\ DB!UsedIsKept /\ NotedIsHeld /\ DB!ListedIsCurrent
  BY DEF DbInv
<1>2. /\ c \notin DB!Listed /\ held' = [held EXCEPT ![c] = 0]
      /\ UNCHANGED <<dbLive, dbClients, dbCnt, version, errorState, retryTimer,
                     removeTimer, asks>>
  BY DEF DB!Forget
<1>3. DB!Listed' = DB!Listed
  BY <1>2 DEF DB!Listed
<1>4. held' \in [Clients -> Nat] /\ \A d \in DB!Listed : held'[d] = held[d]
  BY <1>1, <1>2 DEF DbTypeOK, DB!Listed
<1>5. DbTypeOK'
  BY <1>1, <1>2, <1>4 DEF DbTypeOK
<1>6. DB!UsedIsKept'
  BY <1>1, <1>2, <1>3, KeptBySame DEF DB!UsedIsKept
<1>7. NotedIsHeld' /\ DB!ListedIsCurrent'
  BY <1>1, <1>2, <1>3, <1>4 DEF NotedIsHeld, DB!ListedIsCurrent
<1>8. QED
  BY <1>5, <1>6, <1>7 DEF DbInv

LEMMA DataOK ==
    ASSUME DbInv, NEW diff \in BOOLEAN, DB!Data(diff)
    PROVE  DbInv'
<1> DEFINE sent == {c \in DB!Listed : dbClients[c] # version'}
           differ == {c \in sent : diff /\ ~DB!FitsDiff(c, version)}
<1>1. DbTypeOK /\ DB!UsedIsKept /\ NotedIsHeld /\ DB!ListedIsCurrent
  BY DEF DbInv
<1>2. /\ version' = version + 1 /\ errorState' = FALSE
      /\ dbClients' = [c \in Clients |-> IF c \in sent THEN version' ELSE dbClients[c]]
      /\ held' = [c \in Clients |-> IF c \in sent \ differ THEN version' ELSE held[c]]
      /\ asks' = [c \in Clients |-> asks[c] \/ c \in differ]
      /\ UNCHANGED <<dbLive, dbCnt, retryTimer, removeTimer>>
  BY DEF DB!Data
<1>3. version \in Nat /\ version' \in Nat /\ version' # None
  BY <1>1, <1>2, NoneIsNoVersion DEF DbTypeOK
<1>4. DB!Listed \subseteq Clients /\ sent \subseteq DB!Listed /\ differ \subseteq sent
  BY DEF DB!Listed
<1>5. \A c \in DB!Listed \ sent : dbClients[c] = version'
  OBVIOUS
<1> HIDE DEF sent, differ
<1>6. DbTypeOK'
  <2>1. dbClients' \in [Clients -> Nat \cup {None}] /\ held' \in [Clients -> Nat]
    BY <1>1, <1>2, <1>3 DEF DbTypeOK
  <2>2. asks' \in [Clients -> BOOLEAN]
    BY <1>2, Zenon
  <2>3. errorState' \in BOOLEAN
    BY <1>2, Zenon
  <2>4. QED
    BY <1>1, <1>2, <1>3, <2>1, <2>2, <2>3 DEF DbTypeOK
<1>7. DB!Listed' = DB!Listed
  <2>1. \A c \in Clients : dbClients'[c] # None <=> dbClients[c] # None
    BY <1>1, <1>2, <1>3, <1>4 DEF DB!Listed
  <2>2. QED
    BY <2>1 DEF DB!Listed
<1>8. DB!UsedIsKept'
  BY <1>1, <1>2, <1>7, KeptBySame DEF DB!UsedIsKept
<1>9. ASSUME NEW c \in DB!Listed'
      PROVE  /\ held'[c] = dbClients'[c] \/ dbClients'[c] <= version'
             /\ asks'[c] \/ held'[c] = version'
  <2>1. c \in DB!Listed /\ c \in Clients
    BY <1>4, <1>7, <1>9
  <2>2. CASE c \in sent
    <3>1. dbClients'[c] = version'
      BY <1>2, <2>1, <2>2
    <3>2. CASE c \in differ
      <4>1. asks'[c]
        BY <1>2, <2>1, <3>2, Zenon
      <4>2. dbClients'[c] <= version'
        BY <1>3, <3>1
      <4>3. QED
        BY <4>1, <4>2
    <3>3. CASE c \notin differ
      BY <1>2, <1>3, <2>1, <2>2, <3>1, <3>3
    <3>4. QED
      BY <3>2, <3>3
  <2>3. CASE c \notin sent
    <3>1. dbClients[c] = version' /\ dbClients'[c] = version' /\ held'[c] = held[c]
      BY <1>2, <1>4, <1>5, <2>1, <2>3
    <3>2. held[c] = dbClients[c] \/ dbClients[c] <= version
      BY <1>1, <2>1 DEF NotedIsHeld
    <3>3. held[c] = version'
      BY <1>2, <1>3, <3>1, <3>2
    <3>4. QED
      BY <3>1, <3>3
  <2>4. QED
    BY <2>2, <2>3
<1>10. NotedIsHeld' /\ DB!ListedIsCurrent'
  BY <1>9 DEF NotedIsHeld, DB!ListedIsCurrent
<1>11. QED
  BY <1>6, <1>8, <1>10 DEF DbInv

LEMMA TimersOK ==
    ASSUME DbInv, DB!Enoent \/ DB!ObserveError \/ DB!Retry
    PROVE  DbInv'
<1>1. DbTypeOK /\ DB!UsedIsKept /\ NotedIsHeld /\ DB!ListedIsCurrent
  BY DEF DbInv
<1>2. /\ UNCHANGED <<dbLive, dbClients, dbCnt, version, removeTimer, held, asks>>
      /\ retryTimer' => dbLive
      /\ retryTimer' \in BOOLEAN
      /\ errorState' \in BOOLEAN /\ (errorState => errorState')
  <2>1. CASE DB!Enoent
    <3>1. retryTimer' \in BOOLEAN
      BY <2>1, Zenon DEF DB!Enoent
    <3>2. QED
      BY <1>1, <2>1, <3>1 DEF DB!Enoent, DbTypeOK
  <2>2. CASE DB!ObserveError
    <3>1. errorState' \in BOOLEAN
      BY <2>2, Zenon DEF DB!ObserveError
    <3>2. QED
      BY <1>1, <2>2, <3>1 DEF DB!ObserveError, DbTypeOK, DB!UsedIsKept
  <2>3. CASE DB!Retry
    <3>1. retryTimer' \in BOOLEAN
      BY <2>3, Zenon DEF DB!Retry
    <3>2. QED
      BY <1>1, <2>3, <3>1 DEF DB!Retry, DbTypeOK
  <2>4. QED
    BY <2>1, <2>2, <2>3
<1>3. DB!Listed' = DB!Listed
  BY <1>2 DEF DB!Listed
<1>4. DbTypeOK' /\ DB!UsedIsKept'
  BY <1>1, <1>2, <1>3, KeptBySame DEF DbTypeOK
<1>5. NotedIsHeld' /\ DB!ListedIsCurrent'
  BY <1>1, <1>2, <1>3 DEF NotedIsHeld, DB!ListedIsCurrent
<1>6. QED
  BY <1>4, <1>5 DEF DbInv

LEMMA DbRemoveTimeoutOK ==
    ASSUME DbInv, DB!RemoveTimeout
    PROVE  DbInv'
<1>1. DbTypeOK /\ DB!UsedIsKept
  BY DEF DbInv
<1>2. /\ version' = 0 /\ errorState' = FALSE /\ retryTimer' = FALSE
      /\ removeTimer' = FALSE /\ dbLive' = FALSE
      /\ UNCHANGED <<dbClients, dbCnt, held, asks>>
  BY DEF DB!RemoveTimeout, DB!Fresh
<1>3. DB!Listed' = DB!Listed /\ DB!Listed = {}
  BY <1>1, <1>2 DEF DB!Listed, DB!UsedIsKept, DB!RemoveTimeout
<1>4. DbTypeOK'
  <2>1. /\ dbLive' \in BOOLEAN /\ errorState' \in BOOLEAN
        /\ retryTimer' \in BOOLEAN /\ removeTimer' \in BOOLEAN
    BY <1>2, Zenon
  <2>2. QED
    BY <1>1, <1>2, <2>1 DEF DbTypeOK
<1>5. QED
  BY <1>1, <1>2, <1>3, <1>4 DEF DbInv, DB!UsedIsKept, NotedIsHeld, DB!ListedIsCurrent

LEMMA DbStepOK == DbInv /\ [DB!Next]_(DB!vars) => DbInv'
<1> SUFFICES ASSUME DbInv, [DB!Next]_(DB!vars) PROVE DbInv'
  OBVIOUS
<1>1. CASE UNCHANGED DB!vars
  BY <1>1 DEF DbInv, DB!vars, DbTypeOK, DB!UsedIsKept, NotedIsHeld, DB!ListedIsCurrent, DB!Listed
<1>2. CASE DB!Next
  <2>1. CASE \E c \in Clients : DB!Subscribe(c) \/ DB!Unsubscribe(c) \/ DB!SendData(c) \/ DB!Forget(c)
    BY <2>1, DbSubscribeOK, UnsubscribeOK, SendDataOK, ForgetOK
  <2>2. CASE \E diff \in BOOLEAN : DB!Data(diff)
    BY <2>2, DataOK
  <2>3. QED
    BY <1>2, <2>1, <2>2, TimersOK, DbRemoveTimeoutOK DEF DB!Next
<1>3. QED
  BY <1>1, <1>2

LEMMA DbInvariance == Spec => []DbInv
<1>1. DB!Init => DbInv
  BY DbInitOK
<1>2. DbInv /\ [DB!Next]_(DB!vars) => DbInv'
  BY DbStepOK
<1>3. QED
  BY <1>1, <1>2, DbPart, PTL DEF Spec
-----------------------------------------------------------------------------
\* A database subscription with clients stays registered, with no timer to
\* remove it, and clientsCnt counts at least the clients it has: however
\* often they subscribe and unsubscribe, and whatever its observable does
\* (subscribe() and unsubscribe() of handlers/subscription).
THEOREM UsedStays == Spec => []UsedIsKept
<1>1. DbInv => UsedIsKept
  BY DEF DbInv, UsedIsKept
<1>2. QED
  BY <1>1, DbInvariance, PTL

\* Every client holds the version the server has, unless it has asked for it
\* or an error took its place: the version noted for a client, by which it
\* is decided what to send, can be relied on (update, subscribe, sendData).
THEOREM ListedStaysCurrent == Spec => []ListedIsCurrent
<1>1. DbInv => ListedIsCurrent
  BY DEF DbInv, ListedIsCurrent
<1>2. QED
  BY <1>1, DbInvariance, PTL
-----------------------------------------------------------------------------
(***************************************************************************)
(* A behaviour of Spec is one of the part.                                 *)
(***************************************************************************)
LEMMA UserPart == (Init => UO!Init) /\ ([Next]_vars => [UO!Next]_(UO!vars))
BY DEF Init, Next, In, Others, vars, UO!vars
-----------------------------------------------------------------------------
Types == {"none", "sub", "get", "both", "listener"}

Emitter == [type : Types, listener : BOOLEAN, close : {"none", "open", "called"},
            starting : Nat]

UserTypeOK ==
    /\ emitter \in [UserClients -> Emitter]
    /\ running \in [UserClients -> Nat]
    /\ overrun \in [UserClients -> BOOLEAN]
    /\ timers \in [known : BOOLEAN, other : BOOLEAN]
    /\ emitters \in Nat
    /\ listened \in BOOLEAN

Holders == {c \in UserClients : UO!Has(c)}

TimersAgree ==
    ~listened => /\ ~timers.other
                 /\ emitters # 0 => status = "live" /\ ~timers.known

\* Of an emitter e with n runs, o being what overrun says.
Whole(e) ==
    e.type = "none" => e.listener = FALSE /\ e.close = "none" /\ e.starting = 0

RunsAgree(e, n, o) ==
    /\ e.close = "open" => n >= 1
    /\ ~o => /\ n = IF e.close = "open" THEN 1 ELSE 0
             /\ e.starting <= 1
             /\ e.starting # 0 => e.close # "open"

Good(e, n, o) == Whole(e) /\ RunsAgree(e, n, o)

UserInv ==
    /\ UserTypeOK
    /\ emitters = Cardinality(Holders)
    /\ TimersAgree
    /\ \A c \in UserClients : Good(emitter[c], running[c], overrun[c])
-----------------------------------------------------------------------------
(***************************************************************************)
(* What a step that concerns one client does to the invariant.             *)
(***************************************************************************)
\* Cardinality of the part is the library's.
LEMMA UserCardinalityIs == \A S : UO!Cardinality(S) = Cardinality(S)
BY DEF UO!Cardinality, Cardinality

LEMMA HoldersFinite == IsFiniteSet(Holders) /\ Cardinality(Holders) \in Nat
<1>1. Holders \subseteq UserClients
  BY DEF Holders
<1>2. QED
  BY <1>1, FS_Subset, FS_CardinalityType, ClientsAreFinite

LEMMA OneEmitter ==
    ASSUME UserTypeOK, NEW c \in UserClients, NEW e \in Emitter,
           emitter' = [emitter EXCEPT ![c] = e]
    PROVE  /\ emitter' \in [UserClients -> Emitter]
           /\ emitter'[c] = e
           /\ \A d \in UserClients \ {c} : emitter'[d] = emitter[d]
           /\ e.type = "none" => Holders' = Holders \ {c}
           /\ e.type # "none" => Holders' = Holders \cup {c}
<1>1. /\ emitter' \in [UserClients -> Emitter]
      /\ emitter'[c] = e
      /\ \A d \in UserClients \ {c} : emitter'[d] = emitter[d]
  BY DEF UserTypeOK
<1>2. QED
  BY <1>1 DEF Holders, UO!Has

Becomes(c, e, n, o) ==
    /\ emitter' = [emitter EXCEPT ![c] = e]
    /\ running' = [running EXCEPT ![c] = n]
    /\ overrun' = [overrun EXCEPT ![c] = o]

\* One client's emitter and its runs change, the emitters are counted right.
LEMMA OneClient ==
    ASSUME UserInv, NEW c \in UserClients, NEW e \in Emitter, NEW n \in Nat, NEW o \in BOOLEAN,
           Becomes(c, e, n, o),
           Good(e, n, o)
    PROVE  /\ emitter' \in [UserClients -> Emitter]
           /\ running' \in [UserClients -> Nat]
           /\ overrun' \in [UserClients -> BOOLEAN]
           /\ \A d \in UserClients : Good(emitter'[d], running'[d], overrun'[d])
<1>1. UserTypeOK /\ \A d \in UserClients : Good(emitter[d], running[d], overrun[d])
  BY DEF UserInv
<1>2. /\ emitter' \in [UserClients -> Emitter] /\ emitter'[c] = e
      /\ \A d \in UserClients \ {c} : emitter'[d] = emitter[d]
  BY <1>1, OneEmitter DEF Becomes
<1>3. /\ running' \in [UserClients -> Nat] /\ running'[c] = n
      /\ \A d \in UserClients \ {c} : running'[d] = running[d]
  BY <1>1 DEF UserTypeOK, Becomes
<1>4. /\ overrun' \in [UserClients -> BOOLEAN] /\ overrun'[c] = o
      /\ \A d \in UserClients \ {c} : overrun'[d] = overrun[d]
  BY <1>1 DEF UserTypeOK, Becomes
<1>5. QED
  BY <1>1, <1>2, <1>3, <1>4

\* What is known of one client before a step.
LEMMA Before ==
    ASSUME UserInv, NEW c \in UserClients
    PROVE  /\ emitter[c] \in Emitter /\ running[c] \in Nat /\ overrun[c] \in BOOLEAN
           /\ Good(emitter[c], running[c], overrun[c])
           /\ running = [running EXCEPT ![c] = running[c]]
           /\ overrun = [overrun EXCEPT ![c] = overrun[c]]
BY DEF UserInv, UserTypeOK

\* A client that had an emitter or not has one now, and it is counted.
LEMMA Counted ==
    ASSUME UserInv, NEW c \in UserClients, NEW e \in Emitter,
           emitter' = [emitter EXCEPT ![c] = e], e.type # "none",
           emitters' = IF UO!Has(c) THEN emitters ELSE emitters + 1
    PROVE  emitters' \in Nat /\ emitters' = Cardinality(Holders)' /\ emitters' # 0
<1>1. UserTypeOK /\ emitters = Cardinality(Holders) /\ emitters \in Nat
  BY DEF UserInv, UserTypeOK
<1>2. Holders' = Holders \cup {c}
  BY <1>1, OneEmitter
<1>3. IsFiniteSet(Holders)
  BY HoldersFinite
<1>4. CASE UO!Has(c)
  <2>1. Holders' = Holders /\ Holders # {}
    BY <1>2, <1>4 DEF Holders
  <2>2. emitters' = Cardinality(Holders)'
    BY <1>1, <1>4, <2>1
  <2>3. emitters' # 0
    BY <1>1, <1>3, <1>4, <2>1, FS_EmptySet
  <2>4. QED
    BY <1>1, <1>4, <2>2, <2>3
<1>5. CASE ~UO!Has(c)
  <2>1. c \notin Holders
    BY <1>5 DEF Holders
  <2>2. Cardinality(Holders \cup {c}) = Cardinality(Holders) + 1
    BY <1>3, <2>1, FS_AddElement
  <2>3. QED
    BY <1>1, <1>2, <1>5, <2>2
<1>6. QED
  BY <1>4, <1>5

\* The same client keeps an emitter: the count stays.
LEMMA CountStays ==
    ASSUME UserInv, NEW c \in UserClients, UO!Has(c), NEW e \in Emitter, e.type # "none",
           emitter' = [emitter EXCEPT ![c] = e], emitters' = emitters
    PROVE  emitters' = Cardinality(Holders)' /\ emitters' \in Nat
<1>1. UserTypeOK /\ emitters = Cardinality(Holders) /\ emitters \in Nat
  BY DEF UserInv, UserTypeOK
<1>2. Holders' = Holders \cup {c} /\ c \in Holders
  BY <1>1, OneEmitter DEF Holders
<1>3. Holders' = Holders
  BY <1>2
<1>4. QED
  BY <1>1, <1>3
-----------------------------------------------------------------------------
LEMMA UserInitOK == UO!Init => UserInv
<1> SUFFICES ASSUME UO!Init PROVE UserInv
  OBVIOUS
<1>1. UO!NoEmitter \in Emitter
  BY DEF UO!NoEmitter, Emitter, Types
<1>2. UserTypeOK
  BY <1>1 DEF UO!Init, UserTypeOK, UO!NoTimers
<1>3. emitters = Cardinality(Holders)
  <2>1. Holders = {}
    BY DEF UO!Init, Holders, UO!Has, UO!NoEmitter
  <2>2. QED
    BY <2>1, FS_EmptySet DEF UO!Init
<1>4. TimersAgree
  BY DEF UO!Init, TimersAgree, UO!NoTimers
<1>5. \A c \in UserClients : Good(emitter[c], running[c], overrun[c])
  BY DEF UO!Init, Good, Whole, RunsAgree, UO!NoEmitter
<1>6. QED
  BY <1>2, <1>3, <1>4, <1>5 DEF UserInv

\* An emitter that is destroyed was there, and takes its run with it.
LEMMA DestroyOK ==
    ASSUME UserInv, NEW c \in UserClients, UO!Has(c), UO!Destroy(c)
    PROVE  UserInv'
<1>1. UserTypeOK /\ emitters = Cardinality(Holders) /\ TimersAgree
  BY DEF UserInv
<1>2. /\ emitter[c] \in Emitter /\ running[c] \in Nat /\ overrun[c] \in BOOLEAN
      /\ Good(emitter[c], running[c], overrun[c])
      /\ overrun = [overrun EXCEPT ![c] = overrun[c]]
  BY Before
<1>3. /\ emitter' = [emitter EXCEPT ![c] = UO!NoEmitter]
      /\ emitters' = emitters - 1
      /\ running' = [running EXCEPT ![c] = IF emitter[c].close = "open" THEN @ - 1 ELSE @]
      /\ UO!DestroyIfEmpty(emitters - 1)
      /\ UNCHANGED <<status, registered, overrun, listened>>
  BY DEF UO!Destroy
<1>4. UO!NoEmitter \in Emitter /\ UO!NoEmitter.type = "none"
  BY DEF UO!NoEmitter, Emitter, Types
<1> DEFINE n == IF emitter[c].close = "open" THEN running[c] - 1 ELSE running[c]
<1>5. n \in Nat /\ Good(UO!NoEmitter, n, overrun[c])
  BY <1>2 DEF Good, Whole, RunsAgree, UO!NoEmitter
<1>6. Becomes(c, UO!NoEmitter, n, overrun[c])
  BY <1>2, <1>3 DEF Becomes
<1> HIDE DEF n
<1>7. /\ emitter' \in [UserClients -> Emitter] /\ running' \in [UserClients -> Nat]
      /\ overrun' \in [UserClients -> BOOLEAN]
      /\ \A d \in UserClients : Good(emitter'[d], running'[d], overrun'[d])
  BY <1>2, <1>4, <1>5, <1>6, OneClient
<1>8. Holders' = Holders \ {c} /\ c \in Holders
  BY <1>1, <1>3, <1>4, OneEmitter DEF Holders
<1>9. emitters' = Cardinality(Holders)' /\ emitters' \in Nat /\ emitters # 0
  <2>1. IsFiniteSet(Holders) /\ Cardinality(Holders) \in Nat
    BY HoldersFinite
  <2>2. /\ IsFiniteSet(Holders \ {c})
        /\ Cardinality(Holders \ {c}) = Cardinality(Holders) - 1
    BY <1>8, <2>1, FS_RemoveElement
  <2>3. Cardinality(Holders \ {c}) \in Nat
    BY <2>2, FS_CardinalityType
  <2>4. emitters' = Cardinality(Holders \ {c})
    BY <1>1, <1>3, <2>2
  <2>5. emitters' \in Nat /\ emitters # 0
    BY <1>1, <1>3, <2>1, <2>3, <2>4
  <2>6. QED
    BY <1>8, <2>4, <2>5
<1>10. /\ timers' \in [known : BOOLEAN, other : BOOLEAN]
       /\ emitters' # 0 => timers' = timers
       /\ emitters' = 0 => (timers'.other <=> timers.known \/ timers.other)
  <2>1. emitters' = emitters - 1
    BY <1>3
  <2>2. CASE emitters' # 0
    BY <1>1, <1>3, <2>1, <2>2 DEF UO!DestroyIfEmpty, UserTypeOK
  <2>3. CASE emitters' = 0
    <3>1. timers' = [known |-> TRUE, other |-> timers.known \/ timers.other]
      BY <1>3, <2>1, <2>3 DEF UO!DestroyIfEmpty
    <3>2. (timers.known \/ timers.other) \in BOOLEAN
      OBVIOUS
    <3>3. QED
      BY <2>3, <3>1, <3>2
  <2>4. QED
    BY <2>2, <2>3
<1>11. TimersAgree'
  BY <1>1, <1>3, <1>9, <1>10 DEF TimersAgree
<1>12. UserTypeOK'
  BY <1>1, <1>3, <1>7, <1>9, <1>10 DEF UserTypeOK
<1>13. QED
  BY <1>7, <1>9, <1>11, <1>12 DEF UserInv

\* An emitter e takes the place of that of c; the count and the timers.
LEMMA ReplaceOK ==
    ASSUME UserInv, NEW c \in UserClients, NEW e \in Emitter, NEW n \in Nat, NEW o \in BOOLEAN,
           Becomes(c, e, n, o),
           Good(e, n, o),
           emitters' \in Nat, emitters' = Cardinality(Holders)',
           timers' \in [known : BOOLEAN, other : BOOLEAN], listened' \in BOOLEAN,
           TimersAgree'
    PROVE  UserInv'
<1>1. /\ emitter' \in [UserClients -> Emitter] /\ running' \in [UserClients -> Nat]
      /\ overrun' \in [UserClients -> BOOLEAN]
      /\ \A d \in UserClients : Good(emitter'[d], running'[d], overrun'[d])
  BY OneClient
<1>2. UserTypeOK'
  BY <1>1 DEF UserTypeOK
<1>3. QED
  BY <1>1, <1>2 DEF UserInv

LEMMA UserSubscribeOK ==
    ASSUME UserInv, NEW c \in UserClients,
           NEW type \in {"sub", "get", "both"}, UO!Subscribe(c, type)
    PROVE  UserInv'
<1> DEFINE e == UO!NewEmitter(type, FALSE)
<1>1. UserTypeOK /\ TimersAgree
  BY DEF UserInv
<1>2. /\ ~UO!Has(c) /\ status' = "live"
      /\ emitter' = [emitter EXCEPT ![c] = e]
      /\ emitters' = emitters + 1
      /\ timers' = [timers EXCEPT !.known = FALSE]
      /\ UNCHANGED <<running, late, overrun, listened>>
  BY DEF UO!Subscribe
<1>3. /\ emitter[c] \in Emitter /\ running[c] \in Nat /\ overrun[c] \in BOOLEAN
      /\ Good(emitter[c], running[c], overrun[c])
      /\ running' = [running EXCEPT ![c] = running[c]]
      /\ overrun' = [overrun EXCEPT ![c] = overrun[c]]
  BY <1>2, Before
<1>4. e \in Emitter /\ e.type # "none" /\ e.close = "none" /\ e.starting = 1
  BY DEF UO!NewEmitter, Emitter, Types
<1> HIDE DEF e
<1>5. Good(e, running[c], overrun[c])
  BY <1>2, <1>3, <1>4 DEF Good, Whole, RunsAgree, UO!Has
<1>6. emitters' \in Nat /\ emitters' = Cardinality(Holders)'
  BY <1>2, <1>4, Counted
<1>7. /\ timers' \in [known : BOOLEAN, other : BOOLEAN]
      /\ timers'.known = FALSE /\ timers'.other = timers.other
  BY <1>1, <1>2 DEF UserTypeOK
<1>8. TimersAgree' /\ listened' \in BOOLEAN
  BY <1>1, <1>2, <1>7 DEF TimersAgree, UserTypeOK
<1>9. Becomes(c, e, running[c], overrun[c])
  BY <1>2, <1>3 DEF Becomes
<1>10. QED
  BY <1>3, <1>4, <1>5, <1>6, <1>7, <1>8, <1>9, ReplaceOK

LEMMA ListenOK ==
    ASSUME UserInv, NEW c \in UserClients, UO!Listen(c)
    PROVE  UserInv'
<1>1. UserTypeOK
  BY DEF UserInv
<1>2. listened' = TRUE /\ UNCHANGED <<timers, running, late, overrun>>
  BY DEF UO!Listen
<1>3. /\ emitter[c] \in Emitter /\ running[c] \in Nat /\ overrun[c] \in BOOLEAN
      /\ Good(emitter[c], running[c], overrun[c])
      /\ running' = [running EXCEPT ![c] = running[c]]
      /\ overrun' = [overrun EXCEPT ![c] = overrun[c]]
  BY <1>2, Before
<1>4. TimersAgree' /\ listened' \in BOOLEAN /\ timers' \in [known : BOOLEAN, other : BOOLEAN]
  <2>1. listened' \in BOOLEAN
    BY <1>2, Zenon
  <2>2. QED
    BY <1>1, <1>2, <2>1 DEF TimersAgree, UserTypeOK
<1>5. CASE UO!Has(c)
  <2> DEFINE e == [emitter[c] EXCEPT !.listener = TRUE]
  <2>1. emitter' = [emitter EXCEPT ![c] = e] /\ emitters' = emitters
    BY <1>1, <1>5 DEF UO!Listen, UserTypeOK
  <2>2. /\ e \in Emitter /\ e.type = emitter[c].type /\ e.close = emitter[c].close
        /\ e.starting = emitter[c].starting
    BY <1>3 DEF Emitter
  <2> HIDE DEF e
  <2>3. e.type # "none" /\ Good(e, running[c], overrun[c])
    BY <1>3, <1>5, <2>2 DEF Good, Whole, RunsAgree, UO!Has
  <2>4. emitters' \in Nat /\ emitters' = Cardinality(Holders)'
    BY <1>5, <2>1, <2>2, <2>3, CountStays
  <2>5. Becomes(c, e, running[c], overrun[c])
    BY <1>3, <2>1 DEF Becomes
  <2>6. QED
    BY <1>3, <1>4, <2>2, <2>3, <2>4, <2>5, ReplaceOK
<1>6. CASE ~UO!Has(c)
  <2> DEFINE e == UO!NewEmitter("listener", TRUE)
  <2>1. emitter' = [emitter EXCEPT ![c] = e] /\ emitters' = emitters + 1
    BY <1>6 DEF UO!Listen
  <2>2. e \in Emitter /\ e.type # "none" /\ e.close = "none" /\ e.starting = 1
    BY DEF UO!NewEmitter, Emitter, Types
  <2> HIDE DEF e
  <2>3. Good(e, running[c], overrun[c])
    BY <1>3, <1>6, <2>2 DEF Good, Whole, RunsAgree, UO!Has
  <2>4. emitters' \in Nat /\ emitters' = Cardinality(Holders)'
    BY <1>6, <2>1, <2>2, Counted
  <2>5. Becomes(c, e, running[c], overrun[c])
    BY <1>3, <2>1 DEF Becomes
  <2>6. QED
    BY <1>3, <1>4, <2>2, <2>3, <2>4, <2>5, ReplaceOK
<1>7. QED
  BY <1>5, <1>6

\* A step of c that only rewrites its emitter, which stays one.
LEMMA RewriteOK ==
    ASSUME UserInv, NEW c \in UserClients, UO!Has(c), NEW e \in Emitter, e.type # "none",
           NEW n \in Nat, NEW o \in BOOLEAN, Good(e, n, o),
           Becomes(c, e, n, o),
           UNCHANGED <<status, emitters, timers, listened>>
    PROVE  UserInv'
<1>1. UserTypeOK /\ TimersAgree
  BY DEF UserInv
<1>2. emitters' \in Nat /\ emitters' = Cardinality(Holders)'
  BY CountStays DEF Becomes
<1>3. /\ timers' \in [known : BOOLEAN, other : BOOLEAN] /\ listened' \in BOOLEAN
      /\ TimersAgree'
  BY <1>1 DEF UserTypeOK, TimersAgree
<1>4. QED
  BY <1>2, <1>3, ReplaceOK

\* What a client has gone from, be it all or only to listen.
LEMMA LeaveOK ==
    ASSUME UserInv, NEW c \in UserClients, UO!Has(c), UO!Leave(c)
    PROVE  UserInv'
<1>1. CASE ~emitter[c].listener
  BY <1>1, DestroyOK DEF UO!Leave
<1>2. CASE emitter[c].listener
  <2> DEFINE e == [emitter[c] EXCEPT !.type = "listener"]
  <2>1. UserTypeOK
    BY DEF UserInv
  <2>2. /\ emitter' = [emitter EXCEPT ![c] = e]
        /\ UNCHANGED <<status, registered, emitters, timers, running, late, overrun, listened>>
    BY <1>2, <2>1 DEF UO!Leave, UserTypeOK
  <2>3. /\ emitter[c] \in Emitter /\ running[c] \in Nat /\ overrun[c] \in BOOLEAN
        /\ Good(emitter[c], running[c], overrun[c])
        /\ running' = [running EXCEPT ![c] = running[c]]
        /\ overrun' = [overrun EXCEPT ![c] = overrun[c]]
    BY <2>2, Before
  <2>4. /\ e \in Emitter /\ e.type = "listener" /\ e.close = emitter[c].close
        /\ e.starting = emitter[c].starting
    BY <2>3 DEF Emitter, Types
  <2> HIDE DEF e
  <2>5. Good(e, running[c], overrun[c])
    BY <2>3, <2>4 DEF Good, Whole, RunsAgree
  <2>6. Becomes(c, e, running[c], overrun[c])
    BY <2>2, <2>3 DEF Becomes
  <2>7. QED
    BY <2>2, <2>3, <2>4, <2>5, <2>6, RewriteOK
<1>3. QED
  BY <1>1, <1>2

LEMMA StopListeningOK ==
    ASSUME UserInv, NEW c \in UserClients, UO!StopListening(c)
    PROVE  UserInv'
<1>1. /\ emitter[c] \in Emitter /\ running[c] \in Nat /\ overrun[c] \in BOOLEAN
      /\ Good(emitter[c], running[c], overrun[c])
      /\ running = [running EXCEPT ![c] = running[c]]
      /\ overrun = [overrun EXCEPT ![c] = overrun[c]]
  BY Before
<1>2. UO!Has(c)
  BY <1>1 DEF UO!Has, Good, Whole, UO!StopListening
<1>3. CASE emitter[c].type = "listener"
  BY <1>2, <1>3, DestroyOK DEF UO!StopListening
<1>4. CASE emitter[c].type # "listener"
  <2> DEFINE e == [emitter[c] EXCEPT !.listener = FALSE]
  <2>1. UserTypeOK
    BY DEF UserInv
  <2>2. /\ emitter' = [emitter EXCEPT ![c] = e]
        /\ UNCHANGED <<status, registered, emitters, timers, running, late, overrun, listened>>
    BY <1>4, <2>1 DEF UO!StopListening, UserTypeOK
  <2>3. /\ e \in Emitter /\ e.type = emitter[c].type /\ e.close = emitter[c].close
        /\ e.starting = emitter[c].starting
    BY <1>1 DEF Emitter
  <2> HIDE DEF e
  <2>4. e.type # "none" /\ Good(e, running[c], overrun[c])
    BY <1>1, <1>2, <2>3 DEF Good, Whole, RunsAgree, UO!Has
  <2>5. Becomes(c, e, running[c], overrun[c])
    BY <1>1, <2>2 DEF Becomes
  <2>6. QED
    BY <1>1, <1>2, <2>2, <2>3, <2>4, <2>5, RewriteOK
<1>5. QED
  BY <1>3, <1>4

LEMMA UserRemoveTimeoutOK ==
    ASSUME UserInv, NEW which \in {"known", "other"}, UO!RemoveTimeout(which)
    PROVE  UserInv'
<1>1. UserTypeOK /\ TimersAgree
  BY DEF UserInv
<1>2. /\ timers[which] /\ timers' = [timers EXCEPT ![which] = FALSE]
      /\ UNCHANGED <<emitter, emitters, running, late, overrun, listened>>
  BY DEF UO!RemoveTimeout
<1>3. timers' \in [known : BOOLEAN, other : BOOLEAN]
  BY <1>1, <1>2 DEF UserTypeOK
<1>4. ~listened => which = "known" /\ emitters = 0 /\ ~timers'.other
  BY <1>1, <1>2 DEF TimersAgree, UserTypeOK
<1>5. TimersAgree'
  BY <1>2, <1>4 DEF TimersAgree
<1>6. Holders' = Holders
  BY <1>2 DEF Holders, UO!Has
<1>7. QED
  BY <1>1, <1>2, <1>3, <1>5, <1>6 DEF UserInv, UserTypeOK

LEMMA StartedOK ==
    ASSUME UserInv, NEW c \in UserClients, NEW ok \in BOOLEAN, UO!Started(c, ok)
    PROVE  UserInv'
<1>1. UserTypeOK /\ TimersAgree
  BY DEF UserInv
<1>2. /\ emitter[c] \in Emitter /\ running[c] \in Nat /\ overrun[c] \in BOOLEAN
      /\ Good(emitter[c], running[c], overrun[c])
      /\ overrun = [overrun EXCEPT ![c] = overrun[c]]
  BY Before
<1>3. CASE /\ emitter[c].starting > 0
           /\ emitter' = [emitter EXCEPT ![c].starting = @ - 1,
                                         ![c].close = IF ok THEN "open" ELSE @]
           /\ running' = [running EXCEPT ![c] = IF ok THEN @ + 1 ELSE @]
           /\ UNCHANGED <<status, registered, emitters, timers, late, overrun, listened>>
  <2> DEFINE e == [emitter[c] EXCEPT !.starting = @ - 1,
                                     !.close = IF ok THEN "open" ELSE @]
             n == IF ok THEN running[c] + 1 ELSE running[c]
  <2>1. emitter' = [emitter EXCEPT ![c] = e] /\ running' = [running EXCEPT ![c] = n]
    BY <1>1, <1>3 DEF UserTypeOK
  <2>2. /\ e \in Emitter /\ e.type = emitter[c].type
        /\ e.starting = emitter[c].starting - 1
        /\ e.close = IF ok THEN "open" ELSE emitter[c].close
    <3>1. emitter[c].starting - 1 \in Nat
      BY <1>2, <1>3 DEF Emitter
    <3>2. e = [emitter[c] EXCEPT !.starting = emitter[c].starting - 1,
                                 !.close = IF ok THEN "open" ELSE emitter[c].close]
      BY <1>2 DEF Emitter
    <3>3. (IF ok THEN "open" ELSE emitter[c].close) \in {"none", "open", "called"}
      BY <1>2 DEF Emitter
    <3>4. QED
      BY <1>2, <3>1, <3>2, <3>3 DEF Emitter
  <2>3. n \in Nat
    BY <1>2
  <2>4. UO!Has(c) /\ e.type # "none"
    BY <1>2, <1>3, <2>2 DEF Good, Whole, UO!Has, Emitter
  <2>5. Good(e, n, overrun[c])
    <3> HIDE DEF e
    <3>1. emitter[c].starting \in Nat
      BY <1>2 DEF Emitter
    <3>2. QED
      BY <1>2, <1>3, <2>2, <2>4, <3>1 DEF Good, Whole, RunsAgree
  <2> HIDE DEF e, n
  <2>6. Becomes(c, e, n, overrun[c])
    BY <1>2, <1>3, <2>1 DEF Becomes
  <2>7. UNCHANGED <<status, emitters, timers, listened>>
    BY <1>3
  <2>8. QED
    BY <1>2, <2>2, <2>3, <2>4, <2>5, <2>6, <2>7, RewriteOK
<1>4. CASE UNCHANGED <<status, registered, emitter, emitters, timers, running, overrun, listened>>
  BY <1>4 DEF UserInv, UserTypeOK, TimersAgree, Holders, UO!Has
<1>5. QED
  BY <1>3, <1>4 DEF UO!Started

LEMMA ReauthorizedOK ==
    ASSUME UserInv, NEW c \in UserClients, UO!Reauthorized(c)
    PROVE  UserInv'
<1> DEFINE e == [emitter[c] EXCEPT !.starting = @ + 1]
           o == overrun[c] \/ emitter[c].starting > 0 \/ emitter[c].close = "open"
<1>1. UserTypeOK
  BY DEF UserInv
<1>2. /\ emitter[c] \in Emitter /\ running[c] \in Nat
      /\ Good(emitter[c], running[c], overrun[c])
      /\ running = [running EXCEPT ![c] = running[c]]
  BY Before
<1>3. UO!Has(c) /\ UNCHANGED <<status, emitters, timers, running, listened>>
  BY DEF UO!Reauthorized
<1>4. emitter' = [emitter EXCEPT ![c] = e] /\ overrun' = [overrun EXCEPT ![c] = o]
  BY <1>1 DEF UO!Reauthorized, UserTypeOK
<1>5. /\ e \in Emitter /\ e.type = emitter[c].type /\ e.close = emitter[c].close
      /\ e.starting = emitter[c].starting + 1 /\ emitter[c].starting \in Nat
  BY <1>2 DEF Emitter
<1>6. o \in BOOLEAN /\ running' = [running EXCEPT ![c] = running[c]]
  BY <1>2, <1>3
<1> HIDE DEF e
<1>7. e.type # "none" /\ Good(e, running[c], o)
  BY <1>2, <1>3, <1>5 DEF Good, Whole, RunsAgree, UO!Has
<1> HIDE DEF o
<1>8. Becomes(c, e, running[c], o)
  BY <1>4, <1>6 DEF Becomes
<1>9. QED
  BY <1>2, <1>3, <1>5, <1>6, <1>7, <1>8, RewriteOK

LEMMA RestartOK ==
    ASSUME UserInv, UO!Restart
    PROVE  UserInv'
<1>1. UserTypeOK /\ TimersAgree /\ emitters = Cardinality(Holders)
  BY DEF UserInv
<1>2. /\ emitter' = [c \in UserClients |->
             IF ~UO!Has(c) THEN emitter[c]
             ELSE [emitter[c] EXCEPT !.starting = @ + 1,
                                     !.close = IF @ = "open" THEN "called" ELSE @]]
      /\ running' = [c \in UserClients |->
             IF emitter[c].close = "open" THEN running[c] - 1 ELSE running[c]]
      /\ overrun' = [c \in UserClients |-> overrun[c] \/ emitter[c].starting > 0]
      /\ UNCHANGED <<status, registered, emitters, timers, late, listened>>
  BY DEF UO!Restart
<1>3. ASSUME NEW c \in UserClients
      PROVE  /\ emitter'[c] \in Emitter /\ running'[c] \in Nat /\ overrun'[c] \in BOOLEAN
             /\ (emitter'[c].type # "none") <=> UO!Has(c)
             /\ Good(emitter'[c], running'[c], overrun'[c])
  <2>1. /\ emitter[c] \in Emitter /\ running[c] \in Nat /\ overrun[c] \in BOOLEAN
        /\ Good(emitter[c], running[c], overrun[c])
    BY <1>3, Before
  <2>2. running'[c] = IF emitter[c].close = "open" THEN running[c] - 1 ELSE running[c]
    BY <1>2
  <2>3. /\ overrun'[c] \in BOOLEAN
        /\ overrun'[c] <=> overrun[c] \/ emitter[c].starting > 0
    BY <1>2, Zenon
  <2>4. running'[c] \in Nat
    BY <2>1, <2>2 DEF Good, RunsAgree
  <2>5. CASE ~UO!Has(c)
    <3>1. emitter'[c] = emitter[c]
      BY <1>2, <2>5
    <3>2. QED
      BY <2>1, <2>2, <2>3, <2>4, <2>5, <3>1 DEF Good, Whole, RunsAgree, UO!Has
  <2>6. CASE UO!Has(c)
    <3> DEFINE e == [emitter[c] EXCEPT !.starting = @ + 1,
                                       !.close = IF @ = "open" THEN "called" ELSE @]
    <3>1. emitter'[c] = e
      BY <1>2, <2>6
    <3>2. /\ e \in Emitter /\ e.type = emitter[c].type
          /\ e.starting = emitter[c].starting + 1 /\ emitter[c].starting \in Nat
          /\ e.close # "open"
      <4> DEFINE x == IF emitter[c].close = "open" THEN "called" ELSE emitter[c].close
      <4>1. emitter[c].starting \in Nat /\ emitter[c].starting + 1 \in Nat
        BY <2>1 DEF Emitter
      <4>2. x \in {"none", "open", "called"} /\ x # "open"
        BY <2>1 DEF Emitter
      <4>3. e = [emitter[c] EXCEPT !.starting = emitter[c].starting + 1, !.close = x]
        BY <2>1 DEF Emitter
      <4> HIDE DEF x
      <4>4. QED
        BY <2>1, <4>1, <4>2, <4>3 DEF Emitter
    <3> HIDE DEF e
    <3>3. QED
      BY <2>1, <2>2, <2>3, <2>4, <2>6, <3>1, <3>2 DEF Good, Whole, RunsAgree, UO!Has
  <2>7. QED
    BY <2>5, <2>6
<1>4. Holders' = Holders
  BY <1>3 DEF Holders, UO!Has
<1>5. UserTypeOK'
  <2>1. emitter' \in [UserClients -> Emitter]
    BY <1>2, <1>3
  <2>2. running' \in [UserClients -> Nat]
    BY <1>2, <1>3
  <2>3. overrun' \in [UserClients -> BOOLEAN]
    BY <1>2, <1>3
  <2>4. QED
    BY <1>1, <1>2, <2>1, <2>2, <2>3 DEF UserTypeOK
<1>6. TimersAgree' /\ emitters' = Cardinality(Holders)'
  BY <1>1, <1>2, <1>4 DEF TimersAgree
<1>7. QED
  BY <1>3, <1>5, <1>6 DEF UserInv

LEMMA UserStepOK == UserInv /\ [UO!Next]_(UO!vars) => UserInv'
<1> SUFFICES ASSUME UserInv, [UO!Next]_(UO!vars) PROVE UserInv'
  OBVIOUS
<1>1. CASE UNCHANGED UO!vars
  BY <1>1 DEF UserInv, UO!vars, UserTypeOK, TimersAgree, Holders, UO!Has
<1>2. ASSUME NEW c \in UserClients, UO!Unsubscribe(c) \/ UO!Answered(c)
      PROVE  UserInv'
  BY <1>2, LeaveOK DEF UO!Unsubscribe, UO!Answered
<1>3. CASE UO!Replace
  BY <1>3 DEF UO!Replace, UserInv, UserTypeOK, TimersAgree, Holders, UO!Has
<1>4. ASSUME NEW c \in UserClients,
             \/ \E type \in {"sub", "get", "both"} : UO!Subscribe(c, type)
             \/ UO!Listen(c) \/ UO!StopListening(c) \/ UO!Reauthorized(c)
             \/ \E ok \in BOOLEAN : UO!Started(c, ok)
      PROVE  UserInv'
  BY <1>4, UserSubscribeOK, ListenOK, StopListeningOK, ReauthorizedOK, StartedOK
<1>5. CASE (\E which \in {"known", "other"} : UO!RemoveTimeout(which)) \/ UO!Restart
  BY <1>5, UserRemoveTimeoutOK, RestartOK
<1>6. QED
  BY <1>1, <1>2, <1>3, <1>4, <1>5 DEF UO!Next

LEMMA UserInvariance == Spec => []UserInv
<1>1. UO!Init => UserInv
  BY UserInitOK
<1>2. UserInv /\ [UO!Next]_(UO!vars) => UserInv'
  BY UserStepOK
<1>3. QED
  BY <1>1, <1>2, UserPart, PTL DEF Spec
-----------------------------------------------------------------------------
\* clientsCnt of a per-user observable is the number of its emitters, so it
\* is removed when the last has gone and, unless something listened to it, not
\* before (subscribe, unsubscribe and destroyIfEmpty of Observable.ts).
THEOREM UserCounts == Spec => []UserCountExact
<1>1. UserInv => UserCountExact
  BY UserCardinalityIs DEF UserInv, UserCountExact, UO!UserCountExact, TimersAgree, Holders
<1>2. QED
  BY <1>1, UserInvariance, PTL

\* However the promises of the runs, the end of the client, restarts and
\* tokens come together, the client's emitter has exactly one open run, and a
\* client without one has none: unless init() found another run (UserEmitter).
THEOREM RunsEndWithTheEmitter == Spec => []UserRunsEnd
<1>1. UserInv => UserRunsEnd
  BY DEF UserInv, UserRunsEnd, UO!UserRunsEnd, Good, RunsAgree
<1>2. QED
  BY <1>1, UserInvariance, PTL
=============================================================================
