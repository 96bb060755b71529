---------------------------- MODULE Backpressure ----------------------------
(***************************************************************************)
(* How the server writes to its websockets (packages/server: Client.send,  *)
(* drain and destroy, the drain handler of BasedServer).  While the socket *)
(* still holds bytes a message waits in the client's backpressureQueue;    *)
(* totalBp counts the waiting messages of all clients and ends the process *)
(* when it grows too large.                                                *)
(*                                                                         *)
(* A message is the number of the send() that carried it.  Some are        *)
(* objects, some are strings: an observable encodes an update once for all *)
(* its subscribers.  send() encodes the objects; drain() encodes whatever  *)
(* has waited, strings too, and the client that parses such a frame has a  *)
(* string in its hands, which it drops.                                    *)
(*                                                                         *)
(* The socket (uWebSockets, external) fills up at any write and calls the  *)
(* drain handler in the very moment its bytes have left.                   *)
(***************************************************************************)
EXTENDS Integers, Sequences, FiniteSets

CONSTANTS
    Clients,
    MaxQueue,  \* 50 in the code: a longer queue destroys the client
    MaxTotal,  \* 5000 in the code: more messages end the process
    MaxSends,  \* bounds the messages sent to a client
    Strings    \* the messages that are strings

VARIABLES
    backpressureQueue,  \* per client, [msg, late]; late after ten seconds
    totalBp,
    buffered,  \* per client: socket.getBufferedAmount() is not 0
    ended,     \* per client: closed, by the peer or by destroy()
    wire,      \* per client: what the socket was given
    sends,     \* per client: how often send() was called
    requoted,  \* per client: the messages it was given that are encoded twice
    alive      \* FALSE after process.exit()

vars == <<backpressureQueue, totalBp, buffered, ended, wire, sends, requoted,
          alive>>

Init ==
    /\ backpressureQueue = [c \in Clients |-> <<>>]
    /\ totalBp = 0
    /\ buffered = [c \in Clients |-> FALSE]
    /\ ended = [c \in Clients |-> FALSE]
    /\ wire = [c \in Clients |-> <<>>]
    /\ sends = [c \in Clients |-> 0]
    /\ requoted = [c \in Clients |-> {}]
    /\ alive = TRUE

Open(c) == alive /\ ~ended[c]

Waiting(c)  == [i \in 1..Len(backpressureQueue[c]) |-> backpressureQueue[c][i].msg]
HeadLate(c) == backpressureQueue[c] # <<>> /\ Head(backpressureQueue[c]).late

\* backpressureQueue = []; destroy(): the queue is empty when destroy() comes
\* to lower totalBp by its length.
Drop(c) ==
    /\ backpressureQueue' = [backpressureQueue EXCEPT ![c] = <<>>]
    /\ ended' = [ended EXCEPT ![c] = TRUE]
    /\ UNCHANGED <<buffered, wire, requoted, alive>>
-----------------------------------------------------------------------------
\* Mutant: the socket is written to at once.
MayWriteAlways(c) == TRUE

MayWrite(c) == ~buffered[c]

\* send() to a socket that holds no bytes; the write may leave some behind.
SendNow(c) ==
    /\ Open(c) /\ sends[c] < MaxSends
    /\ MayWrite(c)
    /\ sends' = [sends EXCEPT ![c] = @ + 1]
    /\ wire' = [wire EXCEPT ![c] = Append(@, sends'[c])]
    /\ \E full \in BOOLEAN : buffered' = [buffered EXCEPT ![c] = full]
    /\ UNCHANGED <<backpressureQueue, totalBp, ended, requoted, alive>>

\* send() to a socket that still holds bytes.
SendLater(c) ==
    /\ Open(c) /\ sends[c] < MaxSends
    /\ buffered[c]
    /\ sends' = [sends EXCEPT ![c] = @ + 1]
    /\ IF HeadLate(c)
       THEN Drop(c) /\ UNCHANGED totalBp
       ELSE /\ totalBp' = totalBp + 1
            /\ IF totalBp' > MaxTotal
               THEN /\ alive' = FALSE
                    /\ UNCHANGED <<backpressureQueue, ended, buffered, wire,
                                   requoted>>
               ELSE IF Len(backpressureQueue[c]) >= MaxQueue
               THEN Drop(c)
               ELSE /\ backpressureQueue' = [backpressureQueue EXCEPT ![c] =
                           Append(@, [msg |-> sends'[c], late |-> FALSE])]
                    /\ UNCHANGED <<ended, buffered, wire, requoted, alive>>

\* Mutant: the handler does not write what waits.
DrainNothing(c) ==
    /\ Open(c) /\ buffered[c]
    /\ buffered' = [buffered EXCEPT ![c] = FALSE]
    /\ UNCHANGED <<backpressureQueue, totalBp, ended, wire, sends, requoted,
                   alive>>

\* The drain handler: k messages go out before the socket holds bytes again.
\* Each is encoded, whatever it is.  A queue whose head is late is given up,
\* and only that head uncounted.
Drain(c) ==
    /\ Open(c) /\ buffered[c]
    /\ UNCHANGED sends
    /\ IF HeadLate(c)
       THEN Drop(c) /\ totalBp' = totalBp - 1
       ELSE \E k \in 0..Len(backpressureQueue[c]), full \in BOOLEAN :
            /\ k < Len(backpressureQueue[c]) => k > 0 /\ full
            /\ k = 0 => ~full
            /\ totalBp' = totalBp - k
            /\ wire' = [wire EXCEPT ![c] = @ \o SubSeq(Waiting(c), 1, k)]
            /\ requoted' = [requoted EXCEPT ![c] =
                                @ \cup ({Waiting(c)[i] : i \in 1..k} \cap Strings)]
            /\ backpressureQueue' = [backpressureQueue EXCEPT ![c] =
                                         SubSeq(@, k + 1, Len(@))]
            /\ buffered' = [buffered EXCEPT ![c] = full]
            /\ UNCHANGED <<ended, alive>>

\* Mutant: the message on the socket is uncounted too.
DestroyOneMore(c) ==
    /\ Open(c)
    /\ totalBp' = totalBp - Len(backpressureQueue[c]) - 1
    /\ Drop(c)
    /\ UNCHANGED sends

\* destroy() when the socket has closed, or the server closes it.
Destroy(c) ==
    /\ Open(c)
    /\ totalBp' = totalBp - Len(backpressureQueue[c])
    /\ Drop(c)
    /\ UNCHANGED sends

\* Ten seconds pass: Date.now() - time > 10e3 for all that waits now.
TenSeconds ==
    /\ alive
    /\ \E c \in Clients : \E i \in DOMAIN backpressureQueue[c] :
           ~backpressureQueue[c][i].late
    /\ backpressureQueue' = [c \in Clients |->
           [i \in DOMAIN backpressureQueue[c] |->
               [backpressureQueue[c][i] EXCEPT !.late = TRUE]]]
    /\ UNCHANGED <<totalBp, buffered, ended, wire, sends, requoted,
                   alive>>

Next ==
    \/ \E c \in Clients : SendNow(c) \/ SendLater(c) \/ Drain(c) \/ Destroy(c)
    \/ TenSeconds

\* A peer that was sent bytes reads them, or its socket is closed: idleTimeout
\* of the websocket.
Reads(c) == buffered[c] /\ (Drain(c) \/ Destroy(c))
Fairness == \A c \in Clients : WF_vars(Reads(c))

Spec == Init /\ [][Next]_vars /\ Fairness
-----------------------------------------------------------------------------
(***************************************************************************)
(* Properties.                                                             *)
(***************************************************************************)
\* send() and drain() give an open socket the messages in order, none left out
\* and none twice, and what was lost when a queue was dropped is not made up
\* for.  send() writes past the queue whenever the socket holds no bytes, so
\* this rests on the drain handler.  But a string that had to wait is encoded
\* twice, and only such a string.
Delivery == INSTANCE OrderedDelivery WITH
    Texts <- Strings,
    sent <- sends,
    got  <- wire,
    lost <- requoted,
    gone <- [c \in Clients |-> ~Open(c)]
ImplementsDelivery == Delivery!Spec

\* Why it does: what an open socket was given, followed by what waits for it,
\* is what was sent.
NothingOvertakes ==
    \A c \in Clients : Open(c) =>
        wire[c] \o Waiting(c) = [i \in 1..sends[c] |-> i]

\* All that waits: <<c, i>> for the i-th message in the queue of c.
Backlog == UNION {{c} \X DOMAIN backpressureQueue[c] : c \in Clients}

\* totalBp is never less than the messages that wait (it may be more: Drop
\* empties a queue without lowering it).
TotalCoversQueues == totalBp >= Cardinality(Backlog)

\* What waits goes out, or its client or the process goes: time and again
\* nothing waits for an open socket (the sends are bounded).
SentGoesOut == []<>(\A c \in Clients : ~Open(c) \/ Waiting(c) = <<>>)
=============================================================================
