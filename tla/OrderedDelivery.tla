-------------------------- MODULE OrderedDelivery --------------------------
(***************************************************************************)
(* What a client may count on when the server sends to it: it is given the *)
(* messages in the order in which they were sent, each once and none left  *)
(* out, until it is gone; then nothing more.  All that it is given it can  *)
(* read, but for texts that were not delivered when they were sent: these  *)
(* it is given in vain.  Backpressure implements it.                       *)
(***************************************************************************)
EXTENDS Naturals, Sequences

CONSTANTS
    Clients,
    Texts  \* the numbers of the messages that are texts

VARIABLES
    sent,  \* per client: how many messages were sent to it
    got,   \* per client: the numbers of the messages it was given
    lost,  \* per client: the numbers of those it was given and cannot read
    gone   \* per client: whether its connection has ended

vars == <<sent, got, lost, gone>>

Init ==
    /\ sent = [c \in Clients |-> 0]
    /\ got = [c \in Clients |-> <<>>]
    /\ lost = [c \in Clients |-> {}]
    /\ gone = [c \in Clients |-> FALSE]

\* The first n messages, in order.
FirstOnes(n) == [i \in 1..n |-> i]

Send(c) == sent' \in {sent, [sent EXCEPT ![c] = @ + 1]}

\* A message is sent, or some that were sent are delivered, or both.  Those
\* delivered now can be read unless they are texts that were sent before.
Transmit(c) ==
    /\ ~gone[c]
    /\ Send(c)
    /\ \E n \in Len(got[c])..sent'[c] :
        /\ got' = [got EXCEPT ![c] = FirstOnes(n)]
        /\ lost' = [lost EXCEPT ![c] =
                        @ \cup (Texts \cap (Len(got[c]) + 1)..n \cap 1..sent[c])]
    /\ UNCHANGED gone

\* Connections end, perhaps because of the message that is sent to c: what was
\* sent and not delivered is lost.
Lose(c, C) ==
    /\ ~gone[c]
    /\ Send(c)
    /\ gone' = [d \in Clients |-> gone[d] \/ d \in C]
    /\ UNCHANGED <<got, lost>>

Next == \E c \in Clients :
    \/ Transmit(c)
    \/ \E C \in SUBSET Clients : Lose(c, C)

Spec == Init /\ [][Next]_vars
=============================================================================
