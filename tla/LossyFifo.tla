----------------------------- MODULE LossyFifo -----------------------------
(***************************************************************************)
(* What the asynchronous send path promises its callers: messages are      *)
(* numbered in the order in which they were accepted; some of them may be  *)
(* lost, and several may be put together in one packet, but those that are *)
(* delivered are delivered once and in order.                              *)
(***************************************************************************)
EXTENDS Naturals, Sequences

VARIABLES
    accepted,                   \* messages 1 .. accepted were accepted
    inTransit,                  \* those neither delivered nor lost yet
    delivered                   \* the packets delivered, in order

fifoVars == <<accepted, inTransit, delivered>>

FifoInit ==
    /\ accepted = 0
    /\ inTransit = {}
    /\ delivered = <<>>

Accept ==
    /\ accepted' = accepted + 1
    /\ inTransit' = inTransit \cup {accepted + 1}
    /\ UNCHANGED delivered

\* Messages in transit, in order.
Packets ==
    {packet \in UNION {[1 .. n -> inTransit] : n \in 1 .. accepted} :
        \A i, j \in DOMAIN packet : i < j => packet[i] < packet[j]}

\* Delivering a packet gives up on every earlier message still in transit.
Deliver(packet) ==
    /\ delivered' = Append(delivered, packet)
    /\ inTransit' = {n \in inTransit : \A i \in DOMAIN packet : n > packet[i]}
    /\ UNCHANGED accepted

Lose ==
    /\ inTransit' \in SUBSET inTransit
    /\ UNCHANGED <<accepted, delivered>>

FifoNext ==
    \/ Accept
    \/ \E packet \in Packets : Deliver(packet)
    \/ Lose

FifoSpec == FifoInit /\ [][FifoNext]_fifoVars
=============================================================================
