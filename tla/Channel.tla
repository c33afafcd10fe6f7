------------------------------- MODULE Channel -------------------------------
(***************************************************************************)
(* The rig's links (ccnxTestrig_Link.c), as the script and the flush use   *)
(* them: per link, the packets that have arrived and were not read yet, in *)
(* order.  Packets arrive at any time.  ReceiveWithTimeout hands out the   *)
(* oldest one at once, or returns NULL: when none arrived within the       *)
(* timeout, and, if ReceiveErrors, when poll failed and left the queue as  *)
(* it was (so does a failing recvfrom).                                    *)
(*                                                                         *)
(* recvfrom takes one datagram off a UDP socket.  recv takes whatever a    *)
(* TCP stream holds, up to MTU bytes, and what follows the first packet in *)
(* the buffer is never decoded.  A stream that ends, or a packet split     *)
(* between two calls of recv, is not modelled.                             *)
(***************************************************************************)
EXTENDS Integers, Sequences

CONSTANTS LinkID,         \* the links of the rig: a subset of LinkA, LinkB, LinkC = 1, 2, 3
          Arrival,        \* the packets that may arrive from the forwarder
          Transport,      \* "UDP" or "TCP"
          MTU,            \* how many packets fit in the buffer handed to recv
          SocketBuffer,   \* how many packets a socket queues before it drops more
          ReceiveErrors   \* whether poll and recvfrom may fail

LinkA == 1
LinkB == 2
LinkC == 3

ASSUME ChannelAssumption ==
    /\ LinkID \subseteq {LinkA, LinkB, LinkC}
    /\ Transport \in {"UDP", "TCP"}
    /\ MTU \in Nat \ {0}
    /\ SocketBuffer \in Nat
    /\ ReceiveErrors \in BOOLEAN

VARIABLE inbox            \* [LinkID -> Seq(Arrival)]

ChannelTypeOK == inbox \in [LinkID -> Seq(Arrival)]

ChannelInit == inbox = [l \in LinkID |-> <<>>]

\* The forwarder's packet p reaches link l; a full socket drops it (no step at all).
Deliver(l, p) ==
    /\ Len(inbox[l]) < SocketBuffer
    /\ inbox' = [inbox EXCEPT ![l] = Append(@, p)]

\* How many packets one call of the receive function takes off a link.
TakenAtOnce == IF Transport = "TCP" THEN MTU ELSE 1

\* ReceiveWithTimeout(l) returns packet p.
Receives(l, p) ==
    /\ inbox[l] # <<>>
    /\ p = Head(inbox[l])
    /\ inbox' = [inbox EXCEPT ![l] = SubSeq(@, TakenAtOnce + 1, Len(@))]

\* ReceiveWithTimeout(l) returns NULL.
ReceivesNothing(l) ==
    /\ inbox[l] = <<>> \/ ReceiveErrors
    /\ UNCHANGED inbox

=============================================================================
