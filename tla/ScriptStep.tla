------------------------------ MODULE ScriptStep ------------------------------
(***************************************************************************)
(* The steps a test script is made of (ccnxTestrig_Script.c) and, in terms *)
(* of the packets a step read, what each kind of step asks of them.        *)
(*                                                                         *)
(*   op       the execute function the constructor installs                *)
(*   packet   the packet to send; NoPacket for a receive step              *)
(*   step     the index of the step named by the caller, 0 for none: the   *)
(*            reference of a receive step, or the step whose               *)
(*            receivedLinkVector a respond step shares                     *)
(*   links    the bits of linkVector (unused by a respond step)            *)
(*   listed   history: the links the caller listed                         *)
(***************************************************************************)
EXTENDS PacketUtility, Channel

CONSTANT NoPacket

ASSUME ScriptStepAssumption ==
    /\ NoPacket \notin Packet
    /\ Arrival \subseteq Packet

LinkBit == 0..3
ReceiveOp == {"receiveOne", "receiveNone", "receiveAll"}
SendOp == {"send", "respond"}

Step == [op : ReceiveOp \cup SendOp, packet : Packet \cup {NoPacket}, step : Nat,
         links : SUBSET LinkBit, listed : SUBSET LinkBit]

CreateSendStep(linkId, packet) ==
    [op |-> "send", packet |-> packet, step |-> 0, links |-> {linkId}, listed |-> {linkId}]

CreateRespondStep(reference, packet) ==
    [op |-> "respond", packet |-> packet, step |-> reference, links |-> {}, listed |-> {}]

\* Mutant: the vector holds the masks of the links, 2^l, in place of the links.
GetLinkVectorMasks(listed, junk) == {2^l : l \in listed} \cup junk

\* ccnxTestrig_GetLinkVector walks its variable arguments until it meets a value above LinkC, which
\* no caller passes: junk is the set of bits it picks up behind the last argument on the way.
GetLinkVector(listed, junk) == listed \cup junk

CreateReceive(op, reference, listed, junk) ==
    [op |-> op, packet |-> NoPacket, step |-> reference,
     links |-> GetLinkVector(listed, junk), listed |-> listed]

------------------------------------------------------------------------------
\* A reading is a link and the packet read from it.  The packet is what the step expects of its reference.
Matches(sent, received) == TypesMatch(sent, received) /\ ValidPacketPair(sent, received)

ReadLinks(readings) == {r[1] : r \in readings}

\* What the step at index k of plan asks of the readings it made.
Satisfied(plan, k, readings) ==
    LET s == plan[k]
        AllMatch == \A r \in readings : Matches(plan[s.step].packet, r[2])
    IN  CASE s.op \in SendOp        -> readings = {}
          [] s.op = "receiveNone"   -> readings = {}
          [] s.op = "receiveOne"    -> readings # {} /\ AllMatch
          [] s.op = "receiveAll"    -> ReadLinks(readings) = s.links /\ AllMatch

\* The scripts the suite writes: a receive step waits on at least one link of the rig for what an
\* earlier step sent, a respond step answers an earlier step that cannot pass without a packet.
StepWellFormed(plan, k) ==
    LET s == plan[k]
    IN  CASE s.op = "send"    -> s.links # {} /\ s.links \subseteq LinkID
          [] s.op = "respond" -> /\ s.step \in 1..(k - 1)
                                 /\ plan[s.step].op \in {"receiveOne", "receiveAll"}
          [] OTHER            -> /\ s.links # {} /\ s.links \subseteq LinkID
                                 /\ s.step \in 1..(k - 1)
                                 /\ plan[s.step].op \in SendOp

WellFormed(plan) == \A k \in 1..Len(plan) : StepWellFormed(plan, k)

=============================================================================
