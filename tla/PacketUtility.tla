---------------------------- MODULE PacketUtility ----------------------------
(***************************************************************************)
(* The packets the test rig exchanges with the forwarder, and the checks   *)
(* ccnxTestrig_PacketUtility.c makes of a received packet against the one  *)
(* that was sent.                                                          *)
(*                                                                         *)
(* A packet is what the CCNx codec decodes from the wire.  An Interest's   *)
(* keyId and hash are its restrictions; a Content Object's keyId is that   *)
(* of its signature and its hash the digest of the whole object (what      *)
(* ComputeMessageHash returns), so two Content Objects that differ in      *)
(* their payload differ in their hash.  Type "unknown" stands for whatever *)
(* decodes to none of the three message types.                             *)
(***************************************************************************)
EXTENDS Integers

CONSTANTS Packet,     \* the packets that can be on the wire
          Name,       \* the CCNx names
          KeyId,      \* the key identifiers, an absent one included
          Hash,       \* the content digests, an absent one included
          Lifetime    \* the Interest lifetimes, in milliseconds

MessageType == {"interest", "content", "manifest"}

\* A hop limit is one byte on the wire; the getter widens it before the + 1 below.
HopLimit == 0..255

PacketRecord == [type : MessageType \cup {"unknown"}, name : Name, hopLimit : HopLimit,
                 lifetime : Lifetime, keyId : KeyId, hash : Hash]

ASSUME PacketAssumption ==
    /\ Packet \subseteq PacketRecord
    /\ Lifetime \subseteq Nat

\* The three IsInterest / IsContentObject / IsManifest comparisons both receive loops make.
TypesMatch(sent, received) ==
    \A t \in MessageType : (received.type = t) <=> (sent.type = t)

\* Mutant: the hop limit is compared as if the forwarder left it alone.
WrongFieldsSameHop(egress, ingress) ==
    {f \in {"hopLimit", "lifetime", "name", "keyId", "hash"} : egress[f] # ingress[f]}

\* The comparisons of _validInterestPair: the fields it reports when they are wrong.
WrongFields(egress, ingress) ==
    {f \in {"hopLimit", "lifetime", "name", "keyId", "hash"} :
        IF f = "hopLimit" THEN egress.hopLimit # ingress.hopLimit + 1
                          ELSE egress[f] # ingress[f]}

ValidInterestPair(egress, ingress) == WrongFields(egress, ingress) = {}

\* _validContentPair and _validManifestPair look at neither packet.
ValidContentPair(egress, ingress) == TRUE
ValidManifestPair(egress, ingress) == TRUE

\* ccnxTestrigPacketUtility_IsValidPacketPair, up to what it records: dispatch on the sent packet.
ValidPacketPair(sent, received) ==
    \/ sent.type = "interest" /\ ValidInterestPair(sent, received)
    \/ sent.type = "content"  /\ ValidContentPair(sent, received)
    \/ sent.type = "manifest" /\ ValidManifestPair(sent, received)

------------------------------------------------------------------------------
\* What a forwarder makes of a packet it forwards: an Interest loses one hop.
Forwarded(p) == IF p.type = "interest" THEN [p EXCEPT !.hopLimit = @ - 1] ELSE p

=============================================================================
