------------------------------- MODULE MCSuite -------------------------------
(***************************************************************************)
(* The suite on a rig with its three links.                                *)
(***************************************************************************)
EXTENDS Suite

MCName     == {RandomName(Prefix(t), t) : t \in Test} \cup {Nameless}
MCKeyId    == {"none", "key", "other"}
MCHash     == Test \cup {"none", "zero"}
MCLifetime == {0, 1000}
MCPacket   == UNION {{InterestOf(t), Forwarded(InterestOf(t)), AnswerOf(t)} : t \in Test}

AllLinks == {LinkA, LinkB, LinkC}
NoJunk   == {}
BadBits  == {0, LinkC}
NoListings == {}

Probe == "FIBTest_BasicInterest_1a"
Strict == "ContentObjectErrors_1"

EachTest   == {<<t>> : t \in Test}
TwoTests   == {<<Probe, Strict>>}

\* What a forwarder should make of a test's packets; the answer of the second test stays away.
OwnTraffic == [t \in Test |-> IF t = Probe THEN {Forwarded(InterestOf(t)), AnswerOf(t)}
                                              ELSE {Forwarded(InterestOf(t))}]

\* Its packets, its Interest returned as it was sent, and the Interest of another test.
BadTraffic == [t \in Test |->
    {InterestOf(t), Forwarded(InterestOf(t)), AnswerOf(t),
     Forwarded(InterestOf(IF t = Probe THEN Strict ELSE Probe))}]

=============================================================================
