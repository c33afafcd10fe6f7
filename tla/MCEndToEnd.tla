----------------------------- MODULE MCEndToEnd -----------------------------
(***************************************************************************)
(* The whole suite, in order, on three links, with each forwarder.         *)
(***************************************************************************)
EXTENDS EndToEnd

MCName     == {RandomName(Prefix(t), t) : t \in Test} \cup {Nameless}
MCKeyId    == {"none", "key", "other"}
MCHash     == Test \cup {"none", "zero"}
MCLifetime == {0, 1000}
MCPacket   ==
    UNION {{InterestOf(t), Forwarded(InterestOf(t)), [InterestOf(t) EXCEPT !.hopLimit = 0],
            AnswerOf(t)} : t \in Test}

AllLinks   == {LinkA, LinkB, LinkC}
None       == {}
NoTraffic  == [t \in Test |-> {}]
WholeSuite == {SuiteTest}

Correct    == {"none"}
Copying    == {"contentCopiedToEveryLink"}
Repeating  == {"nothingAggregated"}
\* No test can tell a copying forwarder, and over TCP none need tell one that does not aggregate.
Faulty     == Faults \ (Copying \cup Repeating)

=============================================================================
