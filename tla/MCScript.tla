------------------------------- MODULE MCScript -------------------------------
(***************************************************************************)
(* A rig with two links and few packets: an Interest, two Content Objects  *)
(* of different names, and what a forwarder may turn them into.            *)
(***************************************************************************)
EXTENDS Script

MCName     == {"/test/a", "/test/b"}
MCKeyId    == {"none"}
MCHash     == {"none", "h"}
MCLifetime == {1000}

Interest(name, hops) == [type |-> "interest", name |-> name, hopLimit |-> hops,
                         lifetime |-> 1000, keyId |-> "none", hash |-> "none"]
Content(name)        == [type |-> "content", name |-> name, hopLimit |-> 0,
                         lifetime |-> 1000, keyId |-> "none", hash |-> "h"]

Sent      == Interest("/test/a", 255)
Returned  == Interest("/test/a", 255)     \* sent back without taking the hop off
Passed    == Interest("/test/a", 254)
Answer    == Content("/test/a")
Unrelated == Content("/test/b")

MCPacket   == {Sent, Passed, Answer, Unrelated}
MCOutgoing == {Sent, Answer}

FewArrivals  == {Returned, Passed, Answer}
PassingArrivals == {Passed, Answer}
ContentArrivals == {Passed, Answer, Unrelated}

TwoLinks    == {1, 2}
AllListings == {{1}, {2}, {1, 2}}
BothOnly    == {{1, 2}}
NoJunk      == {}
Junk        == {0, 1, 2}

=============================================================================
