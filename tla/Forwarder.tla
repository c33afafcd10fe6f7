------------------------------ MODULE Forwarder ------------------------------
(***************************************************************************)
(* The forwarder under test, as the suite takes it to be: a program that   *)
(* is not part of the repository, configured by the routes scripts/setup.sh*)
(* adds.  An Interest is forwarded along the routes of its prefix and      *)
(* remembered in the pending Interest table; a Content Object or Manifest  *)
(* that answers a remembered Interest is returned to everybody who asked.  *)
(*                                                                         *)
(* fault names what a faulty forwarder does differently; "none" is correct.*)
(* An entry is kept for its lifetime and Grace milliseconds more.          *)
(***************************************************************************)
EXTENDS PacketUtility, FiniteSets

CONSTANT Grace

ASSUME ForwarderAssumption == Grace \in Nat

\* The routes of scripts/setup.sh, link by number.
Routes == [ a |-> {1}, b |-> {2}, c |-> {3},
            ab |-> {1, 2}, ac |-> {1, 3}, bc |-> {2, 3}, abc |-> {1, 2, 3} ]

Faults == {"none", "hopLimitKept", "hopLimitCleared", "returnedToSender", "firstRouteOnly",
           "nothingAggregated", "retransmissionDropped", "entryKept", "anyLinkMayAnswer",
           "hashIgnored", "keyIdIgnored", "nameIgnored", "namelessRefused", "firstAskerOnly",
           "manifestsDropped", "contentCopiedToEveryLink"}

\* An entry of the pending Interest table.
Entry == [name : Name, keyId : KeyId, hash : Hash, lifetime : Lifetime, age : Nat,
          ingress : SUBSET (1..3), egress : SUBSET (1..3)]

Alive(entry) == entry.age < entry.lifetime + Grace

\* The table after some milliseconds more.
Aged(pit, elapsed) ==
    LET older == {[e EXCEPT !.age = @ + elapsed] : e \in pit}
    IN  {e \in older : Alive(e)}

SameInterest(e, p) == e.name = p.name /\ e.keyId = p.keyId /\ e.hash = p.hash

NextHop(fault, p) ==
    CASE fault = "hopLimitKept"    -> p
      [] fault = "hopLimitCleared" -> [p EXCEPT !.hopLimit = 0]
      [] OTHER                     -> Forwarded(p)

Lowest(links) == {CHOOSE l \in links : \A m \in links : l <= m}

\* The links an Interest from link l goes to.
NextHops(fault, prefix, l) ==
    LET hops == IF fault = "returnedToSender" THEN Routes[prefix] \cup {l}
                                              ELSE Routes[prefix] \ {l}
    IN  IF fault = "firstRouteOnly" /\ Routes[prefix] # {} THEN Lowest(Routes[prefix]) ELSE hops

\* Does packet p answer entry e?  A nameless object answers by its hash.
Answers(fault, e, p, nameless) ==
    /\ \/ p.name = e.name
       \/ p.name = nameless /\ fault # "namelessRefused"
                            /\ (e.hash # "none" \/ fault = "nameIgnored")
    /\ e.hash \in {"none", p.hash} \/ fault = "hashIgnored"
    /\ e.keyId \in {"none", p.keyId} \/ fault = "keyIdIgnored"

\* What the forwarder does with a packet: the packets it emits, as pairs <<link, packet>>, and its table.
OnInterest(fault, pit, l, p, prefix) ==
    LET known == {e \in pit : SameInterest(e, p)}
        hops  == NextHops(fault, prefix, l)
        fresh == [name |-> p.name, keyId |-> p.keyId, hash |-> p.hash, lifetime |-> p.lifetime,
                  age |-> 0, ingress |-> {l}, egress |-> hops]
        again == {e \in known : l \in e.ingress}
        emit  == {<<m, NextHop(fault, p)>> : m \in hops}
    IN  IF known = {} \/ fault = "nothingAggregated"
        THEN [emits |-> emit,
              pit   |-> (pit \ known)
                            \cup {[fresh EXCEPT !.ingress = @ \cup UNION {e.ingress : e \in known}]}]
        ELSE [emits |-> IF again # {} /\ fault # "retransmissionDropped" THEN emit ELSE {},
              pit   |-> (pit \ known) \cup {[e EXCEPT !.ingress = @ \cup {l}] : e \in known}]

OnAnswer(fault, pit, l, p, nameless) ==
    LET matched == {e \in pit : /\ Answers(fault, e, p, nameless)
                                /\ l \in e.egress \/ fault = "anyLinkMayAnswer"}
        askers  == UNION {e.ingress : e \in matched}
        copies  == CASE fault = "firstAskerOnly"           -> Lowest(askers)
                     [] fault = "contentCopiedToEveryLink" -> {1, 2, 3} \ {l}
                     [] fault = "manifestsDropped"         -> IF p.type = "manifest" THEN {} ELSE askers
                     [] OTHER                              -> askers
    IN  [emits |-> IF askers = {} THEN {} ELSE {<<m, p>> : m \in copies},
         pit   |-> IF fault = "entryKept" THEN pit ELSE pit \ matched]

=============================================================================
