------------------------------ MODULE LinkProofs ------------------------------
(***************************************************************************)
(* Proofs about Link, for every program that uses links, any number of     *)
(* descriptors and peers, and every call that may fail.                    *)
(***************************************************************************)
EXTENDS Link, SequenceTheorems, TLAPS

LinkType == [status : {"unmade", "null", "open", "closed"}, type : {UDP, TCP},
             socket : Fd \cup {Bad}, target : Fd \cup {Bad}, address : Peer \cup {NoPeer}]

SocketType == [kind : {"closed", "udp", "listening", "stream"}, port : Port,
               queue : Seq(Peer) \cup Seq(Datagram), peer : Peer \cup {NoPeer}]

PeerType == [state : {"away", "connected", "closed", "reset", "gone"}, port : Nat,
             stream : Seq(Part), wire : Seq(Part), written : 0..Writes]

\* What a socket queues: connections if it listens, otherwise datagrams.
QueueTyped(s) ==
    IF s.kind = "listening" THEN s.queue \in Seq(Peer) /\ Len(s.queue) <= MaxConnections
                            ELSE s.queue \in Seq(Datagram) /\ Len(s.queue) <= QueueLimit

SocketsTyped == sock \in [Fd -> SocketType] /\ \A d \in Fd : QueueTyped(sock[d])

PeersTyped == peer \in [Peer -> PeerType] /\ \A c \in Peer : Len(peer[c].stream) <= QueueLimit

LinksTyped == link \in [Handle -> LinkType]

ProgramTyped ==
    /\ pc \in {"idle", "accepting", "down", "strayed"} /\ accepting \in Handle
    /\ returned \in [link : Handle, null : BOOLEAN, parts : Seq(Part)]

Typed == SocketsTyped /\ PeersTyped /\ LinksTyped /\ ProgramTyped

\* A link holds the descriptors it closes.
Holds(h, d) == link[h].socket = d \/ link[h].target = d

\* A descriptor is open if and only if an open link holds it, and no two do.
Owned == \A d \in Fd : sock[d].kind # "closed" <=> \E h \in OpenLinks : Holds(h, d)
Apart == \A g, h \in OpenLinks : \A d \in Fd : Holds(g, d) /\ Holds(h, d) => g = h

\* The descriptor a link reads from is of the kind its type says.
KindsMatch ==
    \A h \in OpenLinks :
        /\ link[h].type = UDP => /\ link[h].target = Bad
                                 /\ link[h].socket # Bad => sock[link[h].socket].kind = "udp"
        /\ link[h].type = TCP /\ link[h].target # Bad => sock[link[h].target].kind = "stream"

Matched == pc # "strayed" => Owned /\ Apart /\ KindsMatch

\* A link that waits in accept has the socket that listens and nothing else.
Waiting ==
    pc = "accepting" => /\ accepting \in OpenLinks /\ link[accepting].type = TCP
                        /\ link[accepting].socket \in Fd /\ link[accepting].target = Bad
                        /\ sock[link[accepting].socket].kind = "listening"

LinkInv == Typed /\ Matched /\ Waiting

------------------------------------------------------------------------------
\* A number taken modulo the number of ports is a port.
LEMMA PortsTyped == 0 \in Port /\ \A p \in Nat : p % PortNumbers \in Port
<1>1. PortNumbers \in Nat \ {0}
  BY DEF PortNumbers
<1> QED BY <1>1 DEF Port

\* The fields of a socket.
LEMMA SocketFields == \A s \in SocketType : s.peer \in Peer \cup {NoPeer} /\ s.port \in Port
BY DEF SocketType

\* The parts of a packet, and what a buffer takes of a stream and leaves.
LEMMA Numbers == /\ Parts \in Nat \ {0} /\ MTU \in Nat \ {0} /\ MaxConnections \in Nat
                 /\ MaxFd \in Nat /\ QueueLimit \in Nat /\ Writes \in Nat /\ Ports \subseteq Nat
                 /\ Bad \notin Fd /\ NoPeer \notin Peer /\ UDP # TCP
BY LinkAssumption DEF Bad, Fd, UDP, TCP

LEMMA PartsTyped == \A k \in 1..Writes : PartsOf(k) \in Seq(Part)
BY Numbers DEF PartsOf, Part

LEMMA BufferTyped ==
    ASSUME NEW s \in Seq(Part)
    PROVE  /\ FirstParts(s) \in Seq(Part) /\ LaterParts(s) \in Seq(Part)
           /\ Len(LaterParts(s)) <= Len(s)
<1>1. Len(s) \in Nat /\ MTU \in Nat /\ MTU >= 1
  BY Numbers
<1>2. FirstParts(s) \in Seq(Part)
  BY <1>1 DEF FirstParts
<1>3. LaterParts(s) \in Seq(Part) /\ Len(LaterParts(s)) <= Len(s)
  BY <1>1 DEF LaterParts
<1> QED BY <1>2, <1>3

\* Steps that change no descriptor keep the descriptors matched.
LEMMA SameDescriptors ==
    ASSUME LinkInv,
           \A h \in Handle : /\ link'[h].status = link[h].status /\ link'[h].type = link[h].type
                             /\ link'[h].socket = link[h].socket /\ link'[h].target = link[h].target,
           \A d \in Fd : sock'[d].kind = sock[d].kind,
           pc' \in {pc, "down"}, pc = "strayed" => pc' = "strayed", accepting' = accepting
    PROVE  Matched' /\ Waiting'
<1>1. OpenLinks' = OpenLinks
  BY DEF OpenLinks
<1>2. OpenLinks \subseteq Handle
  BY DEF OpenLinks
<1>3. ASSUME pc' # "strayed" PROVE Owned' /\ Apart' /\ KindsMatch'
  <2>1. Owned /\ Apart /\ KindsMatch
    BY <1>3 DEF LinkInv, Matched
  <2>2. \A h \in OpenLinks, d \in Fd : Holds(h, d)' <=> Holds(h, d)
    BY <1>2 DEF Holds
  <2>3. Owned' /\ Apart'
    BY <1>1, <2>1, <2>2 DEF Owned, Apart
  <2>4. KindsMatch'
    <3> SUFFICES ASSUME NEW h \in OpenLinks
                 PROVE  /\ link'[h].type = UDP =>
                              /\ link'[h].target = Bad
                              /\ link'[h].socket # Bad => sock'[link'[h].socket].kind = "udp"
                        /\ link'[h].type = TCP /\ link'[h].target # Bad =>
                              sock'[link'[h].target].kind = "stream"
      BY <1>1 DEF KindsMatch
    <3>1. h \in Handle /\ link[h].socket \in Fd \cup {Bad} /\ link[h].target \in Fd \cup {Bad}
      BY <1>2 DEF LinkInv, Typed, LinksTyped, LinkType
    <3> QED BY <2>1, <3>1 DEF KindsMatch
  <2> QED BY <2>3, <2>4
<1>4. Waiting'
  BY <1>1, <1>2 DEF LinkInv, Waiting
<1> QED BY <1>3, <1>4 DEF Matched

\* A socket that is made: its type, and the descriptors.
LEMMA MadeTyped ==
    ASSUME LinkInv, NEW d \in Fd, NEW s \in SocketType, s.queue = <<>>,
           sock' = [sock EXCEPT ![d] = s]
    PROVE  SocketsTyped'
<1>1. QueueTyped(s)
  BY Numbers DEF QueueTyped
<1> QED BY <1>1 DEF LinkInv, Typed, SocketsTyped

\* A link that is made over a descriptor the kernel hands out, or over none.
LEMMA CallMatches ==
    ASSUME LinkInv, NEW h \in Handle, NEW new \in LinkType, Call(h, new), new.status = "open",
           new.type = UDP => new.target = Bad, pc' # "strayed",
           \/ sock' = sock /\ new.socket = Bad /\ new.target = Bad
           \/ \E d \in Fd, s \in SocketType :
                 /\ NextFd(d) /\ sock' = [sock EXCEPT ![d] = s] /\ s.kind # "closed"
                 /\ new.socket = d /\ new.target \in {Bad, d}
                 /\ new.type = UDP => s.kind = "udp"
                 /\ new.type = TCP /\ new.target = d => s.kind = "stream"
    PROVE  Matched'
<1>1. /\ pc = "idle" /\ h \notin OpenLinks /\ link' = [link EXCEPT ![h] = new]
      /\ link \in [Handle -> LinkType] /\ OpenLinks \subseteq Handle
  BY DEF Call, OpenLinks, Unmade, LinkInv, Typed, LinksTyped
<1>2. OpenLinks' = OpenLinks \cup {h} /\ link'[h] = new /\ \A g \in OpenLinks : link'[g] = link[g]
  BY <1>1 DEF OpenLinks
<1>3. Owned /\ Apart /\ KindsMatch
  BY <1>1 DEF LinkInv, Matched
<1>4. \A g \in OpenLinks : /\ link[g].socket \in Fd \cup {Bad} /\ link[g].target \in Fd \cup {Bad}
                           /\ \A e \in Fd : Holds(g, e)' <=> Holds(g, e)
  BY <1>1, <1>2 DEF Holds, LinkType
<1>5. CASE sock' = sock /\ new.socket = Bad /\ new.target = Bad
  <2>1. \A e \in Fd : ~Holds(h, e)'
    BY <1>2, <1>5, Numbers DEF Holds
  <2>2. Owned'
    BY <1>2, <1>3, <1>4, <1>5, <2>1 DEF Owned
  <2>3. Apart'
    BY <1>2, <1>3, <1>4, <2>1 DEF Apart
  <2>4. KindsMatch'
    BY <1>2, <1>3, <1>5 DEF KindsMatch
  <2> QED BY <2>2, <2>3, <2>4 DEF Matched
<1>6. ASSUME NEW d \in Fd, NEW s \in SocketType, NextFd(d), sock' = [sock EXCEPT ![d] = s],
             s.kind # "closed", new.socket = d, new.target \in {Bad, d},
             new.type = UDP => s.kind = "udp",
             new.type = TCP /\ new.target = d => s.kind = "stream"
      PROVE  Matched'
  <2>1. /\ sock'[d] = s /\ \A e \in Fd : e # d => sock'[e] = sock[e]
        /\ sock[d].kind = "closed"
    BY <1>6 DEF LinkInv, Typed, SocketsTyped, NextFd
  <2>2. \A g \in OpenLinks : ~Holds(g, d)
    BY <1>3, <2>1 DEF Owned
  <2>3. \A e \in Fd : Holds(h, e)' <=> e = d
    BY <1>2, <1>6, Numbers DEF Holds
  <2>4. Owned'
    <3> SUFFICES ASSUME NEW e \in Fd
                 PROVE  sock'[e].kind # "closed" <=> \E g \in OpenLinks \cup {h} : Holds(g, e)'
      BY <1>2 DEF Owned
    <3>1. CASE e = d
      BY <1>6, <2>1, <2>3, <3>1
    <3>2. CASE e # d
      BY <1>3, <1>4, <2>1, <2>3, <3>2 DEF Owned
    <3> QED BY <3>1, <3>2
  <2>5. Apart'
    BY <1>2, <1>3, <1>4, <2>2, <2>3 DEF Apart
  <2>6. KindsMatch'
    <3>1. /\ link'[h].type = UDP => /\ link'[h].target = Bad
                                    /\ sock'[link'[h].socket].kind = "udp"
          /\ link'[h].type = TCP /\ link'[h].target # Bad => sock'[link'[h].target].kind = "stream"
      BY <1>2, <1>6, <2>1
    <3>2. ASSUME NEW g \in OpenLinks
          PROVE  /\ link[g].type = UDP => /\ link[g].target = Bad
                                          /\ link[g].socket # Bad => sock'[link[g].socket].kind = "udp"
                 /\ link[g].type = TCP /\ link[g].target # Bad => sock'[link[g].target].kind = "stream"
      <4>1. link[g].socket # d /\ link[g].target # d
        BY <2>2 DEF Holds
      <4> QED BY <1>3, <1>4, <2>1, <4>1 DEF KindsMatch
    <3> QED BY <1>2, <3>1, <3>2 DEF KindsMatch
  <2> QED BY <2>4, <2>5, <2>6 DEF Matched
<1> QED BY <1>5, <1>6

\* The four ways a link comes about: over no descriptor, over one, and the two types.
LEMMA FailsInv ==
    ASSUME LinkInv, NEW h \in Handle, NEW type \in {UDP, TCP}, SocketFails(h, type)
    PROVE  LinkInv'
<1>1. /\ NewLink(type) \in LinkType /\ NewLink(type).status = "open"
      /\ NewLink(type).socket = Bad /\ NewLink(type).target = Bad
  BY DEF NewLink, Unmade, LinkType
<1>2. Call(h, NewLink(type)) /\ UNCHANGED <<sock, peer, pc, accepting, returned>> /\ pc = "idle"
  BY DEF SocketFails, Call
<1>3. Matched'
  BY <1>1, <1>2, CallMatches
<1>4. LinksTyped'
  BY <1>1, <1>2 DEF LinkInv, Typed, LinksTyped, Call
<1>5. Typed' /\ Waiting'
  BY <1>2, <1>4 DEF LinkInv, Typed, SocketsTyped, PeersTyped, ProgramTyped, Waiting
<1> QED BY <1>3, <1>5 DEF LinkInv

LEMMA MadeInv ==
    ASSUME LinkInv, NEW h \in Handle, NEW d \in Fd, NextFd(d), NEW s \in SocketType,
           NEW new \in LinkType, Call(h, new), new.status = "open", new.socket = d,
           new.target \in {Bad, d}, sock' = [sock EXCEPT ![d] = s],
           s.queue = <<>>, s.kind # "closed",
           new.type = UDP => s.kind = "udp" /\ new.target = Bad,
           new.type = TCP /\ new.target = d => s.kind = "stream",
           \/ pc' = "idle" /\ accepting' = accepting
           \/ /\ pc' = "accepting" /\ accepting' = h
              /\ new.type = TCP /\ new.target = Bad /\ s.kind = "listening",
           PeersTyped', returned' = returned
    PROVE  LinkInv'
<1>1. Matched'
  BY CallMatches
<1>2. LinksTyped' /\ ProgramTyped'
  BY DEF LinkInv, Typed, LinksTyped, ProgramTyped, Call
<1>3. SocketsTyped'
  BY MadeTyped
<1>4. Waiting'
  <2>1. link'[h] = new /\ sock'[d] = s
    BY DEF Call, LinkInv, Typed, LinksTyped, SocketsTyped
  <2> QED BY <2>1 DEF Waiting, OpenLinks
<1> QED BY <1>1, <1>2, <1>3, <1>4 DEF LinkInv, Typed

\* What socket and bind give.
LEMMA BoundSocket ==
    /\ \A kind \in {"udp", "listening"}, port \in Nat : \A p \in Binds(kind, port) :
          /\ [ClosedSocket EXCEPT !.kind = kind, !.port = p] \in SocketType
          /\ [ClosedSocket EXCEPT !.kind = kind, !.port = p].queue = <<>>
          /\ [ClosedSocket EXCEPT !.kind = kind, !.port = p].kind = kind
    /\ \A c \in Peer \cup {NoPeer} :
          /\ [ClosedSocket EXCEPT !.kind = "stream", !.peer = c] \in SocketType
          /\ [ClosedSocket EXCEPT !.kind = "stream", !.peer = c].queue = <<>>
          /\ [ClosedSocket EXCEPT !.kind = "stream", !.peer = c].kind = "stream"
    /\ /\ [ClosedSocket EXCEPT !.kind = "udp"] \in SocketType
       /\ [ClosedSocket EXCEPT !.kind = "udp"].queue = <<>>
       /\ [ClosedSocket EXCEPT !.kind = "udp"].kind = "udp"
<1>1. ASSUME NEW kind, NEW port \in Nat, NEW p \in Binds(kind, port) PROVE p \in Port
  <2>1. p \in {port % PortNumbers, 0}
    BY DEF Binds
  <2> QED BY <2>1, PortsTyped
<1>2. ClosedSocket = [kind |-> "closed", port |-> 0, queue |-> <<>>, peer |-> NoPeer]
      /\ <<>> \in Seq(Peer) /\ 0 \in Port
  BY PortsTyped DEF ClosedSocket
<1>3. ASSUME NEW kind \in {"udp", "listening"}, NEW p \in Port
      PROVE  /\ [ClosedSocket EXCEPT !.kind = kind, !.port = p] \in SocketType
             /\ [ClosedSocket EXCEPT !.kind = kind, !.port = p].queue = <<>>
             /\ [ClosedSocket EXCEPT !.kind = kind, !.port = p].kind = kind
  BY <1>2 DEF SocketType
<1>4. ASSUME NEW c \in Peer \cup {NoPeer}
      PROVE  /\ [ClosedSocket EXCEPT !.kind = "stream", !.peer = c] \in SocketType
             /\ [ClosedSocket EXCEPT !.kind = "stream", !.peer = c].queue = <<>>
             /\ [ClosedSocket EXCEPT !.kind = "stream", !.peer = c].kind = "stream"
  BY <1>2 DEF SocketType
<1>5. /\ [ClosedSocket EXCEPT !.kind = "udp"] \in SocketType
      /\ [ClosedSocket EXCEPT !.kind = "udp"].queue = <<>>
      /\ [ClosedSocket EXCEPT !.kind = "udp"].kind = "udp"
  BY <1>2 DEF SocketType
<1> QED BY <1>1, <1>3, <1>4, <1>5

\* A call with a type that is none makes no link.
LEMMA NullInv ==
    ASSUME LinkInv, NEW h \in Handle, Call(h, Null), UNCHANGED <<sock, peer, pc, accepting, returned>>
    PROVE  LinkInv'
<1>1. /\ pc = "idle" /\ link' = [link EXCEPT ![h] = Null] /\ h \notin OpenLinks
      /\ Null \in LinkType /\ Null.status = "null"
      /\ link \in [Handle -> LinkType]
  BY DEF Call, OpenLinks, Unmade, Null, LinkType, LinkInv, Typed, LinksTyped
<1>2. OpenLinks' = OpenLinks /\ \A g \in OpenLinks : link'[g] = link[g]
  BY <1>1 DEF OpenLinks
<1>3. LinksTyped'
  BY <1>1 DEF LinksTyped
<1>4. Typed' /\ Waiting'
  BY <1>1, <1>3 DEF LinkInv, Typed, SocketsTyped, PeersTyped, ProgramTyped, Waiting
<1>5. Matched'
  <2>1. \A g \in OpenLinks, d \in Fd : Holds(g, d)' <=> Holds(g, d)
    BY <1>2 DEF Holds
  <2> QED BY <1>1, <1>2, <2>1 DEF LinkInv, Matched, Owned, Apart, KindsMatch
<1> QED BY <1>4, <1>5 DEF LinkInv

LEMMA ListenInv ==
    ASSUME LinkInv, NEW h \in Handle, NEW type, NEW port \in Nat, Listen(h, type, port)
    PROVE  LinkInv'
<1>1. CASE type = UDP
  <2>1. ListenUDP(h, port)
    BY <1>1, Numbers DEF Listen
  <2>2. CASE SocketFails(h, UDP)
    BY <2>2, FailsInv
  <2>3. ASSUME NEW d \in Fd, NEW p \in Binds("udp", port), NextFd(d),
               Call(h, [NewLink(UDP) EXCEPT !.socket = d]),
               sock' = [sock EXCEPT ![d] = [ClosedSocket EXCEPT !.kind = "udp", !.port = p]],
               UNCHANGED <<peer, pc, accepting, returned>>
        PROVE  LinkInv'
    <3> DEFINE new == [NewLink(UDP) EXCEPT !.socket = d]
               s == [ClosedSocket EXCEPT !.kind = "udp", !.port = p]
    <3>1. /\ new \in LinkType /\ new.status = "open" /\ new.socket = d /\ new.target = Bad
          /\ new.type = UDP
      BY DEF NewLink, Unmade, LinkType
    <3>2. s \in SocketType /\ s.queue = <<>> /\ s.kind = "udp"
      BY BoundSocket
    <3>3. pc' = "idle" /\ PeersTyped'
      BY <2>3 DEF Call, LinkInv, Typed, PeersTyped
    <3> HIDE DEF new, s
    <3>4. Call(h, new) /\ sock' = [sock EXCEPT ![d] = s]
      BY <2>3 DEF new, s
    <3> QED BY <2>3, <3>1, <3>2, <3>3, <3>4, MadeInv, Numbers
  <2> QED BY <2>1, <2>2, <2>3 DEF ListenUDP
<1>2. CASE type = TCP
  <2>1. ListenTCP(h, port)
    BY <1>2, Numbers DEF Listen
  <2>2. CASE SocketFails(h, TCP)
    BY <2>2, FailsInv
  <2>3. ASSUME NEW d \in Fd, NEW p \in Binds("listening", port), NextFd(d),
               Call(h, [NewLink(TCP) EXCEPT !.socket = d]),
               sock' = [sock EXCEPT ![d] = [ClosedSocket EXCEPT !.kind = "listening", !.port = p]],
               pc' = "accepting", accepting' = h, UNCHANGED <<peer, returned>>
        PROVE  LinkInv'
    <3> DEFINE new == [NewLink(TCP) EXCEPT !.socket = d]
               s == [ClosedSocket EXCEPT !.kind = "listening", !.port = p]
    <3>1. /\ new \in LinkType /\ new.status = "open" /\ new.socket = d /\ new.target = Bad
          /\ new.type = TCP
      BY DEF NewLink, Unmade, LinkType
    <3>2. s \in SocketType /\ s.queue = <<>> /\ s.kind = "listening"
      BY BoundSocket
    <3>3. PeersTyped'
      BY <2>3 DEF LinkInv, Typed, PeersTyped
    <3> HIDE DEF new, s
    <3>4. Call(h, new) /\ sock' = [sock EXCEPT ![d] = s]
      BY <2>3 DEF new, s
    <3>5. d # Bad
      BY Numbers
    <3> QED BY <2>3, <3>1, <3>2, <3>3, <3>4, <3>5, MadeInv, Numbers
  <2> QED BY <2>1, <2>2, <2>3 DEF ListenTCP
<1>3. CASE type \notin {UDP, TCP}
  <2>1. Call(h, Null) /\ UNCHANGED <<sock, peer, pc, accepting, returned>>
    BY <1>3 DEF Listen
  <2> QED BY <2>1, NullInv
<1> QED BY <1>1, <1>2, <1>3

LEMMA ConnectInv ==
    ASSUME LinkInv, NEW h \in Handle, NEW type, NEW c \in Peer, Connect(h, type, c)
    PROVE  LinkInv'
<1>1. CASE type = UDP
  <2>1. ConnectUDP(h, c)
    BY <1>1, Numbers DEF Connect
  <2>2. CASE SocketFails(h, UDP)
    BY <2>2, FailsInv
  <2>3. ASSUME NEW d \in Fd, NextFd(d),
               Call(h, [NewLink(UDP) EXCEPT !.socket = d, !.address = c]),
               sock' = [sock EXCEPT ![d] = [ClosedSocket EXCEPT !.kind = "udp"]],
               UNCHANGED <<peer, pc, accepting, returned>>
        PROVE  LinkInv'
    <3> DEFINE new == [NewLink(UDP) EXCEPT !.socket = d, !.address = c]
               s == [ClosedSocket EXCEPT !.kind = "udp"]
    <3>1. /\ new \in LinkType /\ new.status = "open" /\ new.socket = d /\ new.target = Bad
          /\ new.type = UDP
      BY DEF NewLink, Unmade, LinkType
    <3>2. s \in SocketType /\ s.queue = <<>> /\ s.kind = "udp"
      BY BoundSocket
    <3>3. pc' = "idle" /\ PeersTyped'
      BY <2>3 DEF Call, LinkInv, Typed, PeersTyped
    <3> HIDE DEF new, s
    <3>4. Call(h, new) /\ sock' = [sock EXCEPT ![d] = s]
      BY <2>3 DEF new, s
    <3> QED BY <2>3, <3>1, <3>2, <3>3, <3>4, MadeInv, Numbers
  <2> QED BY <2>1, <2>2, <2>3 DEF ConnectUDP
<1>2. CASE type = TCP
  <2>1. ConnectTCP(h, c)
    BY <1>2, Numbers DEF Connect
  <2>2. CASE SocketFails(h, TCP)
    BY <2>2, FailsInv
  <2>3. ASSUME NEW d \in Fd, NEW up \in BOOLEAN, NextFd(d),
               Call(h, [NewLink(TCP) EXCEPT !.socket = d, !.target = d]),
               sock' = [sock EXCEPT ![d] = [ClosedSocket EXCEPT !.kind = "stream",
                                                                !.peer = IF up THEN c ELSE NoPeer]],
               peer' = IF up THEN [peer EXCEPT ![c].state = "connected"] ELSE peer,
               UNCHANGED <<pc, accepting, returned>>
        PROVE  LinkInv'
    <3> DEFINE new == [NewLink(TCP) EXCEPT !.socket = d, !.target = d]
               s == [ClosedSocket EXCEPT !.kind = "stream", !.peer = IF up THEN c ELSE NoPeer]
    <3>1. /\ new \in LinkType /\ new.status = "open" /\ new.socket = d /\ new.target = d
          /\ new.type = TCP
      BY DEF NewLink, Unmade, LinkType
    <3>2. s \in SocketType /\ s.queue = <<>> /\ s.kind = "stream"
      BY BoundSocket
    <3>3. pc' = "idle" /\ PeersTyped'
      BY <2>3 DEF Call, LinkInv, Typed, PeersTyped, PeerType
    <3> HIDE DEF new, s
    <3>4. Call(h, new) /\ sock' = [sock EXCEPT ![d] = s]
      BY <2>3 DEF new, s
    <3> QED BY <2>3, <3>1, <3>2, <3>3, <3>4, MadeInv, Numbers
  <2> QED BY <2>1, <2>2, <2>3 DEF ConnectTCP
<1>3. CASE type \notin {UDP, TCP}
  <2>1. Call(h, Null) /\ UNCHANGED <<sock, peer, pc, accepting, returned>>
    BY <1>3 DEF Connect
  <2> QED BY <2>1, NullInv
<1> QED BY <1>1, <1>2, <1>3

\* What accept returns becomes the target of the link that waited for it.
LEMMA AcceptInv == LinkInv /\ Accept => LinkInv'
<1> SUFFICES ASSUME LinkInv, Accept PROVE LinkInv'
  OBVIOUS
<1> DEFINE a == accepting
           s == link[a].socket
<1>1. /\ pc = "accepting" /\ pc' = "idle" /\ UNCHANGED <<peer, accepting, returned>>
      /\ a \in OpenLinks /\ a \in Handle /\ link[a].type = TCP /\ s \in Fd /\ link[a].target = Bad
      /\ sock[s].kind = "listening"
  BY DEF Accept, LinkInv, Waiting, OpenLinks
<1>2. PICK d \in Fd :
          /\ NextFd(d) /\ sock[s].queue # <<>>
          /\ sock' = [sock EXCEPT ![s].queue = Tail(@),
                                  ![d] = [ClosedSocket EXCEPT !.kind = "stream",
                                                              !.peer = Head(sock[s].queue)]]
          /\ link' = [link EXCEPT ![a].target = d]
  BY DEF Accept
<1> DEFINE new == [ClosedSocket EXCEPT !.kind = "stream", !.peer = Head(sock[s].queue)]
<1>3. /\ sock \in [Fd -> SocketType] /\ sock[s] \in SocketType /\ sock[d].kind = "closed" /\ s # d
      /\ link \in [Handle -> LinkType] /\ d # Bad /\ QueueTyped(sock[s])
      /\ \A e \in Fd : QueueTyped(sock[e])
  BY <1>1, <1>2, Numbers DEF LinkInv, Typed, SocketsTyped, LinksTyped, NextFd
<1>4. /\ sock[s].queue \in Seq(Peer) /\ Head(sock[s].queue) \in Peer
      /\ Tail(sock[s].queue) \in Seq(Peer) /\ Len(Tail(sock[s].queue)) <= MaxConnections
  BY <1>1, <1>2, <1>3, Numbers DEF QueueTyped
<1>5. new \in SocketType /\ new.queue = <<>> /\ new.kind = "stream"
  BY <1>4, BoundSocket
<1> DEFINE rest == [sock[s] EXCEPT !.queue = Tail(sock[s].queue)]
<1>6. rest \in SocketType /\ rest.kind = "listening" /\ QueueTyped(rest)
  BY <1>1, <1>3, <1>4 DEF SocketType, QueueTyped
<1>7. /\ sock'[s] = rest /\ sock'[d] = new /\ DOMAIN sock' = Fd
      /\ \A e \in Fd : e # s /\ e # d => sock'[e] = sock[e]
      /\ sock' = [[sock EXCEPT ![s] = rest] EXCEPT ![d] = new]
  BY <1>1, <1>2, <1>3
<1>8. SocketsTyped'
  <2> HIDE DEF new, rest
  <2>1. QueueTyped(new)
    BY <1>5, Numbers DEF QueueTyped
  <2>2. sock' \in [Fd -> SocketType]
    BY <1>1, <1>3, <1>5, <1>6, <1>7
  <2> QED BY <1>3, <1>6, <1>7, <2>1, <2>2 DEF SocketsTyped
<1>9. /\ link'[a] = [link[a] EXCEPT !.target = d] /\ LinksTyped' /\ OpenLinks' = OpenLinks
      /\ \A g \in Handle : g # a => link'[g] = link[g]
  BY <1>1, <1>2, <1>3 DEF LinksTyped, LinkType, OpenLinks
<1>10. Owned /\ Apart /\ KindsMatch
  BY <1>1 DEF LinkInv, Matched
<1> HIDE DEF new, rest
<1>11. \A e \in Fd : sock'[e].kind # "closed" <=> e = d \/ sock[e].kind # "closed"
  BY <1>1, <1>5, <1>6, <1>7
<1>12. \A g \in OpenLinks, e \in Fd : Holds(g, e)' <=> Holds(g, e) \/ (g = a /\ e = d)
  <2> SUFFICES ASSUME NEW g \in OpenLinks, NEW e \in Fd
               PROVE  Holds(g, e)' <=> Holds(g, e) \/ (g = a /\ e = d)
    OBVIOUS
  <2>1. CASE g = a
    <3>1. link'[a].socket = link[a].socket /\ link'[a].target = d
      BY <1>1, <1>3, <1>9 DEF LinkType
    <3>2. e # Bad
      BY Numbers
    <3> QED BY <1>1, <2>1, <3>1, <3>2 DEF Holds
  <2>2. CASE g # a
    BY <1>9, <2>2 DEF Holds, OpenLinks
  <2> QED BY <2>1, <2>2
<1>13. Owned' /\ Apart'
  <2>1. \A g \in OpenLinks : ~Holds(g, d)
    BY <1>3, <1>10 DEF Owned
  <2>2. Owned'
    BY <1>1, <1>9, <1>10, <1>11, <1>12 DEF Owned
  <2>3. Apart'
    BY <1>9, <1>10, <1>12, <2>1 DEF Apart
  <2> QED BY <2>2, <2>3
<1>14. KindsMatch'
  <2> SUFFICES ASSUME NEW g \in OpenLinks
               PROVE  /\ link'[g].type = UDP =>
                            /\ link'[g].target = Bad
                            /\ link'[g].socket # Bad => sock'[link'[g].socket].kind = "udp"
                      /\ link'[g].type = TCP /\ link'[g].target # Bad =>
                            sock'[link'[g].target].kind = "stream"
    BY <1>9 DEF KindsMatch
  <2>1. CASE g = a
    <3>1. link'[a].type = TCP /\ link'[a].target = d
      BY <1>1, <1>3, <1>9 DEF LinkType
    <3> QED BY <1>5, <1>7, <2>1, <3>1, Numbers
  <2>2. CASE g # a
    <3>1. link'[g] = link[g] /\ link[g] \in LinkType
      BY <1>3, <1>9, <2>2 DEF OpenLinks
    <3>2. link[g].socket \in Fd \cup {Bad} /\ link[g].target \in Fd \cup {Bad}
      BY <3>1 DEF LinkType
    <3>3. \A e \in Fd : sock[e].kind \in {"udp", "stream"} => sock'[e].kind = sock[e].kind
      BY <1>1, <1>3, <1>7
    <3> QED BY <1>10, <3>1, <3>2, <3>3 DEF KindsMatch
  <2> QED BY <2>1, <2>2
<1>15. PeersTyped' /\ ProgramTyped' /\ Waiting'
  BY <1>1 DEF LinkInv, Typed, PeersTyped, ProgramTyped, Waiting
<1> QED BY <1>1, <1>8, <1>9, <1>13, <1>14, <1>15 DEF LinkInv, Typed, Matched

LEMMA AcceptFailsInv == LinkInv /\ AcceptFails => LinkInv'
<1> SUFFICES ASSUME LinkInv, AcceptFails PROVE LinkInv'
  OBVIOUS
<1>1. pc = "accepting" /\ pc' = "idle" /\ UNCHANGED <<link, sock, peer, accepting, returned>>
  BY DEF AcceptFails
<1>2. Matched'
  BY <1>1 DEF LinkInv, Matched, Owned, Apart, KindsMatch, OpenLinks, Holds
<1> QED BY <1>1, <1>2 DEF LinkInv, Typed, SocketsTyped, PeersTyped, LinksTyped, ProgramTyped, Waiting

\* A receive or send that changes neither links nor descriptors.
LEMMA CallInv ==
    ASSUME LinkInv, Typed',
           \A h \in Handle : /\ link'[h].status = link[h].status /\ link'[h].type = link[h].type
                             /\ link'[h].socket = link[h].socket /\ link'[h].target = link[h].target,
           \A d \in Fd : sock'[d].kind = sock[d].kind,
           pc = "idle", pc' = "idle", accepting' = accepting
    PROVE  LinkInv'
BY SameDescriptors DEF LinkInv

\* A call that the program does not survive.
LEMMA KilledInv ==
    ASSUME LinkInv, pc = "idle", pc' = "down", UNCHANGED <<link, sock, peer, accepting, returned>>
    PROVE  LinkInv'
<1>1. Matched' /\ Waiting'
  BY SameDescriptors
<1>2. Typed'
  BY DEF LinkInv, Typed, SocketsTyped, PeersTyped, LinksTyped, ProgramTyped
<1> QED BY <1>1, <1>2 DEF LinkInv

\* A stream that is not a nothing is one of a peer.
LEMMA StreamOfPeer ==
    ASSUME LinkInv, NEW d \in Fd, EndOf(d) # [Away EXCEPT !.state = "refused"]
    PROVE  sock[d].peer \in Peer /\ EndOf(d) = peer[sock[d].peer] /\ EndOf(d) \in PeerType
<1>1. sock[d] \in SocketType /\ peer \in [Peer -> PeerType]
  BY DEF LinkInv, Typed, SocketsTyped, PeersTyped
<1>2. sock[d].peer # NoPeer /\ EndOf(d) = peer[sock[d].peer]
  BY DEF EndOf
<1> QED BY <1>1, <1>2, SocketFields

\* A link that is used holds descriptors of its type.
LEMMA UsedLink ==
    ASSUME LinkInv, NEW h \in Handle, NEW type \in {UDP, TCP}, Using(h, type)
    PROVE  /\ pc = "idle" /\ h \in OpenLinks /\ link[h] \in LinkType
           /\ link[h].socket \in Fd \cup {Bad} /\ link[h].target \in Fd \cup {Bad}
           /\ type = UDP /\ link[h].socket # Bad => sock[link[h].socket].kind = "udp"
           /\ type = TCP /\ link[h].target # Bad => sock[link[h].target].kind = "stream"
<1>1. pc = "idle" /\ h \in OpenLinks /\ link[h].type = type
  BY DEF Using, OpenLinks
<1>2. link[h] \in LinkType
  BY DEF LinkInv, Typed, LinksTyped
<1>3. link[h].socket \in Fd \cup {Bad} /\ link[h].target \in Fd \cup {Bad}
  BY <1>2 DEF LinkType
<1> QED BY <1>1, <1>2, <1>3 DEF LinkInv, Matched, KindsMatch

LEMMA DatagramInv ==
    ASSUME LinkInv, NEW h \in Handle, ReceivesDatagram(h)
    PROVE  LinkInv'
<1> DEFINE d == link[h].socket
<1>1. Using(h, UDP) /\ Readable(d) /\ UNCHANGED <<peer, pc, accepting>>
  BY DEF ReceivesDatagram
<1>2. d \in Fd /\ sock[d].kind = "udp" /\ sock[d].queue # <<>> /\ pc = "idle" /\ link[h] \in LinkType
  BY <1>1, UsedLink DEF Readable
<1>3. /\ sock \in [Fd -> SocketType] /\ sock[d] \in SocketType /\ \A e \in Fd : QueueTyped(sock[e])
      /\ link \in [Handle -> LinkType]
  BY <1>2 DEF LinkInv, Typed, SocketsTyped, LinksTyped
<1>4. /\ sock[d].queue \in Seq(Datagram) /\ Head(sock[d].queue) \in Datagram
      /\ Tail(sock[d].queue) \in Seq(Datagram) /\ Len(Tail(sock[d].queue)) <= QueueLimit
  BY <1>2, <1>3, Numbers DEF QueueTyped
<1> DEFINE rest == [sock[d] EXCEPT !.queue = Tail(sock[d].queue)]
           first == Head(sock[d].queue)
           sender == [link[h] EXCEPT !.address = first.from]
<1>5. rest \in SocketType /\ rest.kind = "udp" /\ QueueTyped(rest)
  BY <1>2, <1>3, <1>4 DEF SocketType, QueueTyped
<1>6. /\ sender \in LinkType /\ sender.status = link[h].status /\ sender.type = link[h].type
      /\ sender.socket = link[h].socket /\ sender.target = link[h].target
  BY <1>2, <1>4 DEF LinkType, Datagram
<1>7. /\ sock' = [sock EXCEPT ![d] = rest] /\ link' = [link EXCEPT ![h] = sender]
      /\ returned' = [link |-> h, null |-> FALSE, parts |-> FirstParts(PartsOf(first.packet))]
  BY DEF ReceivesDatagram, ReturnsBuffer
<1>8. FirstParts(PartsOf(first.packet)) \in Seq(Part)
  BY <1>4, PartsTyped, BufferTyped DEF Datagram
<1> HIDE DEF rest, sender, first
<1>9. SocketsTyped' /\ LinksTyped' /\ PeersTyped' /\ ProgramTyped'
  BY <1>1, <1>2, <1>3, <1>5, <1>6, <1>7, <1>8
     DEF SocketsTyped, LinksTyped, PeersTyped, ProgramTyped, LinkInv, Typed
<1>10. \A g \in Handle : /\ link'[g].status = link[g].status /\ link'[g].type = link[g].type
                         /\ link'[g].socket = link[g].socket /\ link'[g].target = link[g].target
  BY <1>3, <1>6, <1>7
<1>11. \A e \in Fd : sock'[e].kind = sock[e].kind
  BY <1>2, <1>3, <1>5, <1>7
<1> QED BY <1>1, <1>2, <1>9, <1>10, <1>11, CallInv DEF Typed

LEMMA StreamInv ==
    ASSUME LinkInv, NEW h \in Handle, ReceivesStream(h)
    PROVE  LinkInv'
<1> DEFINE d == link[h].target
           c == sock[d].peer
<1>1. Using(h, TCP) /\ Readable(d) /\ EndOf(d).stream # <<>> /\ UNCHANGED <<link, sock, pc, accepting>>
  BY DEF ReceivesStream
<1>2. d \in Fd /\ pc = "idle"
  BY <1>1, UsedLink DEF Readable
<1>3. c \in Peer /\ EndOf(d) = peer[c] /\ peer[c] \in PeerType
  BY <1>1, <1>2, StreamOfPeer DEF Away
<1>4. peer[c].stream \in Seq(Part)
  BY <1>3 DEF PeerType
<1> DEFINE rest == [peer[c] EXCEPT !.stream = LaterParts(peer[c].stream)]
<1>5. rest \in PeerType /\ rest.stream = LaterParts(peer[c].stream)
  BY <1>3, <1>4, BufferTyped DEF PeerType
<1>6. Len(rest.stream) <= QueueLimit
  <2>1. Len(peer[c].stream) <= QueueLimit
    BY <1>3 DEF LinkInv, Typed, PeersTyped
  <2>2. Len(LaterParts(peer[c].stream)) \in Nat /\ Len(peer[c].stream) \in Nat
    BY <1>4, BufferTyped
  <2> QED BY <1>4, <1>5, <2>1, <2>2, BufferTyped, Numbers
<1>7. /\ peer' = [peer EXCEPT ![c] = rest]
      /\ returned' = [link |-> h, null |-> FALSE, parts |-> FirstParts(peer[c].stream)]
  BY <1>3 DEF ReceivesStream, ReturnsBuffer
<1> HIDE DEF rest
<1>8. PeersTyped'
  BY <1>3, <1>5, <1>6, <1>7 DEF LinkInv, Typed, PeersTyped
<1>9. Typed'
  BY <1>1, <1>4, <1>7, <1>8, BufferTyped DEF LinkInv, Typed, SocketsTyped, LinksTyped, ProgramTyped
<1> QED BY <1>1, <1>2, <1>9, CallInv

\* The receives that return nothing, and those that do not return.
LEMMA ReceiveInv ==
    ASSUME LinkInv, NEW h \in Handle, ReceiveWithTimeout(h)
    PROVE  LinkInv'
<1>1. ASSUME UNCHANGED <<link, sock, peer, pc, accepting>>, pc = "idle",
             returned' \in [link : Handle, null : BOOLEAN, parts : Seq(Part)]
      PROVE  LinkInv'
  <2>1. Typed'
    BY <1>1 DEF LinkInv, Typed, SocketsTyped, PeersTyped, LinksTyped, ProgramTyped
  <2> QED BY <1>1, <2>1, CallInv
<1>2. CASE ReceivesDatagram(h) \/ ReceivesStream(h)
  BY <1>2, DatagramInv, StreamInv
<1>3. CASE ReceivesEnd(h)
  BY <1>1, <1>3 DEF ReceivesEnd, Using, ReturnsBuffer
<1>4. CASE PollFails(h) \/ PollTimesOut(h)
  <2>1. pc = "idle" /\ UNCHANGED <<link, sock, peer, pc, accepting>> /\ ReturnsNull(h)
    BY <1>4 DEF PollFails, PollTimesOut, Using
  <2> QED BY <1>1, <2>1 DEF ReturnsNull
<1>5. CASE ReceiveCrashes(h)
  BY <1>5, KilledInv DEF ReceiveCrashes, Using
<1> QED BY <1>2, <1>3, <1>4, <1>5 DEF ReceiveWithTimeout, Receive, ReceivesBuffer

LEMMA SendInv ==
    ASSUME LinkInv, NEW h \in Handle, Send(h)
    PROVE  LinkInv'
<1>1. CASE SendDatagram(h)
  <2> DEFINE d == link[h].socket
             named == [sock[d] EXCEPT !.peer = link[h].address]
  <2>1. /\ Using(h, UDP) /\ UNCHANGED <<link, peer, pc, accepting, returned>>
        /\ sock' = IF d = Bad THEN sock ELSE [sock EXCEPT ![d] = named]
    BY <1>1 DEF SendDatagram
  <2>2. pc = "idle" /\ d \in Fd \cup {Bad} /\ link[h] \in LinkType
    BY <2>1, UsedLink
  <2>3. sock \in [Fd -> SocketType] /\ \A e \in Fd : QueueTyped(sock[e])
    BY DEF LinkInv, Typed, SocketsTyped
  <2>4. d \in Fd => named \in SocketType /\ named.kind = sock[d].kind /\ QueueTyped(named)
    <3> SUFFICES ASSUME d \in Fd PROVE named \in SocketType /\ named.kind = sock[d].kind /\ QueueTyped(named)
      OBVIOUS
    <3>1. sock[d] \in SocketType /\ QueueTyped(sock[d]) /\ link[h].address \in Peer \cup {NoPeer}
      BY <2>2, <2>3 DEF LinkType
    <3> QED BY <3>1 DEF SocketType, QueueTyped
  <2> HIDE DEF named
  <2>5. SocketsTyped' /\ \A e \in Fd : sock'[e].kind = sock[e].kind
    BY <2>1, <2>2, <2>3, <2>4 DEF SocketsTyped
  <2>6. Typed'
    BY <2>1, <2>5 DEF LinkInv, Typed, PeersTyped, LinksTyped, ProgramTyped
  <2> QED BY <2>1, <2>2, <2>5, <2>6, CallInv
<1>2. CASE SendStream(h)
  <2>1. UNCHANGED linkVars /\ pc = "idle"
    BY <1>2 DEF SendStream, Using
  <2>2. Typed'
    BY <2>1 DEF linkVars, LinkInv, Typed, SocketsTyped, PeersTyped, LinksTyped, ProgramTyped
  <2> QED BY <2>1, <2>2, CallInv DEF linkVars
<1>3. ASSUME NEW q \in {"reset", "gone"}, NEW w \in Seq(Part), Using(h, TCP),
             link[h].target # Bad, EndOf(link[h].target).state \in {"closed", "reset"},
             \/ peer' = [peer EXCEPT ![sock[link[h].target].peer].state = q,
                                     ![sock[link[h].target].peer].wire = w]
             \/ peer' = [peer EXCEPT ![sock[link[h].target].peer].state = q],
             UNCHANGED <<link, sock, pc, accepting, returned>>
      PROVE  LinkInv'
  <2> DEFINE d == link[h].target
             c == sock[d].peer
             told == [peer[c] EXCEPT !.state = q]
             reset == [peer[c] EXCEPT !.state = q, !.wire = w]
  <2>1. pc = "idle" /\ d \in Fd
    BY <1>3, UsedLink
  <2>2. c \in Peer /\ peer[c] \in PeerType
    BY <1>3, <2>1, StreamOfPeer DEF Away
  <2>3. \A p \in {told, reset} : p \in PeerType /\ p.stream = peer[c].stream
    BY <1>3, <2>2 DEF PeerType
  <2>4. PICK p \in {told, reset} : peer' = [peer EXCEPT ![c] = p]
    BY <1>3
  <2> HIDE DEF told, reset
  <2>5. PeersTyped'
    BY <2>2, <2>3, <2>4 DEF LinkInv, Typed, PeersTyped
  <2>6. Typed'
    BY <1>3, <2>5 DEF LinkInv, Typed, SocketsTyped, LinksTyped, ProgramTyped
  <2> QED BY <1>3, <2>1, <2>6, CallInv
<1>4. CASE SendToClosed(h)
  <2> DEFINE q == AfterReset(sock[link[h].target].peer)
  <2>1. q \in {"reset", "gone"} /\ <<>> \in Seq(Part)
    BY DEF AfterReset
  <2>2. /\ Using(h, TCP) /\ link[h].target # Bad /\ EndOf(link[h].target).state \in {"closed", "reset"}
        /\ peer' = [peer EXCEPT ![sock[link[h].target].peer].state = q,
                                ![sock[link[h].target].peer].wire = <<>>]
        /\ UNCHANGED <<link, sock, pc, accepting, returned>>
    BY <1>4 DEF SendToClosed
  <2> HIDE DEF q
  <2> QED BY <1>3, <2>1, <2>2, Zenon
<1>5. CASE SendTakesError(h)
  <2>1. /\ Using(h, TCP) /\ link[h].target # Bad /\ EndOf(link[h].target).state \in {"closed", "reset"}
        /\ peer' = [peer EXCEPT ![sock[link[h].target].peer].state = "gone"]
        /\ UNCHANGED <<link, sock, pc, accepting, returned>>
    BY <1>5 DEF SendTakesError
  <2>2. <<>> \in Seq(Part) /\ "gone" \in {"reset", "gone"}
    OBVIOUS
  <2> QED BY <1>3, <2>1, <2>2, Zenon
<1>6. CASE SendIsKilled(h)
  BY <1>6, KilledInv DEF SendIsKilled, Using
<1> QED BY <1>1, <1>2, <1>4, <1>5, <1>6 DEF Send

\* Closed once, a link takes its descriptors with it; closed again, it takes nothing, unless the
\* program strays.
LEMMA CloseInv ==
    ASSUME LinkInv, NEW h \in Handle, Close(h)
    PROVE  LinkInv'
<1>1. /\ pc = "idle" /\ link \in [Handle -> LinkType] /\ link[h] \in LinkType
      /\ Owned /\ Apart /\ KindsMatch /\ link' = [link EXCEPT ![h].status = "closed"]
      /\ UNCHANGED <<peer, accepting, returned>> /\ link[h].status \in {"open", "closed"}
  BY DEF Close, LinkInv, Matched, Typed, LinksTyped
<1>2. /\ ClosedSocket \in SocketType /\ QueueTyped(ClosedSocket) /\ ClosedSocket.kind = "closed"
  <2>1. ClosedSocket.queue = <<>> /\ ClosedSocket.kind = "closed"
    BY DEF ClosedSocket
  <2>2. ClosedSocket \in SocketType
    BY PortsTyped DEF ClosedSocket, SocketType
  <2> QED BY <2>1, <2>2, Numbers DEF QueueTyped
<1>3. PICK t \in Fd \cup {Bad} :
          /\ link[h].type = UDP \/ t = link[h].target
          /\ sock' = Closing({link[h].socket, t})
          /\ pc' = IF \E d \in {link[h].socket, t} \ Own(h) : IsOpen(d) THEN "strayed" ELSE pc
  BY <1>1 DEF Close, LinkType
<1> DEFINE fds == {link[h].socket, t}
<1>4. \A e \in Fd : sock'[e] = IF e \in fds THEN ClosedSocket ELSE sock[e]
  BY <1>3 DEF Closing
<1>5. SocketsTyped'
  <2>1. sock' \in [Fd -> SocketType]
    BY <1>2, <1>3 DEF Closing, LinkInv, Typed, SocketsTyped
  <2> QED BY <1>2, <1>4, <2>1 DEF LinkInv, Typed, SocketsTyped
<1>6. LinksTyped' /\ PeersTyped' /\ ProgramTyped' /\ Waiting'
  BY <1>1, <1>3 DEF LinksTyped, LinkType, PeersTyped, ProgramTyped, LinkInv, Typed, Waiting
<1>7. /\ link'[h].status = "closed" /\ link'[h].type = link[h].type
      /\ link'[h].socket = link[h].socket /\ link'[h].target = link[h].target
      /\ \A g \in Handle : g # h => link'[g] = link[g]
  BY <1>1 DEF LinkType
<1>8. ASSUME pc' # "strayed", link[h].status = "closed" PROVE Matched'
  <2>1. \A d \in Fd : d \in fds => sock[d].kind = "closed"
    BY <1>3, <1>8, Numbers DEF Own, IsOpen
  <2>2. \A d \in Fd : sock'[d].kind = sock[d].kind
    BY <1>2, <1>4, <2>1
  <2> QED BY <1>1, <1>3, <1>7, <1>8, <2>2, SameDescriptors
<1>9. ASSUME pc' # "strayed", link[h].status = "open" PROVE Matched'
  <2>1. h \in OpenLinks /\ OpenLinks' = OpenLinks \ {h} /\ \A g \in OpenLinks' : link'[g] = link[g]
    BY <1>7, <1>9 DEF OpenLinks
  <2>2. \A e \in Fd : e \in fds => sock[e].kind = "closed" \/ Holds(h, e)
    BY <1>3, <1>9, Numbers DEF Own, IsOpen, Descriptors, Holds
  <2>3. \A e \in Fd : Holds(h, e) => e \in fds
    BY <1>1, <1>3, <2>1, Numbers DEF KindsMatch, Holds, LinkType
  <2>4. \A g \in OpenLinks', e \in Fd : (Holds(g, e)' <=> Holds(g, e)) /\ (Holds(g, e) => ~Holds(h, e))
    BY <1>1, <2>1 DEF Holds, Apart
  <2>5. \A e \in Fd : sock'[e].kind # "closed" <=> sock[e].kind # "closed" /\ ~Holds(h, e)
    BY <1>2, <1>4, <2>2, <2>3
  <2>6. Owned'
    <3> SUFFICES ASSUME NEW e \in Fd
                 PROVE  sock'[e].kind # "closed" <=> \E g \in OpenLinks' : Holds(g, e)'
      BY DEF Owned
    <3>1. sock[e].kind # "closed" <=> \E g \in OpenLinks : Holds(g, e)
      BY <1>1 DEF Owned
    <3>2. (\E g \in OpenLinks' : Holds(g, e)') <=> \E g \in OpenLinks' : Holds(g, e)
      BY <2>4
    <3> QED BY <2>1, <2>4, <2>5, <3>1, <3>2
  <2>7. Apart'
    BY <1>1, <2>1, <2>4 DEF Apart
  <2>8. KindsMatch'
    <3> SUFFICES ASSUME NEW g \in OpenLinks'
                 PROVE  /\ link[g].type = UDP =>
                              /\ link[g].target = Bad
                              /\ link[g].socket # Bad => sock'[link[g].socket].kind = "udp"
                        /\ link[g].type = TCP /\ link[g].target # Bad =>
                              sock'[link[g].target].kind = "stream"
      BY <2>1 DEF KindsMatch
    <3>1. link[g].socket \in Fd \cup {Bad} /\ link[g].target \in Fd \cup {Bad} /\ g \in OpenLinks
      BY <1>1, <2>1 DEF OpenLinks, LinkType
    <3>2. \A e \in Fd : Holds(g, e) => sock'[e] = sock[e]
      BY <1>1, <1>4, <2>2, <2>4, <3>1 DEF Owned
    <3> QED BY <1>1, <3>1, <3>2 DEF KindsMatch, Holds
  <2> QED BY <2>6, <2>7, <2>8 DEF Matched
<1>10. Matched'
  <2>1. pc' = "strayed" => Matched'
    BY DEF Matched
  <2> QED BY <1>1, <1>8, <1>9, <2>1
<1> QED BY <1>5, <1>6, <1>10 DEF LinkInv, Typed

\* A receive or send on a link that is closed changes no descriptor.
LEMMA UseClosedInv ==
    ASSUME LinkInv, NEW h \in Handle, UseClosed(h)
    PROVE  LinkInv'
<1>1. CASE UsesAnothers(h)
  <2>1. pc' = "strayed" /\ UNCHANGED <<link, sock, peer, accepting, returned>>
    BY <1>1 DEF UsesAnothers
  <2> QED BY <2>1 DEF LinkInv, Typed, SocketsTyped, PeersTyped, LinksTyped, ProgramTyped, Matched,
                     Waiting
<1>2. CASE ReceivesFromNothing(h)
  <2>1. /\ pc = "idle" /\ UNCHANGED <<link, sock, peer, accepting>>
        /\ \/ pc' = "down" /\ UNCHANGED returned
           \/ pc' = pc /\ ReturnsNull(h)
    BY <1>2 DEF ReceivesFromNothing, UsingClosed
  <2>2. CASE pc' = "down" /\ UNCHANGED returned
    BY <2>1, <2>2, KilledInv
  <2>3. CASE pc' = pc /\ ReturnsNull(h)
    <3>1. Typed'
      BY <2>1, <2>3 DEF LinkInv, Typed, SocketsTyped, PeersTyped, LinksTyped, ProgramTyped, ReturnsNull
    <3> QED BY <2>1, <2>3, <3>1, CallInv
  <2> QED BY <2>1, <2>2, <2>3
<1> QED BY <1>1, <1>2 DEF UseClosed

------------------------------------------------------------------------------
\* What the kernel and the peers do disturbs no descriptor.
LEMMA WorldKeeps ==
    ASSUME LinkInv, SocketsTyped', PeersTyped', UNCHANGED <<link, pc, accepting, returned>>,
           \A d \in Fd : sock'[d].kind = sock[d].kind
    PROVE  LinkInv'
<1>1. Matched' /\ Waiting'
  BY SameDescriptors
<1> QED BY <1>1 DEF LinkInv, Typed, LinksTyped, ProgramTyped

\* A step of a peer alone.
LEMMA PeerKeeps ==
    ASSUME LinkInv, NEW c \in Peer, NEW p \in PeerType, peer' = [peer EXCEPT ![c] = p],
           Len(p.stream) <= QueueLimit,
           UNCHANGED <<link, sock, pc, accepting, returned>>
    PROVE  LinkInv'
<1>1. PeersTyped' /\ SocketsTyped'
  BY DEF LinkInv, Typed, PeersTyped, SocketsTyped
<1> QED BY <1>1, WorldKeeps

LEMMA WritesInv == ASSUME LinkInv, NEW c \in Peer, PeerWrites(c) PROVE LinkInv'
<1>1. peer[c] \in PeerType /\ Len(peer[c].stream) <= QueueLimit
  BY DEF LinkInv, Typed, PeersTyped
<1>2. peer[c].written + 1 \in 1..Writes
  BY <1>1, Numbers DEF PeerWrites, PeerType
<1>3. peer[c].wire \o PartsOf(peer[c].written + 1) \in Seq(Part)
  <2>1. peer[c].wire \in Seq(Part) /\ PartsOf(peer[c].written + 1) \in Seq(Part)
    BY <1>1, <1>2, PartsTyped DEF PeerType
  <2> QED BY <2>1, ConcatProperties
<1> DEFINE count == peer[c].written + 1
           wire == peer[c].wire \o PartsOf(count)
           p == [peer[c] EXCEPT !.written = count, !.wire = wire]
<1>4. peer' = [peer EXCEPT ![c] = p] /\ UNCHANGED <<link, sock, pc, accepting, returned>>
  BY DEF PeerWrites
<1>5. count \in 0..Writes /\ wire \in Seq(Part)
  BY <1>2, <1>3, Numbers
<1> HIDE DEF count, wire
<1>6. p \in PeerType /\ p.stream = peer[c].stream /\ p.state = peer[c].state
  BY <1>1, <1>5 DEF PeerType
<1> HIDE DEF p
<1> QED BY <1>1, <1>6, <1>4, PeerKeeps

LEMMA ArrivesInv == ASSUME LinkInv, NEW c \in Peer, StreamArrives(c) PROVE LinkInv'
<1>1. peer[c] \in PeerType /\ peer[c].stream \in Seq(Part) /\ peer[c].wire \in Seq(Part)
      /\ peer[c].wire # <<>> /\ Len(peer[c].stream) < QueueLimit /\ QueueLimit \in Nat
  BY Numbers DEF LinkInv, Typed, PeersTyped, PeerType, StreamArrives
<1>2. Head(peer[c].wire) \in Part /\ Tail(peer[c].wire) \in Seq(Part)
  BY <1>1
<1>3. Append(peer[c].stream, Head(peer[c].wire)) \in Seq(Part)
      /\ Len(Append(peer[c].stream, Head(peer[c].wire))) <= QueueLimit
  BY <1>1, <1>2
<1> DEFINE p == [peer[c] EXCEPT !.stream = Append(@, Head(peer[c].wire)), !.wire = Tail(@)]
<1>4. p \in PeerType /\ p.state = peer[c].state /\ Len(p.stream) <= QueueLimit
  BY <1>1, <1>2, <1>3 DEF PeerType
<1>5. peer' = [peer EXCEPT ![c] = p] /\ UNCHANGED <<link, sock, pc, accepting, returned>>
  BY DEF StreamArrives
<1> HIDE DEF p
<1> QED BY <1>4, <1>5, PeerKeeps

LEMMA ClosesInv == ASSUME LinkInv, NEW c \in Peer, PeerCloses(c) PROVE LinkInv'
<1>1. peer[c] \in PeerType /\ Len(peer[c].stream) <= QueueLimit /\ peer[c].state = "connected"
  BY DEF LinkInv, Typed, PeersTyped, PeerCloses
<1> DEFINE p == [peer[c] EXCEPT !.state = "closed"]
<1>2. p \in PeerType /\ p.stream = peer[c].stream
  BY <1>1 DEF PeerType
<1>3. peer' = [peer EXCEPT ![c] = p] /\ UNCHANGED <<link, sock, pc, accepting, returned>>
  BY DEF PeerCloses
<1> HIDE DEF p
<1> QED BY <1>1, <1>2, <1>3, PeerKeeps

LEMMA ResetsInv == ASSUME LinkInv, NEW c \in Peer, PeerResets(c) PROVE LinkInv'
<1>1. peer[c] \in PeerType /\ Len(peer[c].stream) <= QueueLimit
  BY DEF LinkInv, Typed, PeersTyped
<1>2. PICK kept \in {<<>>, peer[c].stream} :
          peer' = [peer EXCEPT ![c].state = AfterReset(c), ![c].wire = <<>>, ![c].stream = kept]
  BY DEF PeerResets
<1> DEFINE p == [peer[c] EXCEPT !.state = AfterReset(c), !.wire = <<>>, !.stream = kept]
<1>3. kept \in Seq(Part) /\ Len(kept) <= QueueLimit
  <2>1. peer[c].stream \in Seq(Part)
    BY <1>1 DEF PeerType
  <2>2. CASE kept = <<>>
    BY <2>2, Numbers
  <2> QED BY <1>1, <2>1, <2>2
<1>4. p \in PeerType /\ p.stream = kept
  <2>1. <<>> \in Seq(Part) /\ AfterReset(c) \in {"reset", "gone"}
    BY DEF AfterReset
  <2> QED BY <1>1, <1>3, <2>1 DEF PeerType
<1>5. peer' = [peer EXCEPT ![c] = p] /\ UNCHANGED <<link, sock, pc, accepting, returned>>
  BY <1>2 DEF PeerResets
<1> HIDE DEF p
<1> QED BY <1>3, <1>4, <1>5, PeerKeeps

\* A socket that something more is queued on.
LEMMA QueueKeeps ==
    ASSUME LinkInv, NEW d \in Fd, NEW s \in SocketType, QueueTyped(s), s.kind = sock[d].kind,
           sock' = [sock EXCEPT ![d] = s], PeersTyped',
           UNCHANGED <<link, pc, accepting, returned>>
    PROVE  LinkInv'
<1>1. SocketsTyped' /\ \A e \in Fd : sock'[e].kind = sock[e].kind
  BY DEF LinkInv, Typed, SocketsTyped
<1> QED BY <1>1, WorldKeeps

LEMMA DatagramArrivesInv ==
    ASSUME LinkInv, NEW c \in Peer, NEW d \in Fd, NEW k \in 1..Writes, DatagramArrives(c, d, k)
    PROVE  LinkInv'
<1>1. /\ sock[d] \in SocketType /\ sock[d].kind = "udp" /\ sock[d].queue \in Seq(Datagram)
      /\ Len(sock[d].queue) < QueueLimit /\ QueueLimit \in Nat
  BY Numbers DEF LinkInv, Typed, SocketsTyped, QueueTyped, DatagramArrives
<1> DEFINE longer == Append(sock[d].queue, [from |-> c, packet |-> k])
           s == [sock[d] EXCEPT !.queue = longer]
<1>2. longer \in Seq(Datagram) /\ Len(longer) <= QueueLimit
  <2>1. [from |-> c, packet |-> k] \in Datagram
    BY DEF Datagram
  <2> QED BY <1>1, <2>1
<1> HIDE DEF longer
<1>3. s \in SocketType /\ s.kind = "udp" /\ s.peer = sock[d].peer /\ s.queue = longer
  BY <1>1, <1>2 DEF SocketType
<1>4. QueueTyped(s)
  BY <1>2, <1>3 DEF QueueTyped
<1>5. sock' = [sock EXCEPT ![d] = s] /\ UNCHANGED <<link, peer, pc, accepting, returned>>
  BY DEF DatagramArrives, longer
<1>6. PeersTyped'
  BY <1>5 DEF LinkInv, Typed, PeersTyped
<1> HIDE DEF s
<1> QED BY <1>1, <1>3, <1>4, <1>5, <1>6, QueueKeeps

LEMMA ConnectsInv ==
    ASSUME LinkInv, NEW c \in Peer, NEW p \in Nat, PeerConnects(c, p)
    PROVE  LinkInv'
<1>1. PICK d \in Fd :
          /\ sock[d].kind = "listening" /\ sock[d].port = p /\ Len(sock[d].queue) < MaxConnections
          /\ sock' = [sock EXCEPT ![d].queue = Append(@, c)]
  BY DEF PeerConnects
<1>2. /\ sock[d] \in SocketType /\ sock[d].queue \in Seq(Peer) /\ MaxConnections \in Nat
  BY <1>1, Numbers DEF LinkInv, Typed, SocketsTyped, QueueTyped
<1> DEFINE longer == Append(sock[d].queue, c)
           s == [sock[d] EXCEPT !.queue = longer]
<1>3. longer \in Seq(Peer) /\ Len(longer) <= MaxConnections
  BY <1>1, <1>2
<1> HIDE DEF longer
<1>4. s \in SocketType /\ s.kind = "listening" /\ s.peer = sock[d].peer /\ s.queue = longer
  BY <1>1, <1>2, <1>3 DEF SocketType
<1>5. QueueTyped(s)
  BY <1>3, <1>4 DEF QueueTyped
<1>6. sock' = [sock EXCEPT ![d] = s] /\ UNCHANGED <<link, pc, accepting, returned>>
  BY <1>1 DEF PeerConnects, longer
<1>7. PeersTyped'
  <2> DEFINE q == [peer[c] EXCEPT !.state = "connected", !.port = p]
  <2>1. peer[c] \in PeerType /\ peer[c].state = "away" /\ peer' = [peer EXCEPT ![c] = q]
    BY DEF LinkInv, Typed, PeersTyped, PeerConnects
  <2>2. q \in PeerType /\ q.stream = peer[c].stream
    BY <2>1 DEF PeerType
  <2> HIDE DEF q
  <2> QED BY <2>1, <2>2 DEF LinkInv, Typed, PeersTyped
<1> HIDE DEF s
<1> QED BY <1>1, <1>4, <1>5, <1>6, <1>7, QueueKeeps

LEMMA WorldInv == LinkInv /\ World => LinkInv'
BY WritesInv, ArrivesInv, ClosesInv, ResetsInv, DatagramArrivesInv DEF World

------------------------------------------------------------------------------
LEMMA LinkInitInv == LinkInit => LinkInv
<1> SUFFICES ASSUME LinkInit PROVE LinkInv
  OBVIOUS
<1>1. \A h \in Handle : link[h] = Unmade
  BY DEF LinkInit
<1>2. OpenLinks = {} /\ pc = "idle"
  BY <1>1 DEF OpenLinks, LinkInit, Unmade
<1>3. LinksTyped /\ ProgramTyped
  <2>1. Handle # {}
    BY LinkAssumption
  <2>2. Unmade \in LinkType
    BY DEF Unmade, LinkType
  <2> QED BY <2>1, <2>2 DEF LinkInit, LinksTyped, ProgramTyped
<1>4. PeersTyped
  <2>1. Away \in PeerType /\ Len(Away.stream) <= QueueLimit
    BY Numbers DEF Away, PeerType
  <2> QED BY <2>1 DEF LinkInit, PeersTyped
<1>5. SocketsTyped
  <2>1. ClosedSocket.queue = <<>> /\ ClosedSocket.kind = "closed"
    BY DEF ClosedSocket
  <2>2. ClosedSocket \in SocketType
    BY PortsTyped DEF ClosedSocket, SocketType
  <2>3. QueueTyped(ClosedSocket)
    BY <2>1, <2>2, Numbers DEF QueueTyped
  <2> QED BY <2>2, <2>3 DEF LinkInit, SocketsTyped
<1>6. Owned
  BY <1>2 DEF LinkInit, Owned, ClosedSocket
<1>7. Matched /\ Waiting
  BY <1>2, <1>6 DEF Matched, Apart, KindsMatch, Waiting
<1> QED BY <1>3, <1>4, <1>5, <1>7 DEF LinkInv, Typed

LEMMA NextKeepsLinks == LinkInv /\ [LinkNext]_linkVars => LinkInv'
<1>1. LinkInv /\ UNCHANGED linkVars => LinkInv'
  <2> SUFFICES ASSUME LinkInv, UNCHANGED linkVars PROVE LinkInv'
    OBVIOUS
  <2> QED BY WorldKeeps DEF linkVars, LinkInv, Typed, SocketsTyped, PeersTyped
<1>2. LinkInv /\ Program => LinkInv'
  BY ListenInv, ConnectInv, AcceptInv, AcceptFailsInv, ReceiveInv, SendInv, CloseInv, UseClosedInv, Numbers
     DEF Program
<1> QED BY <1>1, <1>2, WorldInv, ConnectsInv, Numbers DEF LinkNext

LEMMA LinkInvariant == LinkSpec => []LinkInv
BY NextKeepsLinks, LinkInitInv, PTL DEF LinkSpec

\* Links, sockets, connections and what is returned of them keep their types, and no queue grows
\* beyond its limit, whatever fails.
THEOREM LinksKeepTypes == LinkSpec => []LinkTypeOK
<1>1. LinkInv => LinkTypeOK
  BY DEF LinkInv, Typed, SocketsTyped, PeersTyped, LinksTyped, ProgramTyped, LinkTypeOK, LinkType,
         SocketType, PeerType, QueueTyped
<1> QED BY <1>1, LinkInvariant, PTL

\* Over any sequence of calls on any number of links, of which any may fail and any may be on a link
\* that was closed before, the open descriptors are those of the open links and no two links share
\* one, up to the first call that uses a descriptor of another link: the Close of a UDP link, whose
\* target was never written, or a call on a closed link whose number was handed out again.
THEOREM DescriptorsMatch == LinkSpec => []DescriptorsMatchLinks
<1>1. LinkInv => DescriptorsMatchLinks
  <2> SUFFICES ASSUME LinkInv, pc # "strayed"
               PROVE  /\ {d \in Fd : IsOpen(d)} = UNION {Descriptors(h) : h \in OpenLinks}
                      /\ \A g, h \in OpenLinks : g # h => Descriptors(g) \cap Descriptors(h) = {}
    BY DEF DescriptorsMatchLinks
  <2>1. Owned /\ Apart
    BY DEF LinkInv, Matched
  <2>2. \A h \in OpenLinks : /\ Descriptors(h) \subseteq Fd
                             /\ \A d \in Fd : d \in Descriptors(h) <=> Holds(h, d)
    <3> SUFFICES ASSUME NEW h \in OpenLinks
                 PROVE  /\ Descriptors(h) \subseteq Fd
                        /\ \A d \in Fd : d \in Descriptors(h) <=> Holds(h, d)
      OBVIOUS
    <3>1. link[h] \in LinkType
      BY DEF OpenLinks, LinkInv, Typed, LinksTyped
    <3>2. link[h].socket \in Fd \cup {Bad} /\ link[h].target \in Fd \cup {Bad}
      BY <3>1 DEF LinkType
    <3> QED BY <3>2, Numbers DEF Descriptors, Holds
  <2>3. {d \in Fd : IsOpen(d)} = UNION {Descriptors(h) : h \in OpenLinks}
    BY <2>1, <2>2, Numbers DEF Owned, IsOpen
  <2>4. \A g, h \in OpenLinks : g # h => Descriptors(g) \cap Descriptors(h) = {}
    BY <2>1, <2>2 DEF Apart
  <2> QED BY <2>3, <2>4
<1> QED BY <1>1, LinkInvariant, PTL

=============================================================================
