---------------------------- MODULE StartupProofs ----------------------------
(***************************************************************************)
(* Proofs about Startup, for every command line, any ports, any forwarder, *)
(* and every call that may fail.                                           *)
(***************************************************************************)
EXTENDS Startup, LinkRefinement

MainTyped ==
    /\ phase \in {"options", "listening", "configuring", "running", "flushing", "done",
                  "exited", "crashed"}
    /\ argv \in Seq(Argument) /\ optind \in 1..(Len(argv) + 1)
    /\ options \in [linkType : Nat, port : Nat]
    /\ links \in 0..3 /\ flushing \in Handle /\ test \in 0..Tests
    /\ dialled \in 0..Len(Dialled)

\* The last number given for an option among the arguments that were read.
LastRead(option, i) ==
    i \in Given(option) /\ i < optind /\ \A j \in Given(option) : j < optind => j <= i

\* The options hold what was read, and are all read when main goes on.
OptionsRead ==
    /\ \A i \in DOMAIN argv : LastRead("port", i) /\ argv[i].value # 0 => options.port = argv[i].value
    /\ (\A i \in DOMAIN argv : LastRead("port", i) => argv[i].value = 0) =>
          options.port = IF phase \in {"options", "exited"} THEN 0 ELSE DEFAULT_PORT
    /\ \A i \in DOMAIN argv : LastRead("transport", i) => options.linkType = argv[i].value
    /\ phase \notin {"options", "exited"} => optind > Len(argv)

\* No link is created while the options are read.
NotYet == phase \in {"options", "exited"} => (\A h \in Handle : link[h] = Unmade) /\ pc = "idle"

NoneNull == TypeIsGiven => phase # "crashed" /\ \A h \in Handle : link[h].status # "null"

\* The port of a link, what a link in accept and the backlogs are bound to.
LinkPort(h) == PortOf(h) % PortNumbers

OwnPorts ==
    \A h \in OpenLinks : Source(h) # Bad =>
        IF link[h].type = TCP THEN EndOf(Source(h)).port = LinkPort(h)
                              ELSE sock[Source(h)].port \in {LinkPort(h), 0}

AcceptsOwn == pc = "accepting" => sock[link[accepting].socket].port \in {LinkPort(accepting), 0}

BacklogPorts ==
    \A d \in Fd : sock[d].kind = "listening" =>
        \A i \in DOMAIN sock[d].queue : /\ peer[sock[d].queue[i]].port = sock[d].port
                                        /\ sock[d].port # 0

PortsInv == OwnPorts /\ AcceptsOwn /\ BacklogPorts

LinksInv == LinkInv /\ ClosedAreEmpty /\ Places /\ pc # "strayed"

StartupInv == MainTyped /\ OptionsRead /\ NotYet /\ NoneNull /\ LinksInv /\ PortsInv

------------------------------------------------------------------------------
\* The three links, and their ports.
LEMMA Rig ==
    /\ Handle = {1, 2, 3} /\ Talkers \subseteq Peer /\ Leftover \subseteq Nat
    /\ Commands \subseteq Seq(Argument) /\ Tests \in Nat \ {0}
    /\ Len(Dialled) \in Nat /\ \A i \in 1..Len(Dialled) : Dialled[i] \in Nat \ {0}
<1>1. Port \subseteq Nat
  BY DEF Port, PortNumbers
<1>2. \A i \in 1..Len(Dialled) : Dialled[i] \in Nat \ {0}
  <2> DEFINE used == Port \ {0}
  <2>1. Dialled \in Seq(used) /\ used \subseteq Nat \ {0}
    BY <1>1, StartupAssumption
  <2> HIDE DEF used
  <2>2. \A i \in 1..Len(Dialled) : Dialled[i] \in used
    BY <2>1
  <2> QED BY <2>1, <2>2
<1> QED BY <1>2, StartupAssumption

LEMMA LinkPortTyped == ASSUME MainTyped, NEW h \in Handle PROVE PortOf(h) \in Nat
BY Rig DEF MainTyped, PortOf

------------------------------------------------------------------------------
(* The links, as Link's proofs see them. *)

\* A step that leaves each link with its port.
SamePorts ==
    /\ \A h \in Handle : /\ link'[h].status = link[h].status /\ link'[h].type = link[h].type
                         /\ link'[h].socket = link[h].socket /\ link'[h].target = link[h].target
    /\ \A d \in Fd : /\ sock'[d].kind = sock[d].kind /\ sock'[d].port = sock[d].port
                     /\ sock[d].kind = "stream" => sock'[d].peer = sock[d].peer
                     /\ sock[d].kind = "listening" => sock'[d].queue = sock[d].queue
    /\ \A c \in Peer : peer'[c].port = peer[c].port
    /\ pc' = "accepting" => pc = "accepting" /\ accepting' = accepting

LEMMA PortsKept ==
    ASSUME LinksInv, PortsInv, SamePorts, options' = options
    PROVE  PortsInv'
<1> USE DEF LinksInv
<1>1. OpenLinks' = OpenLinks /\ OpenLinks \subseteq Handle /\ \A h \in Handle : LinkPort(h)' = LinkPort(h)
  BY DEF SamePorts, OpenLinks, LinkPort, PortOf
<1>2. \A h \in Handle : link[h].socket \in Fd \cup {Bad} /\ link[h].target \in Fd \cup {Bad}
  BY DEF LinkInv, Typed, LinksTyped, LinkType
<1>3. ASSUME NEW d \in Fd, sock[d].kind = "stream" PROVE (EndOf(d).port)' = EndOf(d).port
  <2>1. sock[d].peer \in Peer \cup {NoPeer}
    BY SocketFields DEF LinkInv, Typed, SocketsTyped
  <2> QED BY <1>3, <2>1 DEF SamePorts, EndOf, Away
<1>4. OwnPorts'
  <2> SUFFICES ASSUME NEW h \in OpenLinks, Source(h)' # Bad
               PROVE  IF link'[h].type = TCP THEN (EndOf(Source(h)).port)' = LinkPort(h)'
                                             ELSE sock'[Source(h)'].port \in {LinkPort(h)', 0}
    BY <1>1 DEF OwnPorts
  <2>1. h \in Handle /\ Source(h)' = Source(h) /\ link'[h].type = link[h].type
    BY <1>1 DEF SamePorts, Source
  <2>2. Source(h) \in Fd
    BY <1>2, <2>1 DEF Source
  <2>3. link[h].type = TCP => sock[Source(h)].kind = "stream"
    BY <2>1, Numbers DEF LinkInv, Matched, KindsMatch, Source
  <2>4. link[h].type = TCP => (EndOf(Source(h)).port)' = EndOf(Source(h)).port
    BY <1>3, <2>1, <2>2, <2>3 DEF EndOf
  <2> QED BY <1>1, <2>1, <2>2, <2>4 DEF PortsInv, OwnPorts, SamePorts
<1>5. AcceptsOwn'
  <2> SUFFICES ASSUME pc' = "accepting"
               PROVE  sock'[link'[accepting'].socket].port \in {LinkPort(accepting)', 0}
    BY DEF AcceptsOwn
  <2>1. pc = "accepting" /\ accepting' = accepting /\ accepting \in Handle
        /\ link[accepting].socket \in Fd
    BY DEF SamePorts, LinkInv, Waiting, Typed, ProgramTyped
  <2> QED BY <1>1, <2>1 DEF PortsInv, AcceptsOwn, SamePorts, LinkPort, PortOf
<1>6. BacklogPorts'
  <2> SUFFICES ASSUME NEW d \in Fd, sock'[d].kind = "listening", NEW i \in DOMAIN sock'[d].queue
               PROVE  /\ peer'[sock'[d].queue[i]].port = sock'[d].port
                      /\ sock'[d].port # 0
    BY DEF BacklogPorts
  <2>1. sock[d].kind = "listening" /\ sock'[d].queue = sock[d].queue /\ sock'[d].port = sock[d].port
    BY DEF SamePorts
  <2>2. sock[d].queue \in Seq(Peer)
    BY <2>1 DEF LinkInv, Typed, SocketsTyped, QueueTyped
  <2>3. sock[d].queue[i] \in Peer
    BY <2>1, <2>2
  <2> QED BY <2>1, <2>3 DEF PortsInv, BacklogPorts, SamePorts
<1> QED BY <1>4, <1>5, <1>6 DEF PortsInv

LEMMA ReceiveSame ==
    ASSUME LinkInv, NEW h \in Handle, ReceiveWithTimeout(h)
    PROVE  SamePorts
<1>1. pc' # "accepting" /\ link \in [Handle -> LinkType] /\ sock \in [Fd -> SocketType]
      /\ peer \in [Peer -> PeerType]
  BY DEF ReceiveWithTimeout, Receive, ReceivesBuffer, ReceivesDatagram, ReceivesStream, ReceivesEnd,
         ReceiveCrashes, PollFails, PollTimesOut, Using, LinkInv, Typed, LinksTyped, SocketsTyped,
         PeersTyped
<1>2. CASE ReceivesDatagram(h)
  <2> DEFINE d == link[h].socket
             s == [sock[d] EXCEPT !.queue = Tail(sock[d].queue)]
             from == Head(sock[d].queue).from
  <2>1. /\ Using(h, UDP) /\ Readable(d) /\ peer' = peer /\ sock' = [sock EXCEPT ![d] = s]
        /\ link' = [link EXCEPT ![h].address = from]
    BY <1>2 DEF ReceivesDatagram
  <2>2. d \in Fd /\ sock[d].kind = "udp" /\ sock[d] \in SocketType
    BY <1>1, <2>1, UsedLink DEF Readable
  <2>3. s.kind = sock[d].kind /\ s.port = sock[d].port /\ s.peer = sock[d].peer
    BY <2>2 DEF SocketType
  <2> HIDE DEF d, s, from
  <2>4. \A g \in Handle : /\ link'[g].status = link[g].status /\ link'[g].type = link[g].type
                          /\ link'[g].socket = link[g].socket /\ link'[g].target = link[g].target
    BY <1>1, <2>1 DEF LinkType
  <2>5. sock'[d] = s /\ \A e \in Fd \ {d} : sock'[e] = sock[e]
    BY <1>1, <2>1, <2>2
  <2> QED BY <1>1, <2>1, <2>2, <2>3, <2>4, <2>5 DEF SamePorts
<1>3. CASE ReceivesStream(h)
  <2> DEFINE c == sock[link[h].target].peer
  <2>1. UNCHANGED <<link, sock>> /\ peer' = [peer EXCEPT ![c].stream = LaterParts(@)]
    BY <1>3 DEF ReceivesStream
  <2>2. \A b \in Peer : peer'[b].port = peer[b].port
    BY <1>1, <2>1 DEF PeerType
  <2> QED BY <1>1, <2>1, <2>2 DEF SamePorts
<1>4. CASE ReceivesEnd(h) \/ ReceiveCrashes(h) \/ PollFails(h) \/ PollTimesOut(h)
  BY <1>1, <1>4 DEF ReceivesEnd, ReceiveCrashes, PollFails, PollTimesOut, SamePorts
<1> QED BY <1>2, <1>3, <1>4 DEF ReceiveWithTimeout, Receive, ReceivesBuffer

LEMMA SendSame ==
    ASSUME LinkInv, NEW h \in Handle, Send(h)
    PROVE  SamePorts
<1>1. pc' # "accepting" /\ sock \in [Fd -> SocketType] /\ peer \in [Peer -> PeerType] /\ link' = link
  BY DEF Send, SendDatagram, SendStream, SendToClosed, SendTakesError, SendIsKilled, Using, linkVars,
         LinkInv, Typed, SocketsTyped, PeersTyped
<1>2. CASE SendDatagram(h)
  <2> DEFINE d == link[h].socket
             s == [sock[d] EXCEPT !.peer = link[h].address]
  <2>1. Using(h, UDP) /\ peer' = peer /\ sock' = IF d = Bad THEN sock ELSE [sock EXCEPT ![d] = s]
    BY <1>2 DEF SendDatagram
  <2>2. CASE d = Bad
    BY <1>1, <2>1, <2>2 DEF SamePorts
  <2>3. CASE d # Bad
    <3>1. d \in Fd /\ sock[d].kind = "udp" /\ sock[d] \in SocketType
      BY <1>1, <2>1, <2>3, UsedLink
    <3>2. s.kind = sock[d].kind /\ s.port = sock[d].port /\ s.queue = sock[d].queue
      BY <3>1 DEF SocketType
    <3> HIDE DEF d, s
    <3>3. sock'[d] = s /\ \A e \in Fd \ {d} : sock'[e] = sock[e]
      BY <1>1, <2>1, <2>3, <3>1
    <3> QED BY <1>1, <2>1, <3>1, <3>2, <3>3 DEF SamePorts
  <2> QED BY <2>2, <2>3
<1>3. CASE SendToClosed(h) \/ SendTakesError(h)
  <2> DEFINE c == sock[link[h].target].peer
  <2>1. sock' = sock
    BY <1>3 DEF SendToClosed, SendTakesError
  <2>2. \A b \in Peer : peer'[b].port = peer[b].port
    <3>1. CASE SendToClosed(h)
      <4>1. peer' = [peer EXCEPT ![c].state = AfterReset(c), ![c].wire = <<>>]
        BY <3>1 DEF SendToClosed
      <4> QED BY <1>1, <4>1 DEF PeerType
    <3>2. CASE SendTakesError(h)
      <4>1. peer' = [peer EXCEPT ![c].state = "gone"]
        BY <3>2 DEF SendTakesError
      <4> QED BY <1>1, <4>1 DEF PeerType
    <3> QED BY <1>3, <3>1, <3>2
  <2> QED BY <1>1, <2>1, <2>2 DEF SamePorts
<1>4. CASE SendStream(h) \/ SendIsKilled(h)
  BY <1>1, <1>4 DEF SendStream, SendIsKilled, linkVars, SamePorts
<1> QED BY <1>2, <1>3, <1>4 DEF Send

LEMMA WorldSame ==
    ASSUME LinkInv, World
    PROVE  SamePorts /\ link' = link /\ pc' = pc
<1>1. sock \in [Fd -> SocketType] /\ peer \in [Peer -> PeerType]
  BY DEF LinkInv, Typed, SocketsTyped, PeersTyped
<1>2. ASSUME NEW c \in Peer, PeerWrites(c) \/ StreamArrives(c) \/ PeerCloses(c) \/ PeerResets(c)
      PROVE  SamePorts /\ link' = link /\ pc' = pc
  <2>1. UNCHANGED <<link, sock, pc, accepting>>
    BY <1>2 DEF PeerWrites, StreamArrives, PeerCloses, PeerResets
  <2>2. \A b \in Peer : peer'[b].port = peer[b].port
    <3>1. CASE PeerWrites(c)
      BY <1>1, <3>1 DEF PeerWrites, PeerType
    <3>2. CASE StreamArrives(c)
      BY <1>1, <3>2 DEF StreamArrives, PeerType
    <3>3. CASE PeerCloses(c)
      BY <1>1, <3>3 DEF PeerCloses, PeerType
    <3>4. CASE PeerResets(c)
      <4>1. PICK kept : peer' = [peer EXCEPT ![c].state = AfterReset(c), ![c].wire = <<>>,
                                             ![c].stream = kept]
        BY <3>4 DEF PeerResets
      <4> QED BY <1>1, <4>1 DEF PeerType
    <3> QED BY <1>2, <3>1, <3>2, <3>3, <3>4
  <2> QED BY <2>1, <2>2 DEF SamePorts
<1>3. ASSUME NEW c \in Peer, NEW d \in Fd, NEW k \in 1..Writes, DatagramArrives(c, d, k)
      PROVE  SamePorts /\ link' = link /\ pc' = pc
  <2> DEFINE s == [sock[d] EXCEPT !.queue = Append(sock[d].queue, [from |-> c, packet |-> k])]
  <2>1. /\ sock' = [sock EXCEPT ![d] = s] /\ sock[d].kind = "udp" /\ peer' = peer
        /\ UNCHANGED <<link, pc, accepting>>
    BY <1>3 DEF DatagramArrives
  <2>2. s.kind = sock[d].kind /\ s.port = sock[d].port /\ s.peer = sock[d].peer
    BY <1>1 DEF SocketType
  <2> HIDE DEF s
  <2>3. sock'[d] = s /\ \A e \in Fd \ {d} : sock'[e] = sock[e]
    BY <1>1, <2>1
  <2> QED BY <2>1, <2>2, <2>3 DEF SamePorts
<1> QED BY <1>2, <1>3 DEF World

------------------------------------------------------------------------------
(* Ports of links that are made, and of connections. *)

\* A peer connects to the backlog of the port it dials.
LEMMA ConnectsPorts ==
    ASSUME LinksInv, PortsInv, options' = options, NEW c \in Peer, NEW p \in Nat \ {0},
           PeerConnects(c, p)
    PROVE  PortsInv'
<1> USE DEF LinksInv
<1>1. PICK d \in Fd : /\ sock[d].kind = "listening" /\ sock[d].port = p
                      /\ sock' = [sock EXCEPT ![d].queue = Append(@, c)]
  BY DEF PeerConnects
<1>2. /\ sock \in [Fd -> SocketType] /\ sock[d] \in SocketType /\ peer \in [Peer -> PeerType]
      /\ \A e \in Fd : sock[e].kind = "listening" => sock[e].queue \in Seq(Peer)
  BY DEF LinkInv, Typed, SocketsTyped, QueueTyped, PeersTyped
<1>3. /\ peer[c].state = "away" /\ peer'[c].port = p /\ \A b \in Peer \ {c} : peer'[b] = peer[b]
      /\ UNCHANGED <<link, pc, accepting>>
  BY <1>2 DEF PeerConnects, PeerType
<1>4. /\ sock'[d].kind = "listening" /\ sock'[d].port = p /\ sock'[d].peer = sock[d].peer
      /\ sock'[d].queue = Append(sock[d].queue, c) /\ \A e \in Fd \ {d} : sock'[e] = sock[e]
  BY <1>1, <1>2 DEF SocketType
<1>5. ASSUME NEW e \in Fd, sock[e].kind = "stream" PROVE (EndOf(e).port)' = EndOf(e).port
  <2>1. sock[e].peer \in Peer \cup {NoPeer} /\ sock'[e] = sock[e]
    BY <1>1, <1>2, <1>4, <1>5, SocketFields
  <2>2. sock[e].peer # c
    BY <1>3, <1>5 DEF Places, AwayIsNowhere, Streaming
  <2> QED BY <1>3, <2>1, <2>2 DEF EndOf, Away
<1>6. OwnPorts'
  <2> SUFFICES ASSUME NEW h \in OpenLinks, Source(h)' # Bad
               PROVE  IF link'[h].type = TCP THEN (EndOf(Source(h)).port)' = LinkPort(h)'
                                             ELSE sock'[Source(h)'].port \in {LinkPort(h)', 0}
    BY <1>3 DEF OwnPorts, OpenLinks
  <2>1. Source(h)' = Source(h) /\ link'[h].type = link[h].type /\ LinkPort(h)' = LinkPort(h)
    BY <1>3 DEF Source, LinkPort, PortOf
  <2>2. link[h].socket \in Fd \cup {Bad} /\ link[h].target \in Fd \cup {Bad}
    BY DEF OpenLinks, LinkInv, Typed, LinksTyped, LinkType
  <2>3. Source(h) \in Fd
    BY <2>1, <2>2 DEF Source
  <2>4. link[h].type = TCP => (EndOf(Source(h)).port)' = EndOf(Source(h)).port
    <3>1. link[h].type = TCP => sock[Source(h)].kind = "stream"
      BY <2>1, Numbers DEF LinkInv, Matched, KindsMatch, Source
    <3> QED BY <1>5, <2>1, <2>3, <3>1 DEF EndOf
  <2>5. sock'[Source(h)].port = sock[Source(h)].port
    BY <1>1, <1>4, <2>3
  <2> QED BY <2>1, <2>4, <2>5 DEF PortsInv, OwnPorts
<1>7. AcceptsOwn'
  <2>1. \A e \in Fd : sock'[e].port = sock[e].port
    BY <1>1, <1>4
  <2> QED BY <1>3, <2>1 DEF AcceptsOwn, PortsInv, LinkInv, Waiting, LinkPort, PortOf
<1>8. BacklogPorts'
  <2> SUFFICES ASSUME NEW e \in Fd, sock'[e].kind = "listening", NEW i \in DOMAIN sock'[e].queue
               PROVE  /\ peer'[sock'[e].queue[i]].port = sock'[e].port
                      /\ sock'[e].port # 0
    BY DEF BacklogPorts
  <2>1. ASSUME NEW j \in DOMAIN sock[e].queue, sock[e].kind = "listening"
        PROVE  peer'[sock[e].queue[j]].port = sock[e].port /\ sock[e].port # 0
    <3>1. j \in Nat /\ sock[e].queue[j] \in Peer
      BY <1>2, <2>1
    <3>2. sock[e].queue[j] # c
      BY <1>3, <2>1, <3>1 DEF Places, AwayIsNowhere, Queued
    <3> QED BY <1>3, <2>1, <3>1, <3>2 DEF PortsInv, BacklogPorts
  <2>2. CASE e = d
    <3> DEFINE q == sock[d].queue
    <3>1. q \in Seq(Peer) /\ sock'[e].queue = Append(q, c)
      BY <1>1, <1>2, <1>4, <2>2
    <3>2. CASE i \in DOMAIN q
      <4>1. sock'[e].queue[i] = q[i]
        BY <3>1, <3>2
      <4> QED BY <1>1, <1>4, <2>1, <2>2, <3>2, <4>1
    <3>3. CASE i \notin DOMAIN q
      <4>1. sock'[e].queue[i] = c
        BY <3>1, <3>3
      <4> QED BY <1>3, <1>4, <2>2, <4>1
    <3> QED BY <3>2, <3>3
  <2>3. CASE e # d
    BY <1>4, <2>1, <2>3
  <2> QED BY <2>2, <2>3
<1> QED BY <1>6, <1>7, <1>8 DEF PortsInv

\* accept hands its link a connection to the link's port.
LEMMA AcceptPorts ==
    ASSUME LinksInv, PortsInv, options' = options, Accept
    PROVE  PortsInv'
<1> USE DEF LinksInv
<1> DEFINE a == accepting
           s == link[a].socket
           c == Head(sock[s].queue)
           rest == Tail(sock[s].queue)
<1>1. /\ pc = "accepting" /\ pc' = "idle" /\ UNCHANGED <<peer, accepting>>
      /\ a \in OpenLinks /\ a \in Handle /\ link[a].type = TCP /\ s \in Fd
      /\ sock[s].kind = "listening"
  BY DEF Accept, LinkInv, Waiting, OpenLinks
<1>2. PICK d \in Fd :
          /\ NextFd(d) /\ sock[s].queue # <<>>
          /\ sock' = [sock EXCEPT ![s].queue = rest,
                                  ![d] = [ClosedSocket EXCEPT !.kind = "stream", !.peer = c]]
          /\ link' = [link EXCEPT ![a].target = d]
  BY DEF Accept
<1>3. /\ sock \in [Fd -> SocketType] /\ sock[s] \in SocketType /\ sock[s].queue \in Seq(Peer)
      /\ sock[d].kind = "closed" /\ s # d /\ link \in [Handle -> LinkType] /\ d # Bad
  BY <1>1, <1>2, Numbers DEF LinkInv, Typed, SocketsTyped, QueueTyped, LinksTyped, NextFd
<1>4. /\ c \in Peer /\ c = sock[s].queue[1] /\ 1 \in DOMAIN sock[s].queue
      /\ \A i \in DOMAIN rest : rest[i] = sock[s].queue[i + 1] /\ i + 1 \in DOMAIN sock[s].queue
  BY <1>2, <1>3
<1>5. peer[c].port = LinkPort(a)
  BY <1>1, <1>4 DEF PortsInv, BacklogPorts, AcceptsOwn
<1>6. /\ sock'[d] = [ClosedSocket EXCEPT !.kind = "stream", !.peer = c]
      /\ sock'[s] = [sock[s] EXCEPT !.queue = rest]
      /\ \A e \in Fd \ {s, d} : sock'[e] = sock[e]
      /\ link'[a] = [link[a] EXCEPT !.target = d] /\ \A g \in Handle \ {a} : link'[g] = link[g]
  BY <1>1, <1>2, <1>3
<1> HIDE DEF a, s, c, rest
<1>7. /\ sock'[d].kind = "stream" /\ sock'[d].peer = c /\ c # NoPeer
      /\ sock'[s].kind = "listening" /\ sock'[s].queue = rest /\ sock'[s].port = sock[s].port
      /\ link'[a].type = TCP /\ link'[a].target = d /\ link'[a].status = link[a].status
  BY <1>1, <1>3, <1>4, <1>6, Numbers DEF ClosedSocket, SocketType, LinkType
<1>8. OwnPorts'
  <2>1. OpenLinks' = OpenLinks /\ \A h \in Handle : LinkPort(h)' = LinkPort(h)
    <3>1. \A h \in Handle : link'[h].status = link[h].status
      BY <1>6, <1>7
    <3>2. OpenLinks' = OpenLinks
      BY <3>1 DEF OpenLinks
    <3>3. \A h \in Handle : LinkPort(h)' = LinkPort(h)
      BY DEF LinkPort, PortOf
    <3> QED BY <3>2, <3>3
  <2>2. ASSUME NEW h \in OpenLinks, Source(h)' # Bad
        PROVE  IF link'[h].type = TCP THEN (EndOf(Source(h)).port)' = LinkPort(h)'
                                      ELSE sock'[Source(h)'].port \in {LinkPort(h)', 0}
    <3>0. h \in Handle
      BY DEF OpenLinks
    <3>1. CASE h = a
      <4>1. Source(h)' = d /\ link'[h].type = TCP
        BY <1>7, <3>1, Numbers DEF Source
      <4>2. (EndOf(Source(h)).port)' = peer[c].port
        BY <1>1, <1>7, <4>1 DEF EndOf
      <4> QED BY <1>5, <2>1, <3>0, <3>1, <4>1, <4>2
    <3>2. CASE h # a
      <4>1. link'[h] = link[h] /\ Source(h)' = Source(h)
        BY <1>6, <3>0, <3>2 DEF Source
      <4>2. Source(h) \in Fd
        BY <1>3, <2>2, <3>0, <4>1 DEF Source, LinkType
      <4>3. Source(h) \notin {s, d}
        <5>1. /\ link[h].type = TCP => sock[Source(h)].kind = "stream"
              /\ link[h].type # TCP => sock[Source(h)].kind = "udp"
          BY <1>3, <2>2, <3>0, <4>1, Numbers DEF LinkInv, Matched, KindsMatch, Source, LinkType
        <5> QED BY <1>1, <1>3, <5>1
      <4>4. sock'[Source(h)] = sock[Source(h)]
        BY <1>6, <4>2, <4>3
      <4>5. (EndOf(Source(h)).port)' = EndOf(Source(h)).port
        BY <1>1, <4>1, <4>4 DEF EndOf
      <4> QED BY <2>1, <2>2, <3>0, <4>1, <4>4, <4>5 DEF PortsInv, OwnPorts
    <3> QED BY <3>1, <3>2
  <2> QED BY <2>1, <2>2 DEF OwnPorts
<1>9. BacklogPorts'
  <2> SUFFICES ASSUME NEW e \in Fd, sock'[e].kind = "listening", NEW i \in DOMAIN sock'[e].queue
               PROVE  /\ peer'[sock'[e].queue[i]].port = sock'[e].port
                      /\ sock'[e].port # 0
    BY DEF BacklogPorts
  <2>1. CASE e = s
    BY <1>1, <1>4, <1>7, <2>1 DEF PortsInv, BacklogPorts
  <2>2. CASE e # s
    <3>1. sock'[e] = sock[e]
      BY <1>6, <1>7, <2>2
    <3> QED BY <1>1, <3>1 DEF PortsInv, BacklogPorts
  <2> QED BY <2>1, <2>2
<1>10. AcceptsOwn'
  BY <1>1 DEF AcceptsOwn
<1> QED BY <1>8, <1>9, <1>10 DEF PortsInv

\* A link that is made, over no descriptor or over one bound to the link's port.
LEMMA MadePorts ==
    ASSUME LinksInv, PortsInv, MainTyped, NEW h \in Handle, NEW new \in LinkType, Call(h, new),
           options' = options, peer' = peer, new.target = Bad, new.status = "open",
           pc' = "accepting" => accepting' = h,
           \/ sock' = sock /\ new.socket = Bad /\ pc' = pc
           \/ \E d \in Fd, s \in SocketType :
                 /\ sock[d].kind = "closed" /\ sock' = [sock EXCEPT ![d] = s] /\ new.socket = d
                 /\ s.queue = <<>> /\ s.port \in {LinkPort(h), 0}
    PROVE  PortsInv'
<1> USE DEF LinksInv
<1>1. /\ pc = "idle" /\ h \notin OpenLinks /\ link' = [link EXCEPT ![h] = new]
      /\ link \in [Handle -> LinkType] /\ OpenLinks \subseteq Handle
      /\ sock \in [Fd -> SocketType]
  BY DEF Call, OpenLinks, Unmade, LinkInv, Typed, LinksTyped, SocketsTyped
<1>2. /\ OpenLinks' = OpenLinks \cup {h} /\ link'[h] = new
      /\ \A g \in OpenLinks : link'[g] = link[g]
  BY <1>1 DEF OpenLinks
<1>3. \A g \in Handle : LinkPort(g)' = LinkPort(g)
  BY DEF LinkPort, PortOf
<1>4. \A e \in Fd : sock[e].kind # "closed" => sock'[e] = sock[e]
  BY <1>1
<1>5. \A e \in Fd : sock'[e] = sock[e] \/ sock'[e].queue = <<>>
  BY <1>1
<1>6. new.socket # Bad => new.socket \in Fd /\ sock'[new.socket].port \in {LinkPort(h), 0}
  BY <1>1
<1>7. OwnPorts'
  <2>1. ASSUME NEW g \in OpenLinks, Source(g)' # Bad
        PROVE  IF link'[g].type = TCP THEN (EndOf(Source(g)).port)' = LinkPort(g)'
                                      ELSE sock'[Source(g)'].port \in {LinkPort(g)', 0}
    <3>1. link'[g] = link[g] /\ Source(g)' = Source(g) /\ g \in Handle
      BY <1>1, <1>2 DEF Source
    <3>2. Source(g) \in Fd
      BY <1>1, <2>1, <3>1 DEF Source, LinkType
    <3>3. sock[Source(g)].kind # "closed"
      <4>1. Holds(g, Source(g)) /\ Owned
        BY <1>1 DEF Holds, Source, LinkInv, Matched
      <4> QED BY <3>2, <4>1 DEF Owned
    <3>4. sock'[Source(g)] = sock[Source(g)]
      BY <1>4, <3>2, <3>3
    <3>5. (EndOf(Source(g)).port)' = EndOf(Source(g)).port
      BY <3>1, <3>4 DEF EndOf
    <3> QED BY <1>3, <2>1, <3>1, <3>4, <3>5 DEF PortsInv, OwnPorts
  <2>2. ASSUME Source(h)' # Bad
        PROVE  IF link'[h].type = TCP THEN (EndOf(Source(h)).port)' = LinkPort(h)'
                                      ELSE sock'[Source(h)'].port \in {LinkPort(h)', 0}
    <3>1. link'[h].type # TCP /\ Source(h)' = new.socket
      <4>1. new.type \in {UDP, TCP}
        BY DEF LinkType
      <4>2. new.type = UDP \/ Source(h)' = Bad
        BY <1>2, <4>1, Numbers DEF Source
      <4>3. new.type = UDP
        BY <2>2, <4>2
      <4> QED BY <1>2, <4>3, Numbers DEF Source
    <3> QED BY <1>3, <1>6, <2>2, <3>1
  <2> QED BY <1>2, <2>1, <2>2 DEF OwnPorts
<1>8. AcceptsOwn'
  <2> SUFFICES ASSUME pc' = "accepting"
               PROVE  sock'[link'[h].socket].port \in {LinkPort(h)', 0}
    BY DEF AcceptsOwn
  <2>1. new.socket # Bad
    BY <1>1, Numbers
  <2> QED BY <1>2, <1>3, <1>6, <2>1
<1>9. BacklogPorts'
  <2> SUFFICES ASSUME NEW e \in Fd, sock'[e].kind = "listening", NEW i \in DOMAIN sock'[e].queue
               PROVE  /\ peer[sock'[e].queue[i]].port = sock'[e].port
                      /\ sock'[e].port # 0
    BY DEF BacklogPorts
  <2>1. sock'[e] = sock[e]
    BY <1>5
  <2> QED BY <2>1 DEF PortsInv, BacklogPorts
<1> QED BY <1>7, <1>8, <1>9 DEF PortsInv

LEMMA ListenPorts ==
    ASSUME LinksInv, PortsInv, MainTyped, NEW h \in Handle, NEW type, options' = options,
           Listen(h, type, PortOf(h))
    PROVE  PortsInv'
<1> DEFINE port == PortOf(h)
<1>1. ASSUME NEW kind, NEW p \in Binds(kind, port) PROVE p \in {LinkPort(h), 0}
  BY DEF Binds, LinkPort
<1>2. port \in Nat
  BY LinkPortTyped
<1> HIDE DEF port
<1>3. Listen(h, type, port)
  BY DEF port
<1>4. ASSUME NEW t \in {UDP, TCP}, SocketFails(h, t) PROVE PortsInv'
  <2>1. /\ NewLink(t) \in LinkType /\ NewLink(t).target = Bad /\ NewLink(t).socket = Bad
        /\ NewLink(t).status = "open"
    BY DEF NewLink, Unmade, LinkType
  <2>2. Call(h, NewLink(t)) /\ UNCHANGED <<sock, peer, pc, accepting>> /\ pc = "idle"
    BY <1>4 DEF SocketFails, Call
  <2> QED BY <2>1, <2>2, MadePorts
<1>5. CASE type = UDP /\ ListenUDP(h, port) /\ ~SocketFails(h, UDP)
  <2>1. PICK d \in Fd, p \in Binds("udp", port) :
            /\ NextFd(d) /\ Call(h, [NewLink(UDP) EXCEPT !.socket = d])
            /\ sock' = [sock EXCEPT ![d] = [ClosedSocket EXCEPT !.kind = "udp", !.port = p]]
            /\ UNCHANGED <<peer, pc, accepting>>
    BY <1>5 DEF ListenUDP
  <2> DEFINE new == [NewLink(UDP) EXCEPT !.socket = d]
             s == [ClosedSocket EXCEPT !.kind = "udp", !.port = p]
  <2>2. new \in LinkType /\ new.status = "open" /\ new.socket = d /\ new.target = Bad
    BY DEF NewLink, Unmade, LinkType
  <2>3. s \in SocketType /\ s.queue = <<>> /\ s.port = p
    BY <1>2, BoundSocket DEF ClosedSocket
  <2>4. Call(h, new) /\ sock' = [sock EXCEPT ![d] = s] /\ sock[d].kind = "closed" /\ pc' = "idle"
    BY <2>1 DEF NextFd, Call
  <2>5. p \in {LinkPort(h), 0}
    BY <1>1
  <2> HIDE DEF new, s
  <2> QED BY <2>1, <2>2, <2>3, <2>4, <2>5, MadePorts
<1>6. CASE type = TCP /\ ListenTCP(h, port) /\ ~SocketFails(h, TCP)
  <2>1. PICK d \in Fd, p \in Binds("listening", port) :
            /\ NextFd(d) /\ Call(h, [NewLink(TCP) EXCEPT !.socket = d])
            /\ sock' = [sock EXCEPT ![d] = [ClosedSocket EXCEPT !.kind = "listening", !.port = p]]
            /\ accepting' = h /\ UNCHANGED <<peer, returned>>
    BY <1>6 DEF ListenTCP
  <2> DEFINE new == [NewLink(TCP) EXCEPT !.socket = d]
             s == [ClosedSocket EXCEPT !.kind = "listening", !.port = p]
  <2>2. new \in LinkType /\ new.status = "open" /\ new.socket = d /\ new.target = Bad
    BY DEF NewLink, Unmade, LinkType
  <2>3. s \in SocketType /\ s.queue = <<>> /\ s.port = p
    BY <1>2, BoundSocket DEF ClosedSocket
  <2>4. Call(h, new) /\ sock' = [sock EXCEPT ![d] = s] /\ sock[d].kind = "closed"
    BY <2>1 DEF NextFd
  <2>5. p \in {LinkPort(h), 0}
    BY <1>1
  <2> HIDE DEF new, s
  <2> QED BY <2>1, <2>2, <2>3, <2>4, <2>5, MadePorts
<1>7. CASE type \notin {UDP, TCP}
  <2>1. /\ link \in [Handle -> LinkType] /\ link[h] = Unmade /\ pc = "idle"
        /\ link' = [link EXCEPT ![h] = Null] /\ UNCHANGED <<sock, peer, pc, accepting>>
    BY <1>3, <1>7 DEF Listen, Call, LinksInv, LinkInv, Typed, LinksTyped
  <2>2. OpenLinks' = OpenLinks /\ \A g \in OpenLinks : link'[g] = link[g]
    BY <2>1 DEF OpenLinks, Null, Unmade
  <2>3. \A g \in OpenLinks : Source(g)' = Source(g) /\ LinkPort(g)' = LinkPort(g)
    BY <2>2 DEF Source, LinkPort, PortOf
  <2>4. \A g \in OpenLinks : (EndOf(Source(g)))' = EndOf(Source(g))
    BY <2>1, <2>3 DEF EndOf
  <2> QED BY <2>1, <2>2, <2>3, <2>4 DEF PortsInv, OwnPorts, AcceptsOwn, BacklogPorts
<1> QED BY <1>3, <1>4, <1>5, <1>6, <1>7, Numbers DEF Listen

------------------------------------------------------------------------------
(* The steps of main. *)

\* main goes on without its links.
MainOnly ==
    NoArguments \/ ParseOption \/ OptionsParsed \/ LinksCreated \/ Configured \/ TestReturns \/ CallOnNull

\* main, or the world, uses the links it has.
Uses ==
    /\ \/ \E h \in Handle : ReceiveWithTimeout(h) \/ Send(h)
       \/ AcceptFails
       \/ World
       \/ UNCHANGED linkVars
    /\ UNCHANGED <<argv, optind, options, links>>
    /\ phase' = phase \/ (phase = "flushing" /\ phase' \in {"running", "done"})

exceptDialled == <<phase, argv, optind, options, links, test, flushing>>

LEMMA StepKinds ==
    ASSUME MainTyped, [StartupNext]_startupVars
    PROVE  \/ MainOnly
           \/ CreateLink
           \/ AcceptLink
           \/ Uses
           \/ \E c \in Peer, p \in Nat \ {0} : PeerConnects(c, p) /\ UNCHANGED exceptDialled
<1>1. CASE UNCHANGED startupVars
  BY <1>1 DEF startupVars, mainVars, Uses
<1>2. CASE Main
  <2>1. CASE FlushReads
    BY <2>1 DEF FlushReads, Uses, mainVars, ReceiveWithTimeout, Receive, MainTyped
  <2>2. CASE FlushMovesOn
    BY <2>2 DEF FlushMovesOn, FlushGoesOn, Uses, ReceiveWithTimeout, Receive, MainTyped
  <2> QED BY <1>2, <2>1, <2>2 DEF Main, MainOnly
<1>3. CASE AcceptLinkFails \/ TestCalls
  BY <1>3 DEF AcceptLinkFails, TestCalls, Uses, mainVars
<1>4. CASE Dial \/ SetupAgain
  <2>1. ASSUME dialled < Len(Dialled) PROVE Dialled[dialled + 1] \in Nat \ {0}
    BY <2>1, Rig DEF MainTyped
  <2> QED BY <1>4, <2>1 DEF Dial, SetupAgain, Uses, exceptDialled
<1>5. CASE Talks
  BY <1>5, Rig DEF Talks, World, Uses, mainVars
<1> QED BY <1>1, <1>2, <1>3, <1>4, <1>5 DEF StartupNext

\* The links keep what was proved of them.
LEMMA LinksStep ==
    ASSUME MainTyped, LinksInv, [StartupNext]_startupVars
    PROVE  LinksInv'
<1> USE DEF LinksInv
<1>1. ASSUME \A d \in Fd : Neutral(d), NoneAway PROVE ClosedAreEmpty' /\ Places'
  BY <1>1, PlacesKept DEF NoneAway
<1>2. ASSUME UNCHANGED linkVars PROVE LinksInv'
  <2>1. LinkInv'
    BY <1>2, NextKeepsLinks
  <2>2. (\A d \in Fd : Neutral(d)) /\ NoneAway /\ pc' = pc
    BY <1>2 DEF linkVars, Neutral, NoneAway
  <2> QED BY <1>1, <2>1, <2>2
<1>3. CASE MainOnly
  <2>1. UNCHANGED linkVars
    BY <1>3 DEF MainOnly, NoArguments, ParseOption, OptionsParsed, LinksCreated, Configured,
                TestReturns, CallOnNull
  <2> QED BY <1>2, <2>1
<1>4. CASE CreateLink
  <2>1. links + 1 \in Handle /\ Listen(links + 1, options.linkType, PortOf(links + 1))
    BY <1>4, Rig DEF CreateLink, MainTyped
  <2>2. PortOf(links + 1) \in Nat
    BY <2>1, LinkPortTyped
  <2> QED BY <1>1, <2>1, <2>2, ListenInv, ListenNeutral
<1>5. CASE AcceptLink
  <2>1. Accept /\ pc' = "idle"
    BY <1>5 DEF AcceptLink, Accept
  <2> QED BY <2>1, AcceptInv, AcceptedConnection
<1>6. CASE Uses
  <2>1. CASE \E h \in Handle : ReceiveWithTimeout(h) \/ Send(h)
    BY <1>1, <2>1, ReceiveInv, ReceiveNeutral, SendInv, SendNeutral
  <2>2. CASE AcceptFails
    <3>1. (\A d \in Fd : Neutral(d)) /\ NoneAway /\ pc' = "idle"
      BY <2>2 DEF AcceptFails, Neutral, NoneAway
    <3> QED BY <1>1, <2>2, <3>1, AcceptFailsInv
  <2>3. CASE World
    BY <1>1, <2>3, WorldInv, WorldNeutral
  <2> QED BY <1>2, <1>6, <2>1, <2>2, <2>3 DEF Uses
<1>7. ASSUME NEW c \in Peer, NEW p \in Nat \ {0}, PeerConnects(c, p) PROVE LinksInv'
  BY <1>7, ConnectsInv, ConnectedBacklog DEF PeerConnects
<1> QED BY <1>3, <1>4, <1>5, <1>6, <1>7, StepKinds

LEMMA PortsStep ==
    ASSUME StartupInv, [StartupNext]_startupVars
    PROVE  PortsInv'
<1> USE DEF StartupInv
<1>1. CASE MainOnly
  <2>1. UNCHANGED linkVars
    BY <1>1 DEF MainOnly, NoArguments, ParseOption, OptionsParsed, LinksCreated, Configured,
                TestReturns, CallOnNull
  <2>2. CASE options' = options
    <3>1. SamePorts
      BY <2>1 DEF linkVars, SamePorts
    <3> QED BY <2>2, <3>1, PortsKept
  <2>3. CASE options' # options
    <3>1. phase = "options"
      BY <1>1, <2>3 DEF MainOnly, NoArguments, ParseOption, OptionsParsed, LinksCreated, Configured,
                        TestReturns, CallOnNull
    <3>2. OpenLinks' = {} /\ pc' = "idle"
      BY <2>1, <3>1 DEF NotYet, OpenLinks, Unmade, linkVars
    <3> QED BY <2>1, <3>2 DEF PortsInv, OwnPorts, AcceptsOwn, BacklogPorts, linkVars
  <2> QED BY <2>2, <2>3
<1>2. CASE CreateLink
  <2>1. links + 1 \in Handle /\ options' = options
        /\ Listen(links + 1, options.linkType, PortOf(links + 1))
    BY <1>2, Rig DEF CreateLink, MainTyped
  <2> QED BY <2>1, ListenPorts
<1>3. CASE AcceptLink
  BY <1>3, AcceptPorts DEF AcceptLink, mainVars
<1>4. CASE Uses
  <2>1. options' = options
    BY <1>4 DEF Uses
  <2>2. SamePorts
    <3>1. CASE \E h \in Handle : ReceiveWithTimeout(h) \/ Send(h)
      BY <3>1, ReceiveSame, SendSame DEF LinksInv
    <3>2. CASE AcceptFails \/ UNCHANGED linkVars
      BY <3>2 DEF AcceptFails, linkVars, SamePorts
    <3>3. CASE World
      BY <3>3, WorldSame DEF LinksInv
    <3> QED BY <1>4, <3>1, <3>2, <3>3 DEF Uses
  <2> QED BY <2>1, <2>2, PortsKept
<1>5. ASSUME NEW c \in Peer, NEW p \in Nat \ {0}, PeerConnects(c, p), UNCHANGED exceptDialled
      PROVE  PortsInv'
  BY <1>5, ConnectsPorts DEF exceptDialled
<1> QED BY <1>1, <1>2, <1>3, <1>4, <1>5, StepKinds

LEMMA MainTypedStep ==
    ASSUME MainTyped, [StartupNext]_startupVars
    PROVE  MainTyped' /\ argv' = argv
<1>1. CASE UNCHANGED mainVars
  BY <1>1 DEF mainVars, MainTyped
<1>2. CASE ParseOption
  <2>1. PICK i \in DOMAIN argv : /\ optind' = i + 1 /\ options' = Parsed(argv[i])
                                /\ phase' \in {"exited", "options"}
    BY <1>2 DEF ParseOption
  <2>2. i \in 1..Len(argv) /\ Len(argv) \in Nat /\ argv[i] \in Argument
    BY DEF MainTyped
  <2>3. optind' \in 1..(Len(argv) + 1)
    BY <2>1, <2>2
  <2>4. options' \in [linkType : Nat, port : Nat]
    <3>1. argv[i].value \in Nat /\ options \in [linkType : Nat, port : Nat]
      BY <2>2 DEF Argument, MainTyped
    <3> QED BY <2>1, <3>1 DEF Parsed
  <2>5. UNCHANGED <<argv, links, test, flushing, dialled>>
    BY <1>2 DEF ParseOption
  <2> QED BY <2>1, <2>3, <2>4, <2>5 DEF MainTyped
<1>3. CASE OptionsParsed
  <2>1. options' \in [linkType : Nat, port : Nat]
    BY <1>3 DEF OptionsParsed, MainTyped, DEFAULT_PORT
  <2> QED BY <1>3, <2>1 DEF OptionsParsed, MainTyped
<1>4. CASE CreateLink
  BY <1>4 DEF CreateLink, MainTyped
<1>5. CASE FlushMovesOn
  <2>1. FlushGoesOn /\ UNCHANGED <<argv, optind, options, links, dialled>> /\ phase = "flushing"
    BY <1>5 DEF FlushMovesOn
  <2>2. flushing' \in Handle /\ test' \in 0..Tests
    BY <2>1, Rig DEF FlushGoesOn, MainTyped
  <2> QED BY <2>1, <2>2 DEF MainTyped, FlushGoesOn
<1>6. CASE NoArguments \/ LinksCreated \/ Configured \/ TestReturns \/ CallOnNull
  BY <1>6, Rig DEF NoArguments, LinksCreated, Configured, TestReturns, CallOnNull, MainTyped
<1>7. CASE UNCHANGED startupVars \/ AcceptLink \/ FlushReads \/ AcceptLinkFails \/ TestCalls
           \/ Talks
  BY <1>1, <1>7 DEF startupVars, AcceptLink, FlushReads, AcceptLinkFails, TestCalls, Talks, mainVars
<1>8. CASE Dial \/ SetupAgain
  BY <1>8, Rig DEF Dial, SetupAgain, MainTyped
<1> QED BY <1>2, <1>3, <1>4, <1>5, <1>6, <1>7, <1>8 DEF StartupNext, Main

\* An option that is read is the last that was read of its kind.
LEMMA OptionsStep ==
    ASSUME MainTyped, OptionsRead, [StartupNext]_startupVars
    PROVE  OptionsRead'
<1>1. argv' = argv
  BY MainTypedStep
<1>2. \A option : Given(option)' = Given(option)
  BY <1>1 DEF Given
<1>3. ASSUME UNCHANGED <<optind, options>>,
             phase' \in {"options", "exited"} <=> phase \in {"options", "exited"}
      PROVE  OptionsRead'
  BY <1>1, <1>2, <1>3 DEF OptionsRead, LastRead
<1>4. CASE ParseOption
  <2>1. PICK k \in DOMAIN argv : /\ IsNextOption(k) /\ optind' = k + 1 /\ options' = Parsed(argv[k])
                                /\ phase' \in {"exited", "options"}
    BY <1>4 DEF ParseOption
  <2>2. /\ k \in 1..Len(argv) /\ optind \in Nat /\ optind <= k /\ argv[k] \in Argument
        /\ options \in [linkType : Nat, port : Nat]
    BY <2>1 DEF MainTyped, IsNextOption
  <2>3. ASSUME NEW option \in {"port", "transport"}, NEW j \in Given(option), j < optind'
        PROVE  j \in Nat /\ (j = k \/ (j < optind /\ j < k))
    <3>1. j \in 1..Len(argv) /\ argv[j].option # "none"
      BY <2>3 DEF Given, MainTyped
    <3>2. ~(j \in optind..(k - 1))
      BY <2>1, <3>1 DEF IsNextOption
    <3> QED BY <2>1, <2>2, <2>3, <3>1, <3>2
  <2>4. ASSUME NEW option \in {"port", "transport"}, NEW i \in DOMAIN argv, LastRead(option, i)'
        PROVE  \/ i = k /\ k \in Given(option)
               \/ LastRead(option, i) /\ k \notin Given(option)
    <3>1. /\ i \in Given(option) /\ i < optind'
          /\ \A j \in Given(option) : j < optind' => j <= i
      BY <1>2, <2>4 DEF LastRead
    <3>2. CASE i = k
      BY <3>1, <3>2
    <3>3. CASE i # k
      <4>1. i < optind /\ i < k /\ i \in Nat
        BY <2>3, <3>1, <3>3
      <4>2. k \notin Given(option)
        BY <2>1, <2>2, <3>1, <4>1
      <4>3. \A j \in Given(option) : j < optind => j <= i
        <5> SUFFICES ASSUME NEW j \in Given(option), j < optind PROVE j <= i
          OBVIOUS
        <5>1. j \in Nat
          BY DEF Given, MainTyped
        <5> QED BY <2>1, <2>2, <3>1, <5>1
      <4> QED BY <3>1, <4>1, <4>2, <4>3 DEF LastRead
    <3> QED BY <3>2, <3>3
  <2>5. k \in Given("port") => options'.port = argv[k].value
    BY <2>1, <2>2 DEF Given, Parsed
  <2>6. k \notin Given("port") => options'.port = options.port
    BY <2>1, <2>2 DEF Given, Parsed
  <2>7. k \in Given("transport") => options'.linkType = argv[k].value
    BY <2>1, <2>2 DEF Given, Parsed
  <2>8. k \notin Given("transport") => options'.linkType = options.linkType
    BY <2>1, <2>2 DEF Given, Parsed
  <2>9. ASSUME \A i \in DOMAIN argv : LastRead("port", i)' => argv[i].value = 0
        PROVE  options'.port = 0
    <3>1. CASE k \in Given("port")
      <4>1. LastRead("port", k)'
        BY <1>2, <2>1, <2>2, <2>3, <3>1 DEF LastRead
      <4> QED BY <2>5, <2>9, <3>1, <4>1
    <3>2. CASE k \notin Given("port")
      <4>1. \A i \in DOMAIN argv : LastRead("port", i) => LastRead("port", i)'
        <5> SUFFICES ASSUME NEW i \in DOMAIN argv, LastRead("port", i) PROVE LastRead("port", i)'
          OBVIOUS
        <5>1. /\ i \in Given("port") /\ i < optind /\ i \in Nat
              /\ \A j \in Given("port") : j < optind => j <= i
          BY DEF LastRead, MainTyped
        <5>2. \A j \in Given("port") : j < optind' => j <= i
          BY <2>3, <3>2, <5>1
        <5> QED BY <1>2, <2>1, <2>2, <5>1, <5>2 DEF LastRead
      <4> QED BY <1>4, <2>6, <2>9, <3>2, <4>1 DEF OptionsRead, ParseOption
    <3> QED BY <3>1, <3>2
  <2> QED BY <1>1, <2>1, <2>4, <2>5, <2>6, <2>7, <2>8, <2>9 DEF OptionsRead
<1>5. CASE OptionsParsed
  <2>1. /\ options' = [options EXCEPT !.port = IF @ = 0 THEN DEFAULT_PORT ELSE @]
        /\ optind' = optind /\ optind > Len(argv) /\ options \in [linkType : Nat, port : Nat]
    BY <1>5 DEF OptionsParsed, MainTyped
  <2>2. /\ options'.linkType = options.linkType /\ phase = "options" /\ phase' = "listening"
        /\ options'.port = IF options.port = 0 THEN DEFAULT_PORT ELSE options.port
    BY <1>5, <2>1 DEF OptionsParsed
  <2>3. \A i \in DOMAIN argv, option \in {"port", "transport"} :
            LastRead(option, i)' <=> LastRead(option, i)
    BY <1>2, <2>1 DEF LastRead
  <2> QED BY <1>1, <2>1, <2>2, <2>3 DEF OptionsRead
<1>6. CASE MainOnly /\ ~ParseOption /\ ~OptionsParsed
  BY <1>3, <1>6 DEF MainOnly, NoArguments, LinksCreated, Configured, TestReturns, CallOnNull
<1>7. CASE CreateLink \/ AcceptLink \/ Uses \/ UNCHANGED mainVars
  BY <1>3, <1>7 DEF CreateLink, AcceptLink, Uses, mainVars
<1>8. CASE UNCHANGED exceptDialled
  BY <1>3, <1>8 DEF exceptDialled
<1> QED BY <1>4, <1>5, <1>6, <1>7, <1>8, StepKinds

LEMMA NotYetStep ==
    ASSUME StartupInv, [StartupNext]_startupVars
    PROVE  NotYet'
<1> SUFFICES ASSUME phase' \in {"options", "exited"}
             PROVE  (\A h \in Handle : link'[h] = Unmade) /\ pc' = "idle"
  BY DEF NotYet
<1> USE DEF StartupInv
<1>1. CASE MainOnly
  <2>1. UNCHANGED linkVars /\ phase = "options"
    BY <1>1 DEF MainOnly, NoArguments, ParseOption, OptionsParsed, LinksCreated, Configured,
                TestReturns, CallOnNull
  <2> QED BY <2>1 DEF NotYet, linkVars
<1>2. ~CreateLink /\ ~AcceptLink
  BY DEF CreateLink, AcceptLink, mainVars
<1>3. CASE Uses
  <2>1. (\A h \in Handle : link[h] = Unmade) /\ pc = "idle"
    BY <1>3 DEF Uses, NotYet
  <2>2. \A h \in Handle : ~ReceiveWithTimeout(h) /\ ~Send(h)
    <3>1. \A h \in Handle : ~Using(h, UDP) /\ ~Using(h, TCP)
      BY <2>1 DEF Unmade, Using
    <3> QED BY <3>1 DEF ReceiveWithTimeout, Receive, ReceivesBuffer, ReceivesDatagram, ReceivesStream,
                        ReceivesEnd, ReceiveCrashes, PollFails, PollTimesOut, Send, SendDatagram,
                        SendStream, SendToClosed, SendTakesError, SendIsKilled
  <2>3. ~AcceptFails
    BY <2>1 DEF AcceptFails
  <2>4. World \/ UNCHANGED linkVars
    BY <1>3, <2>2, <2>3 DEF Uses
  <2> QED BY <2>1, <2>4, WorldSame DEF LinksInv, linkVars
<1>4. ASSUME NEW c \in Peer, NEW p \in Nat \ {0}, PeerConnects(c, p), UNCHANGED exceptDialled
      PROVE  (\A h \in Handle : link'[h] = Unmade) /\ pc' = "idle"
  BY <1>4 DEF PeerConnects, NotYet, exceptDialled
<1> QED BY <1>1, <1>2, <1>3, <1>4, StepKinds

\* A link that is made with a valid type is open.
LEMMA ListenOpens ==
    ASSUME LinkInv, NEW h \in Handle, NEW type \in {UDP, TCP}, NEW port \in Nat, Listen(h, type, port)
    PROVE  \A g \in Handle : link'[g].status \in {"open", link[g].status}
<1>1. \A new : Call(h, new) /\ new.status = "open" =>
          \A g \in Handle : link'[g].status \in {"open", link[g].status}
  BY DEF Call, LinkInv, Typed, LinksTyped
<1>2. ASSUME NEW t \in {UDP, TCP}, NEW d
      PROVE  NewLink(t).status = "open" /\ [NewLink(t) EXCEPT !.socket = d].status = "open"
  BY DEF NewLink, Unmade
<1>3. ASSUME NEW t \in {UDP, TCP}, SocketFails(h, t)
      PROVE  \A g \in Handle : link'[g].status \in {"open", link[g].status}
  BY <1>1, <1>2, <1>3 DEF SocketFails
<1>4. ListenUDP(h, port) \/ ListenTCP(h, port)
  BY Numbers DEF Listen
<1>5. ASSUME NEW t \in {UDP, TCP}, NEW d, Call(h, [NewLink(t) EXCEPT !.socket = d])
      PROVE  \A g \in Handle : link'[g].status \in {"open", link[g].status}
  <2> DEFINE new == [NewLink(t) EXCEPT !.socket = d]
  <2>1. new.status = "open" /\ Call(h, new)
    BY <1>2, <1>5
  <2> HIDE DEF new
  <2> QED BY <1>1, <2>1
<1> QED BY <1>3, <1>4, <1>5 DEF ListenUDP, ListenTCP

LEMMA NoneNullStep ==
    ASSUME StartupInv, [StartupNext]_startupVars
    PROVE  NoneNull'
<1> SUFFICES ASSUME TypeIsGiven
             PROVE  phase' # "crashed" /\ \A h \in Handle : link'[h].status # "null"
  BY MainTypedStep DEF StartupInv, NoneNull, TypeIsGiven, Decides, Given
<1> USE DEF StartupInv
<1>1. phase # "crashed" /\ \A h \in Handle : link[h].status # "null"
  BY DEF NoneNull
<1>2. ASSUME UNCHANGED link, phase' # "crashed"
      PROVE  phase' # "crashed" /\ \A h \in Handle : link'[h].status # "null"
  BY <1>1, <1>2
<1>3. CASE MainOnly
  <2>1. ~CallOnNull
    BY <1>1 DEF CallOnNull, MainTyped
  <2> QED BY <1>2, <1>3, <2>1 DEF MainOnly, NoArguments, ParseOption, OptionsParsed, LinksCreated,
                                  Configured, TestReturns, linkVars
<1>4. CASE CreateLink
  <2>1. /\ links + 1 \in Handle /\ Listen(links + 1, options.linkType, PortOf(links + 1))
        /\ phase = "listening" /\ phase' = phase
    BY <1>4, Rig DEF CreateLink, MainTyped
  <2>2. options.linkType \in {UDP, TCP}
    <3>1. PICK i \in DOMAIN argv : Decides("transport", i) /\ argv[i].value \in {UDP, TCP}
      BY DEF TypeIsGiven
    <3>2. optind > Len(argv) /\ \A j \in Given("transport") : j \in 1..Len(argv)
      BY <2>1 DEF OptionsRead, Given, MainTyped
    <3>3. LastRead("transport", i)
      BY <3>1, <3>2 DEF Decides, LastRead, MainTyped
    <3> QED BY <3>1, <3>3 DEF OptionsRead
  <2>3. PortOf(links + 1) \in Nat
    BY <2>1, LinkPortTyped
  <2> QED BY <1>1, <2>1, <2>2, <2>3, ListenOpens DEF LinksInv
<1>5. CASE AcceptLink
  <2>1. PICK d \in Fd : link' = [link EXCEPT ![accepting].target = d]
    BY <1>5 DEF AcceptLink, Accept
  <2>2. \A h \in Handle : link'[h].status = link[h].status
    BY <2>1 DEF LinksInv, LinkInv, Typed, LinksTyped, LinkType
  <2> QED BY <1>1, <1>5, <2>2 DEF AcceptLink, mainVars
<1>6. CASE Uses
  <2>1. phase' # "crashed"
    BY <1>1, <1>6 DEF Uses
  <2>2. \A h \in Handle : link'[h].status = link[h].status
    BY <1>6, ReceiveSame, SendSame, WorldSame DEF Uses, LinksInv, SamePorts, AcceptFails, linkVars
  <2> QED BY <1>1, <2>1, <2>2
<1>7. ASSUME NEW c \in Peer, NEW p \in Nat \ {0}, PeerConnects(c, p), UNCHANGED exceptDialled
      PROVE  phase' # "crashed" /\ \A h \in Handle : link'[h].status # "null"
  BY <1>1, <1>2, <1>7 DEF PeerConnects, exceptDialled
<1> QED BY <1>3, <1>4, <1>5, <1>6, <1>7, StepKinds

------------------------------------------------------------------------------
LEMMA StartupInitInv == StartupInit => StartupInv
<1> SUFFICES ASSUME StartupInit PROVE StartupInv
  OBVIOUS
<1>1. LinkInit /\ phase = "options" /\ argv \in Commands /\ optind = 1 /\ links = 0 /\ test = 0
      /\ flushing = 1 /\ dialled = 0
  BY DEF StartupInit
<1>2. PICK junk \in Leftover : options = [linkType |-> junk, port |-> 0]
  BY DEF StartupInit
<1>3. MainTyped
  BY <1>1, <1>2, Rig DEF MainTyped
<1>4. OptionsRead
  <2>1. \A option \in {"port", "transport"}, i \in DOMAIN argv : ~LastRead(option, i)
    BY <1>1, <1>3 DEF LastRead, MainTyped
  <2> QED BY <1>1, <1>2, <2>1 DEF OptionsRead
<1>5. (\A h \in Handle : link[h] = Unmade) /\ pc = "idle" /\ \A d \in Fd : sock[d] = ClosedSocket
  BY <1>1 DEF LinkInit
<1>6. NotYet /\ NoneNull /\ OpenLinks = {}
  BY <1>1, <1>5 DEF NotYet, NoneNull, OpenLinks, Unmade
<1>7. LinksInv
  BY <1>1, <1>5, LinkInitInv DEF LinksInv, ClosedAreEmpty, Places, AwayIsNowhere, OneStream, OnePlace,
                                 Streaming, Queued, ClosedSocket
<1>8. PortsInv
  BY <1>5, <1>6 DEF PortsInv, OwnPorts, AcceptsOwn, BacklogPorts, ClosedSocket
<1> QED BY <1>3, <1>4, <1>6, <1>7, <1>8 DEF StartupInv

LEMMA StartupInvariant == StartupSpec => []StartupInv
<1>1. StartupInv /\ [StartupNext]_startupVars => StartupInv'
  BY MainTypedStep, OptionsStep, NotYetStep, NoneNullStep, LinksStep, PortsStep DEF StartupInv
<1> QED BY <1>1, StartupInitInv, PTL DEF StartupSpec

\* main keeps its options, links and counters of their types, for every command line.
THEOREM StartupKeepsTypes == StartupSpec => []StartupTypeOK
<1>1. StartupInv => StartupTypeOK
  <2>1. LinkInv => LinkTypeOK
    BY DEF LinkInv, Typed, SocketsTyped, PeersTyped, LinksTyped, ProgramTyped, LinkTypeOK, LinkType,
           SocketType, PeerType, QueueTyped
  <2> QED BY <2>1 DEF StartupInv, LinksInv, MainTyped, StartupTypeOK
<1> QED BY <1>1, StartupInvariant, PTL

\* Whatever the command line, however often the script is run and its connections are refused, hung
\* up and made again, and whichever calls fail: no link of a running rig is on the port of another.
THEOREM LinksOnTheirPorts == StartupSpec => []LinksAreOnTheirPorts
<1>1. StartupInv => LinksAreOnTheirPorts
  <2> SUFFICES ASSUME StartupInv, phase \in {"configuring", "running", "flushing", "done"},
                      NEW first \in PortWanted, NEW h \in OpenLinks, Source(h) # Bad
               PROVE  LET own == (first + h - 1) % PortNumbers
                      IN  IF link[h].type = TCP THEN EndOf(Source(h)).port = own
                                                ELSE sock[Source(h)].port \in {own, 0}
    BY DEF LinksAreOnTheirPorts
  <2>1. /\ optind > Len(argv) /\ phase \notin {"options", "exited"}
        /\ \A j \in Given("port") : j \in DOMAIN argv /\ j < optind
    BY DEF StartupInv, OptionsRead, Given, MainTyped
  <2>2. \A i \in DOMAIN argv : LastRead("port", i) <=> Decides("port", i)
    BY <2>1 DEF Decides, LastRead
  <2>3. options.port = first
    <3>1. CASE PortsGiven = {}
      <4>1. \A i \in DOMAIN argv : Decides("port", i) => argv[i].value = 0
        BY <3>1 DEF PortsGiven, Decides
      <4> QED BY <2>1, <2>2, <3>1, <4>1 DEF PortWanted, StartupInv, OptionsRead
    <3>2. CASE PortsGiven # {}
      <4>1. PICK i \in Given("port") : Decides("port", i) /\ argv[i].value = first /\ first # 0
        BY <3>2 DEF PortWanted, PortsGiven
      <4> QED BY <2>1, <2>2, <4>1 DEF StartupInv, OptionsRead
    <3> QED BY <3>1, <3>2
  <2> QED BY <2>3 DEF StartupInv, PortsInv, OwnPorts, LinkPort, PortOf
<1> QED BY <1>1, StartupInvariant, PTL

\* A rig that was given a type never calls on a link that is NULL, whatever else it was given, and
\* whatever the memory of the options held before.
THEOREM TypedRigsHaveTheirLinks == StartupSpec => []TypedRigHasItsLinks
<1>1. StartupInv => TypedRigHasItsLinks
  BY DEF StartupInv, NoneNull, TypedRigHasItsLinks
<1> QED BY <1>1, StartupInvariant, PTL

=============================================================================
