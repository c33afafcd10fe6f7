---------------------------- MODULE LinkRefinement ----------------------------
(***************************************************************************)
(* As long as links and peers stay, the links implement Channel, the       *)
(* queues of packets the scripts are written against.                      *)
(***************************************************************************)
EXTENDS LinkProofs

\* What a program that strayed leaves behind: links still share no descriptor, and a descriptor that
\* was closed under its link is an empty socket.
KindsRemain ==
    \A h \in OpenLinks :
        /\ link[h].type = UDP => /\ link[h].target = Bad
                                 /\ link[h].socket # Bad => sock[link[h].socket].kind \in {"udp", "closed"}
        /\ link[h].type = TCP /\ link[h].target # Bad => sock[link[h].target].kind \in {"stream", "closed"}

ClosedAreEmpty == \A d \in Fd : sock[d].kind = "closed" => sock[d] = ClosedSocket

\* A connection is at one place: behind one stream, or once in one backlog.
Streaming(d, c) == sock[d].kind = "stream" /\ sock[d].peer = c
Queued(d, i, c) == sock[d].kind = "listening" /\ i \in DOMAIN sock[d].queue /\ sock[d].queue[i] = c

AwayIsNowhere ==
    \A c \in Peer : peer[c].state = "away" =>
        \A d \in Fd : ~Streaming(d, c) /\ \A i \in Nat : ~Queued(d, i, c)

OneStream == \A c \in Peer : \A d, e \in Fd : Streaming(d, c) /\ Streaming(e, c) => d = e

OnePlace ==
    \A c \in Peer : \A d, e \in Fd : \A i \in Nat :
        Queued(d, i, c) => /\ ~Streaming(e, c)
                           /\ \A j \in Nat : Queued(e, j, c) => d = e /\ i = j

Places == AwayIsNowhere /\ OneStream /\ OnePlace

ChannelInv == LinkInv /\ Apart /\ KindsRemain /\ ClosedAreEmpty /\ Places

------------------------------------------------------------------------------
(* The queues of the links. *)

\* What a step must leave alone for no queue to change.
LEMMA SameQueues ==
    ASSUME ChannelInv,
           \A h \in Handle : /\ link'[h].status = link[h].status /\ link'[h].type = link[h].type
                             /\ link'[h].socket = link[h].socket /\ link'[h].target = link[h].target,
           \A d \in Fd : sock[d].kind \in {"udp", "closed"} => sock'[d].queue = sock[d].queue,
           \A d \in Fd : sock[d].kind \in {"stream", "closed"} => sock'[d].peer = sock[d].peer,
           \A c \in Peer : peer'[c].stream = peer[c].stream
    PROVE  UnreadDatagrams' = UnreadDatagrams /\ UnreadParts' = UnreadParts
<1>1. OpenLinks' = OpenLinks /\ OpenLinks \subseteq Handle
  BY DEF OpenLinks
<1>2. \A h \in Handle : link[h].socket \in Fd \cup {Bad} /\ link[h].target \in Fd \cup {Bad}
  BY DEF ChannelInv, LinkInv, Typed, LinksTyped, LinkType
<1>3. \A h \in OpenLinks : link[h].type = UDP /\ link[h].socket # Bad =>
          sock'[link[h].socket].queue = sock[link[h].socket].queue
  BY <1>1, <1>2 DEF ChannelInv, KindsRemain
<1>4. ASSUME NEW d \in Fd, sock[d].kind \in {"stream", "closed"}
      PROVE  (EndOf(d).stream)' = EndOf(d).stream
  <2>1. sock'[d].peer = sock[d].peer
    BY <1>4
  <2>2. CASE sock[d].peer = NoPeer
    BY <2>1, <2>2 DEF EndOf, Away
  <2>3. CASE sock[d].peer # NoPeer
    <3>1. sock[d] \in SocketType
      BY DEF ChannelInv, LinkInv, Typed, SocketsTyped
    <3>2. sock[d].peer \in Peer
      BY <2>3, <3>1, SocketFields
    <3> QED BY <2>1, <2>3, <3>2 DEF EndOf
  <2> QED BY <2>2, <2>3
<1>5. \A h \in OpenLinks : link[h].type = TCP /\ link[h].target # Bad =>
          (EndOf(link[h].target).stream)' = EndOf(link[h].target).stream
  <2> SUFFICES ASSUME NEW h \in OpenLinks, link[h].type = TCP, link[h].target # Bad
               PROVE  (EndOf(link[h].target).stream)' = EndOf(link[h].target).stream
    <3>1. \A h \in OpenLinks : link'[h].target = link[h].target
      BY <1>1
    <3> QED BY <3>1 DEF EndOf
  <2>1. link[h].target \in Fd /\ sock[link[h].target].kind \in {"stream", "closed"}
    BY <1>1, <1>2 DEF ChannelInv, KindsRemain
  <2>2. sock'[link[h].target].peer = sock[link[h].target].peer
    BY <2>1
  <2>3. link'[h].target = link[h].target
    BY <1>1
  <2> QED BY <1>4, <2>1, <2>3 DEF EndOf
<1>6. UnreadDatagrams' = UnreadDatagrams
  BY <1>1, <1>3 DEF UnreadDatagrams
<1>7. UnreadParts' = UnreadParts
  BY <1>1, <1>5 DEF UnreadParts
<1> QED BY <1>6, <1>7

------------------------------------------------------------------------------
(* A connection is at one place only. *)

\* The socket d is one that a step may leave behind without taking up a connection.
Neutral(d) ==
    \/ sock'[d] = sock[d]
    \/ sock'[d] = ClosedSocket
    \/ sock'[d].kind = "udp"
    \/ sock'[d].kind = "listening" /\ sock'[d].queue = <<>>
    \/ sock'[d].kind = "stream" /\ sock'[d].peer = NoPeer

LEMMA PlacesKept ==
    ASSUME ClosedAreEmpty, Places, \A d \in Fd : Neutral(d),
           \A c \in Peer : peer'[c].state = "away" => peer[c].state = "away"
    PROVE  ClosedAreEmpty' /\ Places'
<1>1. ClosedAreEmpty'
  BY DEF ClosedAreEmpty, Neutral
<1>2. ASSUME NEW d \in Fd, NEW c \in Peer, Streaming(d, c)' PROVE Streaming(d, c)
  BY <1>2, Numbers DEF Streaming, Neutral, ClosedSocket
<1>3. ASSUME NEW d \in Fd, NEW i \in Nat, NEW c \in Peer, Queued(d, i, c)' PROVE Queued(d, i, c)
  BY <1>3 DEF Queued, Neutral, ClosedSocket
<1>4. AwayIsNowhere'
  BY <1>2, <1>3 DEF Places, AwayIsNowhere
<1>5. OneStream'
  BY <1>2 DEF Places, OneStream
<1>6. OnePlace'
  BY <1>2, <1>3 DEF Places, OnePlace
<1> QED BY <1>1, <1>4, <1>5, <1>6 DEF Places

\* A connection that is made goes to one stream.
LEMMA ConnectedStream ==
    ASSUME LinkInv, ClosedAreEmpty, Places, NEW d \in Fd, NEW c \in Peer, peer[c].state = "away",
           NEW s \in SocketType, s.kind = "stream", s.peer = c, sock' = [sock EXCEPT ![d] = s],
           peer'[c].state # "away", \A b \in Peer \ {c} : peer'[b] = peer[b]
    PROVE  ClosedAreEmpty' /\ Places'
<1>1. sock'[d] = s /\ \A e \in Fd \ {d} : sock'[e] = sock[e]
  BY DEF LinkInv, Typed, SocketsTyped
<1>2. ClosedAreEmpty'
  BY <1>1 DEF ClosedAreEmpty
<1>3. ASSUME NEW e \in Fd, NEW b \in Peer, Streaming(e, b)'
      PROVE  (e = d /\ b = c) \/ (b # c /\ Streaming(e, b))
  BY <1>1, <1>3 DEF Streaming, Places, AwayIsNowhere
<1>4. ASSUME NEW e \in Fd, NEW i \in Nat, NEW b \in Peer, Queued(e, i, b)'
      PROVE  b # c /\ Queued(e, i, b)
  BY <1>1, <1>4 DEF Queued, Places, AwayIsNowhere
<1>5. AwayIsNowhere'
  BY <1>3, <1>4 DEF Places, AwayIsNowhere
<1>6. OneStream'
  BY <1>3 DEF Places, OneStream
<1>7. OnePlace'
  BY <1>3, <1>4 DEF Places, OnePlace
<1> QED BY <1>2, <1>5, <1>6, <1>7 DEF Places

\* One that a peer makes goes to the end of one backlog.
LEMMA ConnectedBacklog ==
    ASSUME LinkInv, ClosedAreEmpty, Places, NEW c \in Peer, NEW p \in Nat, PeerConnects(c, p)
    PROVE  ClosedAreEmpty' /\ Places'
<1>1. PICK d \in Fd :
          /\ sock[d].kind = "listening"
          /\ sock' = [sock EXCEPT ![d].queue = Append(@, c)]
  BY DEF PeerConnects
<1>2. /\ sock \in [Fd -> SocketType] /\ sock[d].queue \in Seq(Peer)
  BY <1>1 DEF LinkInv, Typed, SocketsTyped, QueueTyped
<1> DEFINE longer == Append(sock[d].queue, c)
           n == Len(sock[d].queue)
<1>3. /\ n \in Nat /\ DOMAIN longer = 1..(n + 1) /\ DOMAIN sock[d].queue = 1..n
      /\ longer[n + 1] = c /\ \A i \in 1..n : longer[i] = sock[d].queue[i]
  BY <1>2
<1>4. sock'[d] = [sock[d] EXCEPT !.queue = longer] /\ \A e \in Fd \ {d} : sock'[e] = sock[e]
  BY <1>1, <1>2
<1> HIDE DEF longer, n
<1>5. sock[d] \in SocketType
  BY <1>2
<1>6. sock'[d].kind = "listening" /\ sock'[d].queue = longer
  BY <1>1, <1>4, <1>5 DEF SocketType
<1>7. peer[c].state = "away" /\ peer'[c].state # "away" /\ \A b \in Peer \ {c} : peer'[b] = peer[b]
  BY DEF PeerConnects, LinkInv, Typed, PeersTyped, PeerType
<1>8. ClosedAreEmpty'
  BY <1>4, <1>6 DEF ClosedAreEmpty
<1>9. ASSUME NEW e \in Fd, NEW b \in Peer, Streaming(e, b)'
      PROVE  b # c /\ Streaming(e, b)
  BY <1>4, <1>6, <1>7, <1>9 DEF Streaming, Places, AwayIsNowhere
<1>10. ASSUME NEW e \in Fd, NEW i \in Nat, NEW b \in Peer, Queued(e, i, b)'
       PROVE  (e = d /\ i = n + 1 /\ b = c) \/ (b # c /\ Queued(e, i, b))
  <2>1. CASE e = d
    <3>1. i \in 1..(n + 1) /\ longer[i] = b
      BY <1>3, <1>6, <1>10, <2>1 DEF Queued
    <3>2. CASE i = n + 1
      BY <1>3, <2>1, <3>1, <3>2
    <3>3. CASE i \in 1..n
      <4>1. Queued(d, i, b)
        BY <1>1, <1>3, <3>1, <3>3 DEF Queued
      <4> QED BY <1>7, <2>1, <4>1 DEF Places, AwayIsNowhere
    <3> QED BY <1>3, <3>1, <3>2, <3>3
  <2>2. CASE e # d
    <3>1. Queued(e, i, b)
      BY <1>4, <1>10, <2>2 DEF Queued
    <3> QED BY <1>7, <3>1 DEF Places, AwayIsNowhere
  <2> QED BY <2>1, <2>2
<1>11. AwayIsNowhere'
  BY <1>7, <1>9, <1>10 DEF Places, AwayIsNowhere
<1>12. OneStream'
  BY <1>9 DEF Places, OneStream
<1>13. OnePlace'
  BY <1>9, <1>10 DEF Places, OnePlace
<1> QED BY <1>8, <1>11, <1>12, <1>13 DEF Places

\* accept moves a connection from the head of a backlog to a stream.
LEMMA AcceptedConnection ==
    ASSUME LinkInv, ClosedAreEmpty, Places, Accept
    PROVE  ClosedAreEmpty' /\ Places'
<1> DEFINE s == link[accepting].socket
           c == Head(sock[s].queue)
           rest == Tail(sock[s].queue)
           n == Len(sock[s].queue)
<1>1. s \in Fd /\ sock[s].kind = "listening" /\ peer' = peer
  BY DEF Accept, LinkInv, Waiting
<1>2. PICK d \in Fd :
          /\ NextFd(d) /\ sock[s].queue # <<>>
          /\ sock' = [sock EXCEPT ![s].queue = rest,
                                  ![d] = [ClosedSocket EXCEPT !.kind = "stream", !.peer = c]]
  BY DEF Accept
<1>3. /\ sock \in [Fd -> SocketType] /\ sock[s].queue \in Seq(Peer) /\ sock[s] \in SocketType
      /\ sock[d].kind = "closed" /\ s # d
  BY <1>1, <1>2 DEF LinkInv, Typed, SocketsTyped, QueueTyped, NextFd
<1>4. /\ c \in Peer /\ n \in Nat \ {0} /\ c = sock[s].queue[1] /\ DOMAIN sock[s].queue = 1..n
      /\ DOMAIN rest = 1..(n - 1) /\ \A i \in 1..(n - 1) : rest[i] = sock[s].queue[i + 1]
  BY <1>2, <1>3
<1>5. /\ sock'[d] = [ClosedSocket EXCEPT !.kind = "stream", !.peer = c]
      /\ sock'[s] = [sock[s] EXCEPT !.queue = rest]
      /\ \A e \in Fd \ {s, d} : sock'[e] = sock[e]
  BY <1>1, <1>2, <1>3
<1> HIDE DEF s, c, rest, n
<1>6. /\ sock'[d].kind = "stream" /\ sock'[d].peer = c
      /\ sock'[s].kind = "listening" /\ sock'[s].queue = rest
  BY <1>1, <1>3, <1>5 DEF ClosedSocket, SocketType
<1>7. ClosedAreEmpty'
  BY <1>5, <1>6 DEF ClosedAreEmpty
<1>8. Queued(s, 1, c)
  BY <1>1, <1>4 DEF Queued
<1>9. ASSUME NEW e \in Fd, NEW b \in Peer, Streaming(e, b)'
      PROVE  (e = d /\ b = c) \/ (b # c /\ Streaming(e, b))
  <2>1. CASE e \in {s, d}
    BY <1>6, <1>9, <2>1 DEF Streaming
  <2>2. CASE e \notin {s, d}
    <3>1. Streaming(e, b)
      BY <1>5, <1>9, <2>2 DEF Streaming
    <3> QED BY <1>1, <1>8, <3>1 DEF Places, OnePlace
  <2> QED BY <2>1, <2>2
<1>10. ASSUME NEW e \in Fd, NEW i \in Nat, NEW b \in Peer, Queued(e, i, b)'
       PROVE  /\ b # c
              /\ e = s => Queued(e, i + 1, b)
              /\ e # s => Queued(e, i, b)
  <2>1. CASE e = s
    <3>1. i \in 1..(n - 1) /\ rest[i] = b
      BY <1>4, <1>6, <1>10, <2>1 DEF Queued
    <3>2. Queued(s, i + 1, b)
      BY <1>1, <1>4, <3>1 DEF Queued
    <3>3. i + 1 \in Nat /\ i + 1 # 1
      BY <3>1
    <3>4. b # c
      BY <1>1, <1>8, <3>2, <3>3 DEF Places, OnePlace
    <3> QED BY <2>1, <3>2, <3>4
  <2>2. CASE e # s
    <3>1. e # d
      BY <1>6, <1>10 DEF Queued
    <3>2. Queued(e, i, b)
      BY <1>5, <1>10, <2>2, <3>1 DEF Queued
    <3> QED BY <1>1, <1>4, <1>8, <2>2, <3>2 DEF Places, OnePlace
  <2> QED BY <2>1, <2>2
<1>11. AwayIsNowhere'
  <2> SUFFICES ASSUME NEW b \in Peer, peer[b].state = "away"
               PROVE  \A e \in Fd : ~Streaming(e, b)' /\ \A i \in Nat : ~Queued(e, i, b)'
    BY <1>1 DEF AwayIsNowhere
  <2>1. \A e \in Fd : ~Streaming(e, b) /\ \A i \in Nat : ~Queued(e, i, b)
    BY DEF Places, AwayIsNowhere
  <2>2. b # c
    BY <1>1, <1>8, <2>1
  <2>3. \A e \in Fd : ~Streaming(e, b)'
    BY <1>9, <2>1, <2>2
  <2>4. \A e \in Fd, i \in Nat : i + 1 \in Nat
    OBVIOUS
  <2>5. \A e \in Fd, i \in Nat : ~Queued(e, i, b)'
    BY <1>10, <2>1, <2>4
  <2> QED BY <2>3, <2>5
<1>12. OneStream'
  BY <1>9 DEF Places, OneStream
<1>13. OnePlace'
  <2> SUFFICES ASSUME NEW b \in Peer, NEW e \in Fd, NEW f \in Fd, NEW i \in Nat, Queued(e, i, b)'
               PROVE  /\ ~Streaming(f, b)'
                      /\ \A j \in Nat : Queued(f, j, b)' => e = f /\ i = j
    BY DEF OnePlace
  <2>1. PICK k \in Nat : Queued(e, k, b) /\ k = IF e = s THEN i + 1 ELSE i
    BY <1>10
  <2>2. b # c /\ ~Streaming(f, b) /\ \A j \in Nat : Queued(f, j, b) => e = f /\ k = j
    BY <1>10, <2>1 DEF Places, OnePlace
  <2>3. ~Streaming(f, b)'
    BY <1>9, <2>2
  <2>4. ASSUME NEW j \in Nat, Queued(f, j, b)' PROVE e = f /\ i = j
    <3>1. PICK m \in Nat : Queued(f, m, b) /\ m = IF f = s THEN j + 1 ELSE j
      BY <1>10, <2>4
    <3>2. e = f /\ k = m
      BY <2>2, <3>1
    <3> QED BY <2>1, <3>1, <3>2
  <2> QED BY <2>3, <2>4
<1> QED BY <1>7, <1>11, <1>12, <1>13 DEF Places

------------------------------------------------------------------------------
(* The steps that take up no connection. *)

\* No peer goes away again.
NoneAway == \A c \in Peer : peer'[c].state = "away" => peer[c].state = "away"

LEMMA MadeNeutral ==
    ASSUME LinkInv, NEW d \in Fd, NEW s, sock' = [sock EXCEPT ![d] = s],
           \/ s.kind = "udp"
           \/ s.kind = "listening" /\ s.queue = <<>>
           \/ s.kind = "stream" /\ s.peer = NoPeer
    PROVE  \A e \in Fd : Neutral(e)
<1>1. sock'[d] = s /\ \A e \in Fd \ {d} : sock'[e] = sock[e]
  BY DEF LinkInv, Typed, SocketsTyped
<1> QED BY <1>1 DEF Neutral

\* A call that makes a link changes its status, and the program goes on.
LEMMA Created ==
    ASSUME LinkInv, NEW h \in Handle, NEW new, Call(h, new), new.status # "unmade"
    PROVE  pc = "idle" /\ link'[h].status # link[h].status
<1>1. pc = "idle" /\ link[h].status = "unmade" /\ link' = [link EXCEPT ![h] = new]
  BY DEF Call, Unmade
<1> QED BY <1>1 DEF LinkInv, Typed, LinksTyped

LEMMA ListenNeutral ==
    ASSUME LinkInv, NEW h \in Handle, NEW type, NEW port \in Nat, Listen(h, type, port)
    PROVE  /\ \A d \in Fd : Neutral(d)
           /\ NoneAway /\ pc' # "strayed" /\ link'[h].status # link[h].status
<1>3. CASE type \notin {UDP, TCP}
  <2>1. Call(h, Null) /\ UNCHANGED <<sock, peer, pc, accepting, returned>>
    BY <1>3 DEF Listen
  <2>2. Null.status # "unmade"
    BY DEF Null, Unmade
  <2> QED BY <2>1, <2>2, Created DEF Neutral, NoneAway
<1>4. CASE SocketFails(h, type) /\ type \in {UDP, TCP}
  <2>1. Call(h, NewLink(type)) /\ UNCHANGED <<sock, peer, pc, accepting, returned>>
    BY <1>4 DEF SocketFails
  <2>2. NewLink(type).status # "unmade"
    BY DEF NewLink, Unmade
  <2> QED BY <2>1, <2>2, Created DEF Neutral, NoneAway
<1>5. CASE type = UDP /\ ListenUDP(h, port) /\ ~SocketFails(h, type)
  <2>1. PICK d \in Fd, p \in Binds("udp", port) :
            /\ Call(h, [NewLink(UDP) EXCEPT !.socket = d])
            /\ sock' = [sock EXCEPT ![d] = [ClosedSocket EXCEPT !.kind = "udp", !.port = p]]
            /\ UNCHANGED <<peer, pc, accepting, returned>>
    BY <1>5 DEF ListenUDP
  <2>2. [NewLink(UDP) EXCEPT !.socket = d].status # "unmade"
    BY DEF NewLink, Unmade
  <2>3. [ClosedSocket EXCEPT !.kind = "udp", !.port = p].kind = "udp"
    BY DEF ClosedSocket
  <2>4. \A e \in Fd : Neutral(e)
    BY <2>1, <2>3, MadeNeutral
  <2> QED BY <2>1, <2>2, <2>4, Created DEF NoneAway
<1>6. CASE type = TCP /\ ListenTCP(h, port) /\ ~SocketFails(h, type)
  <2>1. PICK d \in Fd, p \in Binds("listening", port) :
            /\ Call(h, [NewLink(TCP) EXCEPT !.socket = d])
            /\ sock' = [sock EXCEPT ![d] = [ClosedSocket EXCEPT !.kind = "listening", !.port = p]]
            /\ pc' = "accepting" /\ UNCHANGED <<peer, returned>>
    BY <1>6 DEF ListenTCP
  <2>2. [NewLink(TCP) EXCEPT !.socket = d].status # "unmade"
    BY DEF NewLink, Unmade
  <2>3. /\ [ClosedSocket EXCEPT !.kind = "listening", !.port = p].kind = "listening"
        /\ [ClosedSocket EXCEPT !.kind = "listening", !.port = p].queue = <<>>
    BY DEF ClosedSocket
  <2>4. \A e \in Fd : Neutral(e)
    BY <2>1, <2>3, MadeNeutral
  <2> QED BY <2>1, <2>2, <2>4, Created DEF NoneAway
<1> QED BY <1>3, <1>4, <1>5, <1>6, Numbers DEF Listen

\* Connecting is the one call that may take up a connection.
LEMMA ConnectPlaces ==
    ASSUME LinkInv, ClosedAreEmpty, Places, NEW h \in Handle, NEW type, NEW c \in Peer,
           Connect(h, type, c)
    PROVE  /\ ClosedAreEmpty' /\ Places'
           /\ pc' # "strayed" /\ link'[h].status # link[h].status
<1>3. CASE type \notin {UDP, TCP}
  <2>1. (\A e \in Fd : Neutral(e)) /\ NoneAway
    BY <1>3 DEF Connect, Neutral, NoneAway
  <2>2. Call(h, Null) /\ pc' = pc /\ Null.status # "unmade"
    BY <1>3 DEF Connect, Null, Unmade
  <2>3. pc' # "strayed" /\ link'[h].status # link[h].status
    BY <2>2, Created
  <2> QED BY <2>1, <2>3, PlacesKept DEF NoneAway
<1>4. CASE SocketFails(h, type) /\ type \in {UDP, TCP}
  <2>1. (\A e \in Fd : Neutral(e)) /\ NoneAway
    BY <1>4 DEF SocketFails, Neutral, NoneAway
  <2>2. Call(h, NewLink(type)) /\ pc' = pc /\ NewLink(type).status # "unmade"
    BY <1>4 DEF SocketFails, NewLink, Unmade
  <2>3. pc' # "strayed" /\ link'[h].status # link[h].status
    BY <2>2, Created
  <2> QED BY <2>1, <2>3, PlacesKept DEF NoneAway
<1>5. CASE type = UDP /\ ConnectUDP(h, c) /\ ~SocketFails(h, type)
  <2>1. PICK d \in Fd :
            /\ Call(h, [NewLink(UDP) EXCEPT !.socket = d, !.address = c])
            /\ sock' = [sock EXCEPT ![d] = [ClosedSocket EXCEPT !.kind = "udp"]]
            /\ UNCHANGED <<peer, pc, accepting, returned>>
    BY <1>5 DEF ConnectUDP
  <2>2. [NewLink(UDP) EXCEPT !.socket = d, !.address = c].status # "unmade"
    BY DEF NewLink, Unmade
  <2>3. pc' # "strayed" /\ link'[h].status # link[h].status
    BY <2>1, <2>2, Created
  <2>4. \A e \in Fd : Neutral(e)
    BY <2>1, BoundSocket, MadeNeutral
  <2> QED BY <2>1, <2>3, <2>4, PlacesKept
<1>6. CASE type = TCP /\ ConnectTCP(h, c) /\ ~SocketFails(h, type)
  <2>1. PICK d \in Fd, up \in BOOLEAN :
            /\ Call(h, [NewLink(TCP) EXCEPT !.socket = d, !.target = d])
            /\ IF up THEN peer[c].state = "away" ELSE "connect" \in MayFail
            /\ sock' = [sock EXCEPT ![d] = [ClosedSocket EXCEPT !.kind = "stream",
                                                                !.peer = IF up THEN c ELSE NoPeer]]
            /\ peer' = IF up THEN [peer EXCEPT ![c].state = "connected"] ELSE peer
            /\ pc' = pc
    BY <1>6 DEF ConnectTCP
  <2>2. [NewLink(TCP) EXCEPT !.socket = d, !.target = d].status # "unmade"
    BY DEF NewLink, Unmade
  <2>3. pc' # "strayed" /\ link'[h].status # link[h].status
    BY <2>1, <2>2, Created
  <2> DEFINE s == [ClosedSocket EXCEPT !.kind = "stream", !.peer = IF up THEN c ELSE NoPeer]
  <2>4. s \in SocketType /\ s.kind = "stream" /\ s.peer = IF up THEN c ELSE NoPeer
    BY BoundSocket DEF ClosedSocket
  <2>5. sock' = [sock EXCEPT ![d] = s]
    BY <2>1
  <2> HIDE DEF s
  <2>6. CASE up
    <3>1. peer[c].state = "away" /\ peer' = [peer EXCEPT ![c].state = "connected"]
      BY <2>1, <2>6
    <3>2. peer'[c].state # "away" /\ \A b \in Peer \ {c} : peer'[b] = peer[b]
      BY <3>1 DEF LinkInv, Typed, PeersTyped, PeerType
    <3>3. s.peer = c
      BY <2>4, <2>6
    <3>4. ClosedAreEmpty' /\ Places'
      BY <2>4, <2>5, <3>1, <3>2, <3>3, ConnectedStream
    <3> QED BY <2>3, <3>4
  <2>7. CASE ~up
    <3>1. \A e \in Fd : Neutral(e)
      BY <2>4, <2>5, <2>7, MadeNeutral
    <3>2. \A b \in Peer : peer'[b].state = "away" => peer[b].state = "away"
      BY <2>1, <2>7
    <3> QED BY <2>3, <3>1, <3>2, PlacesKept
  <2> QED BY <2>6, <2>7
<1> QED BY <1>3, <1>4, <1>5, <1>6, Numbers DEF Connect

\* A socket that receives or sends datagrams stays one.
LEMMA DatagramsNeutral ==
    ASSUME LinkInv, NEW d \in Fd, sock[d].kind = "udp", NEW s, s.kind = sock[d].kind,
           sock' = [sock EXCEPT ![d] = s]
    PROVE  \A e \in Fd : Neutral(e) /\ sock'[e].kind = sock[e].kind
<1>1. sock'[d] = s /\ \A e \in Fd \ {d} : sock'[e] = sock[e]
  BY DEF LinkInv, Typed, SocketsTyped
<1> QED BY <1>1 DEF Neutral

LEMMA ReceiveNeutral ==
    ASSUME LinkInv, NEW h \in Handle, ReceiveWithTimeout(h)
    PROVE  (\A d \in Fd : Neutral(d)) /\ NoneAway /\ pc' # "strayed"
<1>1. pc = "idle" /\ pc' \in {"idle", "down"}
  BY DEF ReceiveWithTimeout, Receive, ReceivesBuffer, ReceivesDatagram, ReceivesStream, ReceivesEnd,
         ReceiveCrashes, PollFails, PollTimesOut, Using
<1>2. CASE ReceivesDatagram(h)
  <2> DEFINE d == link[h].socket
             s == [sock[d] EXCEPT !.queue = Tail(sock[d].queue)]
  <2>1. Using(h, UDP) /\ Readable(d) /\ peer' = peer /\ sock' = [sock EXCEPT ![d] = s]
    BY <1>2 DEF ReceivesDatagram
  <2>2. d \in Fd /\ sock[d].kind = "udp" /\ sock[d] \in SocketType
    BY <2>1, UsedLink DEF Readable, LinkInv, Typed, SocketsTyped
  <2>3. s.kind = sock[d].kind
    BY <2>2 DEF SocketType
  <2> HIDE DEF d, s
  <2>4. \A e \in Fd : Neutral(e)
    BY <2>1, <2>2, <2>3, DatagramsNeutral
  <2> QED BY <1>1, <2>1, <2>4 DEF NoneAway
<1>3. CASE ReceivesStream(h)
  <2>1. sock' = sock /\ \A c \in Peer : peer'[c].state = peer[c].state
    <3> DEFINE c == sock[link[h].target].peer
    <3>1. peer' = [peer EXCEPT ![c].stream = LaterParts(@)] /\ sock' = sock
      BY <1>3 DEF ReceivesStream
    <3> QED BY <3>1 DEF LinkInv, Typed, PeersTyped, PeerType
  <2> QED BY <1>1, <2>1 DEF Neutral, NoneAway
<1>4. CASE ReceivesEnd(h) \/ ReceiveCrashes(h) \/ PollFails(h) \/ PollTimesOut(h)
  BY <1>1, <1>4 DEF ReceivesEnd, ReceiveCrashes, PollFails, PollTimesOut, Neutral, NoneAway
<1> QED BY <1>2, <1>3, <1>4 DEF ReceiveWithTimeout, Receive, ReceivesBuffer

\* What a send does to the connection behind it.
LEMMA SendResets ==
    ASSUME LinkInv, NEW h \in Handle, SendToClosed(h) \/ SendTakesError(h)
    PROVE  /\ UNCHANGED <<link, sock, returned>>
           /\ \A b \in Peer : /\ peer'[b].state \in {"reset", "gone", peer[b].state}
                              /\ peer'[b].stream = peer[b].stream
<1> DEFINE c == sock[link[h].target].peer
           q == AfterReset(c)
<1>1. q \in {"reset", "gone"} /\ peer \in [Peer -> PeerType]
  BY DEF AfterReset, LinkInv, Typed, PeersTyped
<1>2. CASE SendToClosed(h)
  <2>1. peer' = [peer EXCEPT ![c].state = q, ![c].wire = <<>>] /\ UNCHANGED <<link, sock, returned>>
    BY <1>2 DEF SendToClosed
  <2> HIDE DEF q, c
  <2> QED BY <1>1, <2>1 DEF PeerType
<1>3. CASE SendTakesError(h)
  <2>1. peer' = [peer EXCEPT ![c].state = "gone"] /\ UNCHANGED <<link, sock, returned>>
    BY <1>3 DEF SendTakesError
  <2> HIDE DEF q, c
  <2> QED BY <1>1, <2>1 DEF PeerType
<1> QED BY <1>2, <1>3

LEMMA SendNeutral ==
    ASSUME LinkInv, NEW h \in Handle, Send(h)
    PROVE  (\A d \in Fd : Neutral(d)) /\ NoneAway /\ pc' # "strayed"
<1>1. pc = "idle" /\ pc' \in {"idle", "down"}
  BY DEF Send, SendDatagram, SendStream, SendToClosed, SendTakesError, SendIsKilled, Using,
         linkVars
<1>2. CASE SendDatagram(h)
  <2> DEFINE d == link[h].socket
             s == [sock[d] EXCEPT !.peer = link[h].address]
  <2>1. Using(h, UDP) /\ peer' = peer /\ sock' = IF d = Bad THEN sock ELSE [sock EXCEPT ![d] = s]
    BY <1>2 DEF SendDatagram
  <2>2. CASE d = Bad
    BY <1>1, <2>1, <2>2 DEF Neutral, NoneAway
  <2>3. CASE d # Bad
    <3>1. d \in Fd /\ sock[d].kind = "udp" /\ sock[d] \in SocketType
      BY <2>1, <2>3, UsedLink DEF LinkInv, Typed, SocketsTyped
    <3>2. s.kind = sock[d].kind
      BY <3>1 DEF SocketType
    <3> HIDE DEF d, s
    <3>3. \A e \in Fd : Neutral(e)
      BY <2>1, <2>3, <3>1, <3>2, DatagramsNeutral
    <3> QED BY <1>1, <2>1, <3>3 DEF NoneAway
  <2> QED BY <2>2, <2>3
<1>3. CASE SendToClosed(h) \/ SendTakesError(h)
  <2>1. sock' = sock /\ \A b \in Peer : peer'[b].state \in {"reset", "gone", peer[b].state}
    BY <1>3, SendResets
  <2> QED BY <1>1, <2>1 DEF Neutral, NoneAway
<1>4. CASE SendStream(h) \/ SendIsKilled(h)
  BY <1>1, <1>4 DEF SendStream, SendIsKilled, linkVars, Neutral, NoneAway
<1> QED BY <1>2, <1>3, <1>4 DEF Send

LEMMA CloseNeutral ==
    ASSUME LinkInv, NEW h \in Handle, Close(h)
    PROVE  /\ \A d \in Fd : Neutral(d) /\ sock'[d].kind \in {sock[d].kind, "closed"}
           /\ NoneAway /\ link[h].status \in {"open", "closed"} /\ link'[h].status = "closed"
           /\ OpenLinks' \subseteq OpenLinks /\ \A g \in OpenLinks' : link'[g] = link[g]
<1>1. PICK fds : sock' = Closing(fds)
  BY DEF Close
<1>2. \A d \in Fd : sock'[d] \in {sock[d], ClosedSocket} /\ ClosedSocket.kind = "closed"
  BY <1>1 DEF Closing, ClosedSocket
<1>3. /\ link' = [link EXCEPT ![h].status = "closed"] /\ link[h].status \in {"open", "closed"}
      /\ peer' = peer
  BY DEF Close
<1>4. link'[h].status = "closed" /\ \A g \in Handle \ {h} : link'[g] = link[g]
  BY <1>3 DEF LinkInv, Typed, LinksTyped, LinkType
<1> QED BY <1>2, <1>3, <1>4 DEF Neutral, NoneAway, OpenLinks

\* A call on a closed link changes no descriptor.
LEMMA UseClosedNeutral ==
    ASSUME NEW h \in Handle, UseClosed(h)
    PROVE  (\A d \in Fd : Neutral(d)) /\ NoneAway /\ UNCHANGED <<link, sock, peer>>
BY DEF UseClosed, UsesAnothers, ReceivesFromNothing, Neutral, NoneAway

LEMMA WorldNeutral ==
    ASSUME LinkInv, World
    PROVE  /\ \A d \in Fd : Neutral(d) /\ sock'[d].kind = sock[d].kind
           /\ NoneAway /\ UNCHANGED <<link, pc, accepting, returned>>
<1>1. PICK c \in Peer : \/ PeerWrites(c) \/ StreamArrives(c) \/ PeerCloses(c) \/ PeerResets(c)
                        \/ \E d \in Fd, k \in 1..Writes : DatagramArrives(c, d, k)
  BY DEF World
<1>2. peer \in [Peer -> PeerType]
  BY DEF LinkInv, Typed, PeersTyped
<1>3. CASE PeerWrites(c)
  BY <1>2, <1>3 DEF PeerWrites, PeerType, Neutral, NoneAway
<1>4. CASE StreamArrives(c)
  BY <1>2, <1>4 DEF StreamArrives, PeerType, Neutral, NoneAway
<1>5. CASE PeerCloses(c)
  BY <1>2, <1>5 DEF PeerCloses, PeerType, Neutral, NoneAway
<1>6. CASE PeerResets(c)
  <2>1. PICK kept : peer' = [peer EXCEPT ![c].state = AfterReset(c), ![c].wire = <<>>,
                                         ![c].stream = kept]
    BY <1>6 DEF PeerResets
  <2>2. \A b \in Peer : peer'[b].state \in {"reset", "gone", peer[b].state}
    BY <1>2, <2>1 DEF AfterReset, PeerType
  <2> QED BY <1>6, <2>2 DEF PeerResets, Neutral, NoneAway
<1>7. ASSUME NEW d \in Fd, NEW k \in 1..Writes, DatagramArrives(c, d, k)
      PROVE  /\ \A e \in Fd : Neutral(e) /\ sock'[e].kind = sock[e].kind
             /\ NoneAway /\ UNCHANGED <<link, pc, accepting, returned>>
  <2> DEFINE s == [sock[d] EXCEPT !.queue = Append(sock[d].queue, [from |-> c, packet |-> k])]
  <2>1. /\ sock' = [sock EXCEPT ![d] = s] /\ sock[d].kind = "udp" /\ peer' = peer
        /\ UNCHANGED <<link, pc, accepting, returned>>
    BY <1>7 DEF DatagramArrives
  <2>2. s.kind = sock[d].kind
    BY DEF LinkInv, Typed, SocketsTyped, SocketType
  <2> HIDE DEF s
  <2> QED BY <2>1, <2>2, DatagramsNeutral DEF NoneAway
<1> QED BY <1>1, <1>3, <1>4, <1>5, <1>6, <1>7

------------------------------------------------------------------------------
(* Every step keeps the connections at their places, and the links apart. *)

LEMMA PlacesStep ==
    ASSUME ChannelInv, [LinkNext]_linkVars
    PROVE  ClosedAreEmpty' /\ Places'
<1> USE DEF ChannelInv
<1>1. ASSUME \A d \in Fd : Neutral(d), NoneAway PROVE ClosedAreEmpty' /\ Places'
  BY <1>1, PlacesKept DEF NoneAway
<1>2. CASE UNCHANGED linkVars
  BY <1>1, <1>2 DEF linkVars, Neutral, NoneAway
<1>3. CASE World
  BY <1>1, <1>3, WorldNeutral
<1>4. CASE \E c \in Peer, p \in Ports : PeerConnects(c, p)
  BY <1>4, ConnectedBacklog, Numbers
<1>5. CASE Program
  <2>1. CASE \E h \in Handle, type \in LinkTypes, port \in Ports : Listen(h, type, port)
    BY <1>1, <2>1, ListenNeutral, Numbers
  <2>2. CASE \E h \in Handle, type \in LinkTypes, c \in Peer : Connect(h, type, c)
    BY <2>2, ConnectPlaces
  <2>3. CASE Accept
    BY <2>3, AcceptedConnection
  <2>4. CASE AcceptFails
    BY <1>1, <2>4 DEF AcceptFails, Neutral, NoneAway
  <2>5. CASE \E h \in Handle : ReceiveWithTimeout(h) \/ Send(h) \/ Close(h) \/ UseClosed(h)
    BY <1>1, <2>5, ReceiveNeutral, SendNeutral, CloseNeutral, UseClosedNeutral
  <2> QED BY <1>5, <2>1, <2>2, <2>3, <2>4, <2>5 DEF Program
<1> QED BY <1>2, <1>3, <1>4, <1>5 DEF LinkNext

\* The steps of a program that strayed, and the one by which it does, make no link and turn no
\* descriptor into another kind of socket.
Straying ==
    /\ OpenLinks' \subseteq OpenLinks
    /\ \A h \in OpenLinks' : link'[h] = link[h]
    /\ \A d \in Fd : sock'[d].kind \in {sock[d].kind, "closed"}

LEMMA StrayingSteps ==
    ASSUME ChannelInv, [LinkNext]_linkVars, pc' = "strayed"
    PROVE  Straying
<1> USE DEF ChannelInv
<1>1. ASSUME link' = link, \A d \in Fd : sock'[d].kind = sock[d].kind PROVE Straying
  BY <1>1 DEF Straying, OpenLinks
<1>2. CASE UNCHANGED linkVars
  BY <1>1, <1>2 DEF linkVars
<1>3. CASE World
  BY <1>1, <1>3, WorldNeutral
<1>4. ASSUME NEW c \in Peer, NEW p \in Ports, PeerConnects(c, p) PROVE Straying
  BY <1>1, <1>4 DEF PeerConnects, LinkInv, Typed, SocketsTyped, SocketType
<1>5. CASE Program
  <2>1. pc' # "strayed" \/ \E h \in Handle : Close(h) \/ UseClosed(h)
    BY <1>5, ListenNeutral, ConnectPlaces, ReceiveNeutral, SendNeutral, Numbers
       DEF Program, Accept, AcceptFails
  <2> QED BY <1>1, <2>1, CloseNeutral, UseClosedNeutral DEF Straying
<1> QED BY <1>2, <1>3, <1>4, <1>5 DEF LinkNext

LEMMA ApartStep ==
    ASSUME ChannelInv, [LinkNext]_linkVars
    PROVE  LinkInv' /\ Apart' /\ KindsRemain'
<1>1. LinkInv'
  BY NextKeepsLinks DEF ChannelInv
<1>2. CASE pc' # "strayed"
  BY <1>1, <1>2 DEF LinkInv, Matched, KindsMatch, KindsRemain
<1>3. CASE pc' = "strayed"
  <2>1. Straying
    BY <1>3, StrayingSteps
  <2>2. Apart'
    BY <2>1 DEF ChannelInv, Straying, Apart, Holds
  <2>3. ASSUME NEW h \in OpenLinks'
        PROVE  /\ h \in OpenLinks /\ link'[h] = link[h]
               /\ link[h].socket \in Fd \cup {Bad} /\ link[h].target \in Fd \cup {Bad}
    BY <2>1 DEF Straying, OpenLinks, ChannelInv, LinkInv, Typed, LinksTyped, LinkType
  <2>4. KindsRemain'
    <3> SUFFICES ASSUME NEW h \in OpenLinks'
                 PROVE  /\ link[h].type = UDP =>
                              /\ link[h].target = Bad
                              /\ link[h].socket # Bad => sock'[link[h].socket].kind \in {"udp", "closed"}
                        /\ link[h].type = TCP /\ link[h].target # Bad =>
                              sock'[link[h].target].kind \in {"stream", "closed"}
      BY <2>3 DEF KindsRemain
    <3> QED BY <2>1, <2>3 DEF ChannelInv, Straying, KindsRemain
  <2> QED BY <1>1, <2>2, <2>4
<1> QED BY <1>2, <1>3

LEMMA ChannelInvariant == LinkSpec => []ChannelInv
<1>1. LinkInit => ChannelInv
  <2> SUFFICES ASSUME LinkInit PROVE ChannelInv
    OBVIOUS
  <2>1. \A d \in Fd : sock[d] = ClosedSocket
    BY DEF LinkInit
  <2>2. OpenLinks = {}
    BY DEF LinkInit, OpenLinks, Unmade
  <2> QED BY <2>1, <2>2, LinkInitInv DEF ChannelInv, Apart, KindsRemain, ClosedAreEmpty, Places,
             AwayIsNowhere, OneStream, OnePlace, Streaming, Queued, ClosedSocket
<1>2. ChannelInv /\ [LinkNext]_linkVars => ChannelInv'
  BY PlacesStep, ApartStep DEF ChannelInv
<1> QED BY <1>1, <1>2, PTL DEF LinkSpec

------------------------------------------------------------------------------
(* Every step that settles is a step of the channel. *)

LEMMA QuietMatches ==
    ASSUME UnreadDatagrams' = UnreadDatagrams, UnreadParts' = UnreadParts, returned' = returned
    PROVE  \A h \in Handle : MatchesChannel(h)
BY DEF MatchesChannel, HandsOutNull, HandsOutBuffer

LEMMA UnreadFunctions ==
    /\ UnreadDatagrams = [h \in Handle |-> UnreadDatagrams[h]]
    /\ UnreadParts = [h \in Handle |-> UnreadParts[h]]
    /\ (UnreadDatagrams = [h \in Handle |-> UnreadDatagrams[h]])'
    /\ (UnreadParts = [h \in Handle |-> UnreadParts[h]])'
BY DEF UnreadDatagrams, UnreadParts

\* NULL is returned when poll fails, or nothing is queued on the link.
LEMMA NullMatches ==
    ASSUME ChannelInv, NEW h \in Handle, PollFails(h) \/ PollTimesOut(h)
    PROVE  \A g \in Handle : MatchesChannel(g)
<1>1. PICK type \in {UDP, TCP} : Using(h, type)
  BY DEF PollFails, PollTimesOut
<1>2. /\ UNCHANGED <<link, sock, peer>> /\ returned' = [link |-> h, null |-> TRUE, parts |-> <<>>]
      /\ "poll" \in MayFail \/ ~Readable(Source(h))
  BY DEF PollFails, PollTimesOut, ReturnsNull
<1>3. UnreadDatagrams' = UnreadDatagrams /\ UnreadParts' = UnreadParts
  BY <1>2, SameQueues
<1>4. "poll" \in MayFail \/ (UnreadDatagrams[h] = <<>> /\ UnreadParts[h] = <<>>)
  <2> SUFFICES ASSUME ~Readable(Source(h)) PROVE UnreadDatagrams[h] = <<>> /\ UnreadParts[h] = <<>>
    BY <1>2
  <2>1. CASE type = UDP
    <3>1. link[h].type = UDP /\ Source(h) = link[h].socket
      BY <1>1, <2>1 DEF Using, Source
    <3>2. link[h].socket # Bad => sock[link[h].socket].kind = "udp"
      BY <1>1, <2>1, UsedLink DEF ChannelInv
    <3> QED BY <3>1, <3>2, Numbers DEF Readable, UnreadDatagrams, UnreadParts
  <2>2. CASE type = TCP
    <3>1. link[h].type = TCP /\ Source(h) = link[h].target
      BY <1>1, <2>2, Numbers DEF Using, Source
    <3>2. link[h].target # Bad => sock[link[h].target].kind = "stream"
      BY <1>1, <2>2, UsedLink DEF ChannelInv
    <3> QED BY <3>1, <3>2, Numbers DEF Readable, UnreadDatagrams, UnreadParts
  <2> QED BY <2>1, <2>2
<1>5. Datagrams!ReceivesNothing(h) /\ Streams!ReceivesNothing(h)
  BY <1>3, <1>4 DEF Datagrams!ReceivesNothing, Streams!ReceivesNothing
<1>6. \A g \in Handle : HandsOutNull(g) => g = h
  BY <1>2 DEF HandsOutNull
<1>7. \A g \in Handle : ~HandsOutBuffer(g)
  BY <1>2 DEF HandsOutBuffer
<1> QED BY <1>3, <1>5, <1>6, <1>7 DEF MatchesChannel

\* The queue of a socket that an open UDP link reads from is the queue of that link alone.
LEMMA OwnQueue ==
    ASSUME ChannelInv, UNCHANGED <<peer, pc>>, NEW d \in Fd, NEW queue, sock[d].kind = "udp",
           sock' = [sock EXCEPT ![d].queue = queue],
           \A h \in Handle : /\ link'[h].status = link[h].status /\ link'[h].type = link[h].type
                             /\ link'[h].socket = link[h].socket /\ link'[h].target = link[h].target
    PROVE  /\ UnreadParts' = UnreadParts
           /\ \A h \in OpenLinks : link[h].type = UDP /\ link[h].socket = d =>
                 /\ UnreadDatagrams[h] = sock[d].queue
                 /\ UnreadDatagrams' = [UnreadDatagrams EXCEPT ![h] = queue]
           /\ (\A h \in OpenLinks : ~(link[h].type = UDP /\ link[h].socket = d)) =>
                 UnreadDatagrams' = UnreadDatagrams
<1>1. /\ sock \in [Fd -> SocketType] /\ OpenLinks' = OpenLinks /\ OpenLinks \subseteq Handle
      /\ link \in [Handle -> LinkType]
  BY DEF ChannelInv, LinkInv, Typed, SocketsTyped, LinksTyped, OpenLinks
<1>2. /\ sock'[d].queue = queue /\ sock'[d].kind = "udp"
      /\ \A e \in Fd : sock'[e].kind = sock[e].kind /\ sock'[e].peer = sock[e].peer
      /\ \A e \in Fd \ {d} : sock'[e] = sock[e]
  BY <1>1 DEF SocketType
<1>3. \A h \in Handle : link[h].socket \in Fd \cup {Bad} /\ link[h].target \in Fd \cup {Bad}
  BY <1>1 DEF LinkType
<1>4. UnreadParts' = UnreadParts
  <2>1. \A h \in Handle : link[h].target # Bad =>
            (EndOf(link[h].target).stream)' = EndOf(link[h].target).stream
    BY <1>2, <1>3 DEF EndOf
  <2> QED BY <1>1, <2>1 DEF UnreadParts
<1>5. ASSUME NEW h \in Handle, ~(h \in OpenLinks /\ link[h].type = UDP /\ link[h].socket = d)
      PROVE  UnreadDatagrams'[h] = UnreadDatagrams[h]
  BY <1>1, <1>2, <1>3, <1>5 DEF UnreadDatagrams
<1>6. ASSUME NEW h \in OpenLinks, link[h].type = UDP, link[h].socket = d
      PROVE  /\ UnreadDatagrams[h] = sock[d].queue
             /\ UnreadDatagrams' = [UnreadDatagrams EXCEPT ![h] = queue]
  <2>1. UnreadDatagrams[h] = sock[d].queue /\ UnreadDatagrams'[h] = queue
    BY <1>1, <1>2, <1>6, Numbers DEF UnreadDatagrams
  <2>2. \A g \in OpenLinks : link[g].type = UDP /\ link[g].socket = d => g = h
    BY <1>6 DEF ChannelInv, Apart, Holds
  <2>3. \A g \in Handle \ {h} : UnreadDatagrams'[g] = UnreadDatagrams[g]
    BY <1>5, <2>2
  <2> QED BY <1>1, <2>1, <2>3, UnreadFunctions
<1>7. ASSUME \A h \in OpenLinks : ~(link[h].type = UDP /\ link[h].socket = d)
      PROVE  UnreadDatagrams' = UnreadDatagrams
  BY <1>5, <1>7, UnreadFunctions
<1> QED BY <1>4, <1>6, <1>7

\* recvfrom hands out the oldest datagram of its link.
LEMMA DatagramMatches ==
    ASSUME ChannelInv, NEW h \in Handle, ReceivesDatagram(h)
    PROVE  \A g \in Handle : MatchesChannel(g)
<1> DEFINE d == link[h].socket
           first == Head(sock[d].queue)
           rest == Tail(sock[d].queue)
<1>1. /\ Using(h, UDP) /\ Readable(d) /\ UNCHANGED <<peer, pc, accepting>>
      /\ sock' = [sock EXCEPT ![d].queue = rest] /\ link' = [link EXCEPT ![h].address = first.from]
      /\ returned' = [link |-> h, null |-> FALSE, parts |-> FirstParts(PartsOf(first.packet))]
  BY DEF ReceivesDatagram, ReturnsBuffer
<1>2. /\ d \in Fd /\ sock[d].kind = "udp" /\ sock[d].queue # <<>>
      /\ h \in OpenLinks /\ link[h].type = UDP
  BY <1>1, UsedLink DEF Readable, Using, ChannelInv
<1>3. \A g \in Handle : /\ link'[g].status = link[g].status /\ link'[g].type = link[g].type
                        /\ link'[g].socket = link[g].socket /\ link'[g].target = link[g].target
  BY <1>1 DEF ChannelInv, LinkInv, Typed, LinksTyped, LinkType
<1>4. sock[d].queue \in Seq(Datagram)
  BY <1>2 DEF ChannelInv, LinkInv, Typed, SocketsTyped, QueueTyped
<1>5. first \in Datagram /\ rest = SubSeq(sock[d].queue, 1 + 1, Len(sock[d].queue))
  BY <1>2, <1>4, TailIsSubSeq
<1> HIDE DEF d, first, rest
<1>6. /\ UnreadParts' = UnreadParts /\ UnreadDatagrams[h] = sock[d].queue
      /\ UnreadDatagrams' = [UnreadDatagrams EXCEPT ![h] = rest]
  <2>1. link[h].socket = d
    BY DEF d
  <2>2. /\ UnreadParts' = UnreadParts
        /\ \A g \in OpenLinks : link[g].type = UDP /\ link[g].socket = d =>
              /\ UnreadDatagrams[g] = sock[d].queue
              /\ UnreadDatagrams' = [UnreadDatagrams EXCEPT ![g] = rest]
    BY <1>1, <1>2, <1>3, OwnQueue
  <2> QED BY <1>2, <2>1, <2>2
<1>7. Datagrams!Receives(h, first)
  <2>1. Datagrams!TakenAtOnce = 1
    BY DEF Datagrams!TakenAtOnce
  <2>2. first = Head(UnreadDatagrams[h])
    BY <1>6 DEF first
  <2> QED BY <1>2, <1>5, <1>6, <2>1, <2>2 DEF Datagrams!Receives
<1>8. MatchesChannel(h)
  BY <1>1, <1>5, <1>7 DEF MatchesChannel, HandsOutNull
<1>9. ASSUME NEW g \in Handle, g # h PROVE MatchesChannel(g)
  <2>1. ~HandsOutNull(g) /\ ~HandsOutBuffer(g)
    BY <1>1, <1>9 DEF HandsOutNull, HandsOutBuffer
  <2>2. UnreadDatagrams'[g] = UnreadDatagrams[g]
    BY <1>6, <1>9, UnreadFunctions
  <2> QED BY <1>6, <2>1, <2>2 DEF MatchesChannel
<1> QED BY <1>8, <1>9

\* A datagram that arrives is queued on the link whose socket it reaches, if it is one's.
LEMMA DatagramArrivesMatches ==
    ASSUME ChannelInv, NEW c \in Peer, NEW d \in Fd, NEW k \in 1..Writes, DatagramArrives(c, d, k)
    PROVE  \A g \in Handle : MatchesChannel(g)
<1> DEFINE datagram == [from |-> c, packet |-> k]
           longer == Append(sock[d].queue, datagram)
<1>1. /\ sock[d].kind = "udp" /\ Len(sock[d].queue) < QueueLimit
      /\ sock' = [sock EXCEPT ![d].queue = longer]
      /\ UNCHANGED <<link, peer, pc, accepting, returned>>
  BY DEF DatagramArrives
<1>2. datagram \in Datagram
  BY DEF Datagram
<1> HIDE DEF datagram
<1>3. /\ UnreadParts' = UnreadParts
      /\ \A h \in OpenLinks : link[h].type = UDP /\ link[h].socket = d =>
            /\ UnreadDatagrams[h] = sock[d].queue
            /\ UnreadDatagrams' = [UnreadDatagrams EXCEPT ![h] = longer]
      /\ (\A h \in OpenLinks : ~(link[h].type = UDP /\ link[h].socket = d)) =>
            UnreadDatagrams' = UnreadDatagrams
  <2> HIDE DEF longer
  <2> QED BY <1>1, OwnQueue
<1>4. CASE \A h \in OpenLinks : ~(link[h].type = UDP /\ link[h].socket = d)
  BY <1>1, <1>3, <1>4, QuietMatches
<1>5. ASSUME NEW h \in OpenLinks, link[h].type = UDP, link[h].socket = d
      PROVE  \A g \in Handle : MatchesChannel(g)
  <2>1. /\ UnreadDatagrams[h] = sock[d].queue /\ h \in Handle
        /\ UnreadDatagrams' = [UnreadDatagrams EXCEPT ![h] = longer]
    BY <1>3, <1>5 DEF OpenLinks
  <2>2. Datagrams!Deliver(h, datagram)
    BY <1>1, <2>1 DEF Datagrams!Deliver
  <2>3. MatchesChannel(h)
    BY <1>1, <1>2, <2>2 DEF MatchesChannel, HandsOutNull
  <2>4. ASSUME NEW g \in Handle, g # h PROVE MatchesChannel(g)
    <3>1. ~HandsOutNull(g) /\ ~HandsOutBuffer(g)
      BY <1>1 DEF HandsOutNull, HandsOutBuffer
    <3>2. UnreadDatagrams'[g] = UnreadDatagrams[g]
      BY <2>1, <2>4, UnreadFunctions
    <3> QED BY <1>3, <3>1, <3>2 DEF MatchesChannel
  <2> QED BY <2>3, <2>4
<1> QED BY <1>4, <1>5

\* The stream of a connection is what an open TCP link over it reads, and no other.
LEMMA OwnStream ==
    ASSUME ChannelInv, UNCHANGED <<link, sock, pc>>, NEW c \in Peer, NEW stream,
           peer'[c].stream = stream, \A b \in Peer \ {c} : peer'[b].stream = peer[b].stream
    PROVE  /\ UnreadDatagrams' = UnreadDatagrams
           /\ \A h \in OpenLinks :
                 link[h].type = TCP /\ link[h].target # Bad /\ sock[link[h].target].peer = c =>
                     /\ UnreadParts[h] = peer[c].stream
                     /\ UnreadParts' = [UnreadParts EXCEPT ![h] = stream]
           /\ (\A h \in OpenLinks :
                  ~(link[h].type = TCP /\ link[h].target # Bad /\ sock[link[h].target].peer = c)) =>
                 UnreadParts' = UnreadParts
<1> DEFINE Over(h) == link[h].type = TCP /\ link[h].target # Bad /\ sock[link[h].target].peer = c
<1>1. OpenLinks' = OpenLinks /\ OpenLinks \subseteq Handle /\ c # NoPeer
  BY Numbers DEF OpenLinks
<1>2. ASSUME NEW h \in Handle
      PROVE  /\ link[h].socket \in Fd \cup {Bad} /\ link[h].target \in Fd \cup {Bad}
             /\ link[h].target \in Fd => sock[link[h].target].peer \in Peer \cup {NoPeer}
  <2>1. link[h].socket \in Fd \cup {Bad} /\ link[h].target \in Fd \cup {Bad}
    BY DEF ChannelInv, LinkInv, Typed, LinksTyped, LinkType
  <2>2. \A d \in Fd : sock[d] \in SocketType
    BY DEF ChannelInv, LinkInv, Typed, SocketsTyped
  <2> QED BY <2>1, <2>2, SocketFields
<1>3. UnreadDatagrams' = UnreadDatagrams
  BY <1>1 DEF UnreadDatagrams
<1>4. ASSUME NEW h \in Handle, ~(h \in OpenLinks /\ Over(h))
      PROVE  UnreadParts'[h] = UnreadParts[h]
  <2>1. CASE h \in OpenLinks /\ link[h].type = TCP /\ link[h].target # Bad
    <3>1. (EndOf(link[h].target).stream)' = EndOf(link[h].target).stream
      BY <1>2, <1>4, <2>1 DEF EndOf, Away
    <3> QED BY <1>1, <2>1, <3>1 DEF UnreadParts
  <2>2. CASE ~(h \in OpenLinks /\ link[h].type = TCP /\ link[h].target # Bad)
    BY <1>1, <2>2 DEF UnreadParts
  <2> QED BY <2>1, <2>2
<1>5. ASSUME NEW h \in OpenLinks, Over(h)
      PROVE  /\ UnreadParts[h] = peer[c].stream
             /\ UnreadParts' = [UnreadParts EXCEPT ![h] = stream]
  <2>1. /\ UnreadParts[h] = peer[c].stream
        /\ UnreadParts'[h] = stream
    <3>1. EndOf(link[h].target) = peer[c] /\ EndOf(link[h].target)' = peer'[c]
      BY <1>1, <1>5 DEF EndOf
    <3> QED BY <1>1, <1>5, <3>1 DEF UnreadParts
  <2>2. ASSUME NEW g \in OpenLinks, Over(g) PROVE g = h /\ link[g].target \in Fd
    <3>1. \A f \in {g, h} : link[f].target \in Fd /\ Streaming(link[f].target, c)
      <4> SUFFICES ASSUME NEW f \in OpenLinks, Over(f)
                   PROVE  link[f].target \in Fd /\ Streaming(link[f].target, c)
        BY <1>5, <2>2
      <4>1. link[f].target \in Fd /\ sock[link[f].target].kind \in {"stream", "closed"}
        BY <1>1, <1>2 DEF ChannelInv, KindsRemain
      <4> QED BY <1>1, <4>1 DEF ChannelInv, ClosedAreEmpty, ClosedSocket, Streaming
    <3>2. link[g].target = link[h].target
      BY <3>1 DEF ChannelInv, Places, OneStream
    <3> QED BY <3>1, <3>2 DEF ChannelInv, Apart, Holds
  <2>3. \A g \in Handle \ {h} : UnreadParts'[g] = UnreadParts[g]
    BY <1>4, <2>2
  <2> QED BY <1>1, <2>1, <2>3, UnreadFunctions
<1>6. ASSUME \A h \in OpenLinks : ~Over(h) PROVE UnreadParts' = UnreadParts
  BY <1>4, <1>6, UnreadFunctions
<1> QED BY <1>3, <1>5, <1>6

\* recv hands out what the stream of its link holds, as much as fits in the buffer.
LEMMA StreamMatches ==
    ASSUME ChannelInv, NEW h \in Handle, ReceivesStream(h)
    PROVE  \A g \in Handle : MatchesChannel(g)
<1> DEFINE d == link[h].target
           c == sock[d].peer
           held == peer[c].stream
<1>1. /\ Using(h, TCP) /\ Readable(d) /\ EndOf(d).stream # <<>>
      /\ UNCHANGED <<link, sock, pc, accepting>>
      /\ returned' = [link |-> h, null |-> FALSE, parts |-> FirstParts(EndOf(d).stream)]
      /\ peer' = [peer EXCEPT ![c].stream = LaterParts(@)]
  BY DEF ReceivesStream, ReturnsBuffer
<1>2. d \in Fd /\ d # Bad /\ h \in OpenLinks /\ link[h].type = TCP
  BY <1>1, UsedLink DEF Readable, Using, ChannelInv
<1>3. c \in Peer /\ EndOf(d) = peer[c] /\ peer[c] \in PeerType
  BY <1>1, <1>2, StreamOfPeer DEF Away, ChannelInv
<1>4. /\ peer'[c].stream = LaterParts(held)
      /\ \A b \in Peer \ {c} : peer'[b].stream = peer[b].stream
  BY <1>1, <1>3 DEF ChannelInv, LinkInv, Typed, PeersTyped, PeerType
<1>5. held \in Seq(Part) /\ held # <<>> /\ Head(held) \in Part
  <2>1. held \in Seq(Part) /\ held # <<>>
    BY <1>1, <1>3 DEF PeerType
  <2> QED BY <2>1
<1>6. link[h].target = d /\ sock[d].peer = c
  OBVIOUS
<1> HIDE DEF d, c
<1>7. /\ UnreadDatagrams' = UnreadDatagrams /\ UnreadParts[h] = held
      /\ UnreadParts' = [UnreadParts EXCEPT ![h] = LaterParts(held)]
  <2> HIDE DEF held
  <2>1. /\ UnreadDatagrams' = UnreadDatagrams
        /\ \A g \in OpenLinks :
              link[g].type = TCP /\ link[g].target # Bad /\ sock[link[g].target].peer = c =>
                  /\ UnreadParts[g] = peer[c].stream
                  /\ UnreadParts' = [UnreadParts EXCEPT ![g] = LaterParts(held)]
    BY <1>1, <1>3, <1>4, OwnStream
  <2> QED BY <1>2, <1>6, <2>1 DEF held
<1>8. returned'.parts = FirstParts(UnreadParts[h])
  BY <1>1, <1>3, <1>7
<1>9. Streams!Receives(h, Head(held))
  <2>1. LaterParts(held) = SubSeq(held, MTU + 1, Len(held)) /\ Streams!TakenAtOnce = MTU
    BY DEF LaterParts, Streams!TakenAtOnce
  <2> HIDE DEF held
  <2> QED BY <1>5, <1>7, <2>1 DEF Streams!Receives
<1>10. MatchesChannel(h)
  BY <1>1, <1>5, <1>8, <1>9 DEF MatchesChannel, HandsOutNull
<1>11. ASSUME NEW g \in Handle, g # h PROVE MatchesChannel(g)
  <2>1. ~HandsOutNull(g) /\ ~HandsOutBuffer(g)
    BY <1>1, <1>11 DEF HandsOutNull, HandsOutBuffer
  <2>2. UnreadParts'[g] = UnreadParts[g]
    BY <1>7, <1>11, UnreadFunctions
  <2> QED BY <1>7, <2>1, <2>2 DEF MatchesChannel
<1> QED BY <1>10, <1>11

\* A part that arrives is queued on the link over its stream, if there is one.
LEMMA StreamArrivesMatches ==
    ASSUME ChannelInv, NEW c \in Peer, StreamArrives(c)
    PROVE  \A g \in Handle : MatchesChannel(g)
<1> DEFINE part == Head(peer[c].wire)
           longer == Append(peer[c].stream, part)
<1>1. /\ peer[c].wire # <<>> /\ Len(peer[c].stream) < QueueLimit
      /\ peer' = [peer EXCEPT ![c].stream = longer, ![c].wire = Tail(@)]
      /\ UNCHANGED <<link, sock, pc, accepting, returned>>
  BY DEF StreamArrives
<1>2. peer \in [Peer -> PeerType] /\ peer[c].wire \in Seq(Part)
  BY DEF ChannelInv, LinkInv, Typed, PeersTyped, PeerType
<1>3. part \in Part
  BY <1>1, <1>2
<1>4. peer'[c].stream = longer /\ \A b \in Peer \ {c} : peer'[b].stream = peer[b].stream
  BY <1>1, <1>2 DEF PeerType
<1> DEFINE Over(h) == link[h].type = TCP /\ link[h].target # Bad /\ sock[link[h].target].peer = c
<1>5. /\ UnreadDatagrams' = UnreadDatagrams
      /\ \A h \in OpenLinks :
            Over(h) => /\ UnreadParts[h] = peer[c].stream
                       /\ UnreadParts' = [UnreadParts EXCEPT ![h] = longer]
      /\ (\A h \in OpenLinks : ~Over(h)) => UnreadParts' = UnreadParts
  <2> HIDE DEF longer
  <2> QED BY <1>1, <1>4, OwnStream
<1>6. CASE \A h \in OpenLinks : ~Over(h)
  BY <1>1, <1>5, <1>6, QuietMatches
<1>7. ASSUME NEW h \in OpenLinks, Over(h) PROVE \A g \in Handle : MatchesChannel(g)
  <2>1. /\ UnreadParts[h] = peer[c].stream /\ h \in Handle
        /\ UnreadParts' = [UnreadParts EXCEPT ![h] = longer]
    BY <1>5, <1>7 DEF OpenLinks
  <2> HIDE DEF part, Over
  <2>2. Streams!Deliver(h, part)
    BY <1>1, <2>1 DEF Streams!Deliver
  <2>3. MatchesChannel(h)
    BY <1>1, <1>3, <2>2 DEF MatchesChannel, HandsOutNull
  <2>4. ASSUME NEW g \in Handle, g # h PROVE MatchesChannel(g)
    <3>1. ~HandsOutNull(g) /\ ~HandsOutBuffer(g)
      BY <1>1 DEF HandsOutNull, HandsOutBuffer
    <3>2. UnreadParts'[g] = UnreadParts[g]
      BY <2>1, <2>4, UnreadFunctions
    <3> QED BY <1>5, <3>1, <3>2 DEF MatchesChannel
  <2> QED BY <2>3, <2>4
<1> QED BY <1>6, <1>7

\* A step that leaves the links, and what they may read, as they were.
LEMMA QuietStep ==
    ASSUME ChannelInv, UNCHANGED <<link, returned>>,
           \A d \in Fd : sock[d].kind \in {"udp", "closed"} => sock'[d].queue = sock[d].queue,
           \A d \in Fd : sock[d].kind \in {"stream", "closed"} => sock'[d].peer = sock[d].peer,
           \A c \in Peer : peer'[c].stream = peer[c].stream
    PROVE  \A g \in Handle : MatchesChannel(g)
BY SameQueues, QuietMatches

LEMMA ReceiveMatches ==
    ASSUME ChannelInv, Settled, NEW h \in Handle, ReceiveWithTimeout(h)
    PROVE  \A g \in Handle : MatchesChannel(g)
<1>1. CASE ReceivesDatagram(h)
  BY <1>1, DatagramMatches
<1>2. CASE ReceivesStream(h)
  BY <1>2, StreamMatches
<1>3. CASE PollFails(h) \/ PollTimesOut(h)
  BY <1>3, NullMatches
<1>4. CASE ReceiveCrashes(h)
  BY <1>4, QuietStep DEF ReceiveCrashes
<1>5. ~ReceivesEnd(h)
  <2> SUFFICES ASSUME ReceivesEnd(h) PROVE FALSE
    OBVIOUS
  <2> DEFINE d == link[h].target
  <2>1. Using(h, TCP) /\ d # Bad /\ EndOf(d).state \in {"closed", "gone"}
    BY DEF ReceivesEnd, AtEnd
  <2>2. d \in Fd
    BY <2>1, UsedLink DEF ChannelInv
  <2>3. sock[d].peer \in Peer /\ EndOf(d) = peer[sock[d].peer]
    BY <2>1, <2>2, StreamOfPeer DEF Away, ChannelInv
  <2> QED BY <2>1, <2>3 DEF Settled
<1> QED BY <1>1, <1>2, <1>3, <1>4, <1>5 DEF ReceiveWithTimeout, Receive, ReceivesBuffer

LEMMA SendMatches ==
    ASSUME ChannelInv, NEW h \in Handle, Send(h)
    PROVE  \A g \in Handle : MatchesChannel(g)
<1>1. CASE SendDatagram(h)
  <2> DEFINE d == link[h].socket
             s == [sock[d] EXCEPT !.peer = link[h].address]
  <2>1. /\ Using(h, UDP) /\ UNCHANGED <<link, peer, returned>>
        /\ sock' = IF d = Bad THEN sock ELSE [sock EXCEPT ![d] = s]
    BY <1>1 DEF SendDatagram
  <2>2. CASE d = Bad
    BY <2>1, <2>2, QuietStep
  <2>3. CASE d # Bad
    <3>1. /\ d \in Fd /\ sock[d].kind = "udp" /\ sock[d] \in SocketType
          /\ sock \in [Fd -> SocketType]
      BY <2>1, <2>3, UsedLink DEF ChannelInv, LinkInv, Typed, SocketsTyped
    <3>2. s.queue = sock[d].queue
      BY <3>1 DEF SocketType
    <3> HIDE DEF d, s
    <3>3. sock'[d] = s /\ \A e \in Fd \ {d} : sock'[e] = sock[e]
      BY <2>1, <2>3, <3>1
    <3> QED BY <2>1, <3>1, <3>2, <3>3, QuietStep
  <2> QED BY <2>2, <2>3
<1>2. CASE SendToClosed(h) \/ SendTakesError(h)
  BY <1>2, SendResets, QuietStep DEF ChannelInv
<1>3. CASE SendStream(h) \/ SendIsKilled(h)
  BY <1>3, QuietStep DEF SendStream, SendIsKilled, linkVars
<1> QED BY <1>1, <1>2, <1>3 DEF Send

\* A call on a closed link returns NULL, or is not followed further.
LEMMA UseClosedMatches ==
    ASSUME ChannelInv, Settled, NEW h \in Handle, UseClosed(h)
    PROVE  \A g \in Handle : MatchesChannel(g)
<1>1. ReceivesFromNothing(h) /\ h \notin OpenLinks /\ UNCHANGED <<link, sock, peer>>
  BY DEF UseClosed, UsesAnothers, ReceivesFromNothing, Settled, UsingClosed, OpenLinks
<1>2. UnreadDatagrams' = UnreadDatagrams /\ UnreadParts' = UnreadParts
  BY <1>1, SameQueues
<1>3. CASE returned' = returned
  BY <1>2, <1>3, QuietMatches
<1>4. CASE returned' = [link |-> h, null |-> TRUE, parts |-> <<>>]
  <2>1. UnreadDatagrams[h] = <<>> /\ UnreadParts[h] = <<>>
    BY <1>1 DEF UnreadDatagrams, UnreadParts
  <2>2. Datagrams!ReceivesNothing(h) /\ Streams!ReceivesNothing(h)
    BY <1>2, <2>1 DEF Datagrams!ReceivesNothing, Streams!ReceivesNothing
  <2>3. \A g \in Handle : ~HandsOutBuffer(g) /\ (HandsOutNull(g) => g = h)
    BY <1>4 DEF HandsOutNull, HandsOutBuffer
  <2> QED BY <1>2, <2>2, <2>3 DEF MatchesChannel
<1> QED BY <1>1, <1>3, <1>4 DEF ReceivesFromNothing, ReturnsNull

\* A second Close, which closes nothing.
LEMMA CloseMatches ==
    ASSUME ChannelInv, Settled, NEW h \in Handle, Close(h)
    PROVE  \A g \in Handle : MatchesChannel(g)
<1>1. link[h].status = "closed" /\ link' = [link EXCEPT ![h].status = "closed"] /\ returned' = returned
  BY CloseNeutral DEF Settled, Close, ChannelInv
<1>2. link' = link /\ UNCHANGED peer
  BY <1>1 DEF Close, ChannelInv, LinkInv, Typed, LinksTyped, LinkType
<1>3. PICK fds : /\ sock' = Closing(fds)
                 /\ pc' = IF \E d \in fds \ Own(h) : IsOpen(d) THEN "strayed" ELSE pc
  BY DEF Close
<1>4. \A d \in Fd : sock'[d] = sock[d]
  <2>1. \A d \in Fd : d \in fds => sock[d].kind = "closed"
    BY <1>1, <1>3, Numbers DEF Settled, Own, IsOpen
  <2> QED BY <1>3, <2>1 DEF Closing, ChannelInv, ClosedAreEmpty
<1> QED BY <1>1, <1>2, <1>4, QuietStep

LEMMA WorldMatches ==
    ASSUME ChannelInv, Settled, World
    PROVE  \A g \in Handle : MatchesChannel(g)
<1>1. peer \in [Peer -> PeerType]
  BY DEF ChannelInv, LinkInv, Typed, PeersTyped
<1>2. ASSUME NEW c \in Peer, PeerWrites(c) \/ PeerCloses(c) PROVE \A g \in Handle : MatchesChannel(g)
  <2>1. CASE PeerWrites(c)
    <3> DEFINE wire == peer[c].wire \o PartsOf(peer[c].written + 1)
               count == peer[c].written + 1
    <3>1. /\ UNCHANGED <<link, sock, returned>>
          /\ peer' = [peer EXCEPT ![c].written = count, ![c].wire = wire]
      BY <2>1 DEF PeerWrites
    <3> HIDE DEF wire, count
    <3>2. \A b \in Peer : peer'[b].stream = peer[b].stream
      BY <1>1, <3>1 DEF PeerType
    <3> QED BY <3>1, <3>2, QuietStep
  <2>2. CASE PeerCloses(c)
    <3>1. UNCHANGED <<link, sock, returned>> /\ \A b \in Peer : peer'[b].stream = peer[b].stream
      BY <1>1, <2>2 DEF PeerCloses, PeerType
    <3> QED BY <3>1, QuietStep
  <2> QED BY <1>2, <2>1, <2>2
<1>3. ASSUME NEW c \in Peer, PeerResets(c) PROVE FALSE
  <2>1. peer[c].state = "connected" /\ peer'[c].state = AfterReset(c)
    BY <1>1, <1>3 DEF PeerResets, PeerType, Settled
  <2> QED BY <2>1 DEF Settled, AfterReset
<1> QED BY <1>2, <1>3, StreamArrivesMatches, DatagramArrivesMatches DEF World

LEMMA StepMatches ==
    ASSUME ChannelInv, [LinkNext]_linkVars, Settled
    PROVE  \A g \in Handle : MatchesChannel(g)
<1>1. CASE UNCHANGED linkVars
  BY <1>1, QuietStep DEF linkVars
<1>2. CASE World
  BY <1>2, WorldMatches
<1>3. ASSUME NEW c \in Peer, NEW p \in Ports, PeerConnects(c, p)
      PROVE  \A g \in Handle : MatchesChannel(g)
  <2>1. PICK d \in Fd : sock[d].kind = "listening" /\ sock' = [sock EXCEPT ![d].queue = Append(@, c)]
    BY <1>3 DEF PeerConnects
  <2>2. \A e \in Fd : sock'[e].peer = sock[e].peer /\ (e # d => sock'[e] = sock[e])
    BY <2>1 DEF ChannelInv, LinkInv, Typed, SocketsTyped, SocketType
  <2>3. UNCHANGED <<link, returned>> /\ \A b \in Peer : peer'[b].stream = peer[b].stream
    BY <1>3 DEF PeerConnects, ChannelInv, LinkInv, Typed, PeersTyped, PeerType
  <2> QED BY <2>1, <2>2, <2>3, QuietStep
<1>4. CASE Program
  <2>1. ~\E h \in Handle, type \in LinkTypes, port \in Ports : Listen(h, type, port)
    BY ListenNeutral, Numbers DEF Settled, ChannelInv
  <2>2. ~\E h \in Handle, type \in LinkTypes, c \in Peer : Connect(h, type, c)
    BY ConnectPlaces DEF Settled, ChannelInv
  <2>3. ~Accept
    <3> SUFFICES ASSUME Accept PROVE FALSE
      OBVIOUS
    <3>1. PICK d \in Fd : link' = [link EXCEPT ![accepting].target = d]
      BY DEF Accept
    <3>2. accepting \in Handle /\ link[accepting].target = Bad
      BY DEF Accept, ChannelInv, LinkInv, Waiting, OpenLinks
    <3>3. link'[accepting].target = d
      BY <3>1, <3>2 DEF ChannelInv, LinkInv, Typed, LinksTyped, LinkType
    <3> QED BY <3>2, <3>3, Numbers DEF Settled
  <2>4. CASE AcceptFails
    BY <2>4, QuietStep DEF AcceptFails
  <2> QED BY <1>4, <2>1, <2>2, <2>3, <2>4, ReceiveMatches, SendMatches, CloseMatches,
             UseClosedMatches DEF Program
<1> QED BY <1>1, <1>2, <1>3, <1>4 DEF LinkNext

\* For any number of links, descriptors and peers, and whichever calls fail, the links that stay are
\* the Channel the scripts are written against: datagrams and parts of streams are queued in order
\* on their own link only, and handed out once, oldest first; and NULL is returned only when nothing
\* is queued or poll failed.
THEOREM LinksImplementChannel == LinkSpec => ImplementsChannel
<1>1. ChannelInv /\ [LinkNext]_linkVars => [Settled => \A h \in Handle : MatchesChannel(h)]_linkVars
  BY StepMatches
<1> QED BY <1>1, ChannelInvariant, PTL DEF LinkSpec, ImplementsChannel

=============================================================================
