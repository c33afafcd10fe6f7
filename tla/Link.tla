-------------------------------- MODULE Link --------------------------------
(***************************************************************************)
(* The links (ccnxTestrig_Link.c) over the sockets they are made of, with  *)
(* the kernel and the programs at the other ends.  A listening TCP link    *)
(* accepts one connection and never another; a listening UDP link sends to *)
(* whoever sent the datagram it read last.  A TCP stream may cut a packet  *)
(* into parts, and ends when the peer closes or resets the connection.     *)
(*                                                                         *)
(* Descriptors are the numbers 1, 2, ... in the order the kernel gives     *)
(* them out, the lowest free one first; Bad stands for -1.                 *)
(***************************************************************************)
EXTENDS Integers, Sequences

CONSTANTS
    Handle,       \* the links a program creates: numbers, as main's are those of LinkA, LinkB, LinkC
    Peer,         \* the sockets of other programs; each makes one connection at most
    NoPeer,       \* a model value: no peer, or an address that is none
    Parts,        \* in how many parts a TCP stream may cut a packet
    MTU,          \* how many parts fit in the buffer handed to recv and recvfrom
    MaxConnections,  \* MAX_NUMBER_OF_TCP_CONNECTIONS, the backlog handed to listen
    Occupied,     \* the ports other programs hold
    MayFail,      \* the calls that may fail: some of "socket", "bind", "accept", "connect", "poll"
    MayHangUp,    \* whether peers close and reset their connections
    LinkTypes,    \* bound: the types Listen and Connect are called with
    Ports,        \* bound: the ports they are called with
    MaxFd,        \* bound: the descriptors
    QueueLimit,   \* bound: what a socket queues
    Writes        \* bound: the packets of a peer

UDP == 0
TCP == 1
Bad == 0
Fd  == 1..MaxFd

\* A port is sixteen bits wide.
PortNumbers == 65536
Port == 0..(PortNumbers - 1)

ASSUME LinkAssumption ==
    /\ Handle # {} /\ NoPeer \notin Peer /\ Ports \subseteq Nat
    /\ Parts \in Nat \ {0} /\ MTU \in Nat \ {0} /\ MaxConnections \in Nat
    /\ MayFail \subseteq {"socket", "bind", "accept", "connect", "poll"}
    /\ MayHangUp \in BOOLEAN
    /\ MaxFd \in Nat /\ QueueLimit \in Nat /\ Writes \in Nat

VARIABLES
    link,       \* per handle, the structure behind it
    sock,       \* per descriptor, the socket behind it
    peer,       \* per peer, its connection
    pc,         \* "idle" between two calls, "accepting", "down": the program was killed, or
                \* "strayed": a call used a descriptor of something else, and it is not followed further
    accepting,  \* the handle whose link waits in accept
    returned    \* what the last receive returned, and of which link

linkVars == <<link, sock, peer, pc, accepting, returned>>

\* The part i of packet k.
Part      == (1..Writes) \X (1..Parts)
PartsOf(k) == [i \in 1..Parts |-> <<k, i>>]
Datagram  == [from : Peer, packet : 1..Writes]

Unmade == [status |-> "unmade", type |-> UDP, socket |-> Bad, target |-> Bad, address |-> NoPeer]

\* _create_link, and the type its caller sets.
NewLink(type) == [Unmade EXCEPT !.status = "open", !.type = type]

Null == [Unmade EXCEPT !.status = "null"]

ClosedSocket == [kind |-> "closed", port |-> 0, queue |-> <<>>, peer |-> NoPeer]

Away == [state |-> "away", port |-> 0, stream |-> <<>>, wire |-> <<>>, written |-> 0]

LinkTypeOK ==
    /\ link \in [Handle -> [status : {"unmade", "null", "open", "closed"}, type : {UDP, TCP},
                            socket : Fd \cup {Bad}, target : Fd \cup {Bad},
                            address : Peer \cup {NoPeer}]]
    /\ DOMAIN sock = Fd /\ DOMAIN peer = Peer
    /\ \A d \in Fd :
          /\ sock[d].kind \in {"closed", "udp", "listening", "stream"}
          /\ sock[d].port \in Port /\ sock[d].peer \in Peer \cup {NoPeer}
          /\ sock[d].queue \in Seq(IF sock[d].kind = "listening" THEN Peer ELSE Datagram)
          /\ Len(sock[d].queue) <= (IF sock[d].kind = "listening" THEN MaxConnections ELSE QueueLimit)
    /\ \A c \in Peer :
          /\ peer[c].state \in {"away", "connected", "closed", "reset", "gone"}
          /\ peer[c].stream \in Seq(Part) /\ Len(peer[c].stream) <= QueueLimit
          /\ peer[c].wire \in Seq(Part) /\ peer[c].written \in 0..Writes
    /\ pc \in {"idle", "accepting", "down", "strayed"} /\ accepting \in Handle
    /\ returned \in [link : Handle, null : BOOLEAN, parts : Seq(Part)]

------------------------------------------------------------------------------
(* Creating links. *)

\* The descriptor the kernel hands out next.
NextFd(d) == sock[d].kind = "closed" /\ \A e \in 1..(d - 1) : sock[e].kind # "closed"

\* Mutant: a bind that fails leaves the socket with -1.
BindsUnmasked(kind, port) == {port, -1}

\* The port a socket is bound to: none, 0, when bind fails; listen then picks one nobody knows.
Binds(kind, port) ==
    LET p == port % PortNumbers
        inUse == \/ p \in Occupied
                 \/ p # 0 /\ kind = "listening" /\ \E d \in Fd : sock[d].kind = kind /\ sock[d].port = p
    IN  (IF inUse THEN {} ELSE {p}) \cup (IF inUse \/ "bind" \in MayFail THEN {0} ELSE {})

Call(h, new) == pc = "idle" /\ link[h] = Unmade /\ link' = [link EXCEPT ![h] = new]

\* A link whose socket could not be created: the calls behind it fail as well, and are printed.
SocketFails(h, type) ==
    /\ "socket" \in MayFail /\ Call(h, NewLink(type))
    /\ UNCHANGED <<sock, peer, pc, accepting, returned>>

ListenUDP(h, port) ==
    \/ SocketFails(h, UDP)
    \/ \E d \in Fd : \E p \in Binds("udp", port) :
          /\ NextFd(d) /\ Call(h, [NewLink(UDP) EXCEPT !.socket = d])
          /\ sock' = [sock EXCEPT ![d] = [ClosedSocket EXCEPT !.kind = "udp", !.port = p]]
          /\ UNCHANGED <<peer, pc, accepting, returned>>

\* Listening over TCP, up to the call of accept.
ListenTCP(h, port) ==
    \/ SocketFails(h, TCP)
    \/ \E d \in Fd : \E p \in Binds("listening", port) :
          /\ NextFd(d) /\ Call(h, [NewLink(TCP) EXCEPT !.socket = d])
          /\ sock' = [sock EXCEPT ![d] = [ClosedSocket EXCEPT !.kind = "listening", !.port = p]]
          /\ pc' = "accepting" /\ accepting' = h
          /\ UNCHANGED <<peer, returned>>

\* The oldest connection in the backlog; accept waits while there is none.
Accept ==
    /\ pc = "accepting" /\ pc' = "idle"
    /\ LET s == link[accepting].socket
       IN  \E d \in Fd :
              /\ NextFd(d) /\ sock[s].queue # <<>>
              /\ sock' = [sock EXCEPT ![s].queue = Tail(@),
                                      ![d] = [ClosedSocket EXCEPT !.kind = "stream",
                                                                  !.peer = Head(sock[s].queue)]]
              /\ link' = [link EXCEPT ![accepting].target = d]
    /\ UNCHANGED <<peer, accepting, returned>>

\* accept fails: the link is returned with -1 for a target.
AcceptFails ==
    /\ pc = "accepting" /\ "accept" \in MayFail /\ pc' = "idle"
    /\ UNCHANGED <<link, sock, peer, accepting, returned>>

Listen(h, type, port) ==
    CASE type = UDP -> ListenUDP(h, port)
      [] type = TCP -> ListenTCP(h, port)
      [] OTHER      -> Call(h, Null) /\ UNCHANGED <<sock, peer, pc, accepting, returned>>

\* A UDP link to c: nothing is exchanged, and the socket gets a port when it first sends.
ConnectUDP(h, c) ==
    \/ SocketFails(h, UDP)
    \/ \E d \in Fd :
          /\ NextFd(d) /\ Call(h, [NewLink(UDP) EXCEPT !.socket = d, !.address = c])
          /\ sock' = [sock EXCEPT ![d] = [ClosedSocket EXCEPT !.kind = "udp"]]
          /\ UNCHANGED <<peer, pc, accepting, returned>>

\* A TCP link to c, whose one socket is its target as well; it has no peer if connect fails.
ConnectTCP(h, c) ==
    \/ SocketFails(h, TCP)
    \/ \E d \in Fd : \E up \in BOOLEAN :
          /\ NextFd(d) /\ Call(h, [NewLink(TCP) EXCEPT !.socket = d, !.target = d])
          /\ IF up THEN peer[c].state = "away" ELSE "connect" \in MayFail
          /\ sock' = [sock EXCEPT ![d] = [ClosedSocket EXCEPT !.kind = "stream",
                                                              !.peer = IF up THEN c ELSE NoPeer]]
          /\ peer' = IF up THEN [peer EXCEPT ![c].state = "connected"] ELSE peer
          /\ UNCHANGED <<pc, accepting, returned>>

Connect(h, type, c) ==
    CASE type = UDP -> ConnectUDP(h, c)
      [] type = TCP -> ConnectTCP(h, c)
      [] OTHER      -> Call(h, Null) /\ UNCHANGED <<sock, peer, pc, accepting, returned>>

------------------------------------------------------------------------------
(* Using them. *)

Using(h, type) == pc = "idle" /\ link[h].status = "open" /\ link[h].type = type

\* The descriptor a link reads from, if it stands for a socket.
Source(h) == IF link[h].type = UDP THEN link[h].socket ELSE link[h].target

\* How the other end of a stream socket is; connect was refused where there never was one.
EndOf(d) == IF sock[d].peer = NoPeer THEN [Away EXCEPT !.state = "refused"] ELSE peer[sock[d].peer]

\* The stream is over and all of it was read.
Ended(d) ==
    /\ EndOf(d).stream = <<>>
    /\ \/ EndOf(d).state \in {"reset", "gone", "refused"}
       \/ EndOf(d).state = "closed" /\ EndOf(d).wire = <<>>

\* It is over for the reader as well, for good: the peer's end was seen, or the error was told.
AtEnd(d) == Ended(d) /\ EndOf(d).state \in {"closed", "gone"}

Readable(d) ==
    /\ d # Bad
    /\ IF sock[d].kind = "stream" THEN EndOf(d).stream # <<>> \/ Ended(d) ELSE sock[d].queue # <<>>

ReturnsBuffer(h, parts) == returned' = [link |-> h, null |-> FALSE, parts |-> parts]
ReturnsNull(h) == returned' = [link |-> h, null |-> TRUE, parts |-> <<>>]

FirstParts(s) == SubSeq(s, 1, IF MTU < Len(s) THEN MTU ELSE Len(s))

\* Mutant: what a buffer did not hold is dropped.
LaterPartsDropped(s) == <<>>

LaterParts(s) == SubSeq(s, MTU + 1, Len(s))

\* recvfrom takes one datagram, drops what does not fit in the buffer, and stores its sender.
ReceivesDatagram(h) ==
    /\ Using(h, UDP) /\ Readable(link[h].socket)
    /\ LET datagram == Head(sock[link[h].socket].queue)
       IN  /\ ReturnsBuffer(h, FirstParts(PartsOf(datagram.packet)))
           /\ link' = [link EXCEPT ![h].address = datagram.from]
    /\ sock' = [sock EXCEPT ![link[h].socket].queue = Tail(@)]
    /\ UNCHANGED <<peer, pc, accepting>>

\* recv takes what the stream holds, as much as fits.
ReceivesStream(h) ==
    LET d == link[h].target
    IN  /\ Using(h, TCP) /\ Readable(d) /\ EndOf(d).stream # <<>>
        /\ ReturnsBuffer(h, FirstParts(EndOf(d).stream))
        /\ peer' = [peer EXCEPT ![sock[d].peer].stream = LaterParts(@)]
        /\ UNCHANGED <<link, sock, pc, accepting>>

\* recv returns 0 at the end of a stream, and on one whose reset a send was told of before: an empty
\* buffer that is not NULL.
ReceivesEnd(h) ==
    LET d == link[h].target
    IN  /\ Using(h, TCP) /\ d # Bad /\ AtEnd(d)
        /\ ReturnsBuffer(h, <<>>)
        /\ UNCHANGED <<link, sock, peer, pc, accepting>>

\* recv fails, and a buffer of the size -1 is allocated.
ReceiveCrashes(h) ==
    LET d == link[h].target
    IN  /\ Using(h, TCP) /\ d # Bad /\ Ended(d) /\ ~AtEnd(d)
        /\ pc' = "down"
        /\ UNCHANGED <<link, sock, peer, accepting, returned>>

\* poll fails, or recvfrom does behind it.
PollFails(h) ==
    /\ \E type \in {UDP, TCP} : Using(h, type)
    /\ "poll" \in MayFail /\ ReturnsNull(h)
    /\ UNCHANGED <<link, sock, peer, pc, accepting>>

\* Nothing to read in time; poll ignores the descriptor -1.
PollTimesOut(h) ==
    /\ \E type \in {UDP, TCP} : Using(h, type)
    /\ ~Readable(Source(h)) /\ ReturnsNull(h)
    /\ UNCHANGED <<link, sock, peer, pc, accepting>>

ReceivesBuffer(h) == ReceivesDatagram(h) \/ ReceivesStream(h) \/ ReceivesEnd(h)

\* Receive, whose poll waits without a timeout, and ReceiveWithTimeout.
Receive(h) == ReceivesBuffer(h) \/ ReceiveCrashes(h) \/ PollFails(h)
ReceiveWithTimeout(h) == Receive(h) \/ PollTimesOut(h)

\* sendto gives the socket a port and reaches the address, if it is one.
SendDatagram(h) ==
    LET d == link[h].socket
    IN  /\ Using(h, UDP)
        /\ sock' = IF d = Bad THEN sock ELSE [sock EXCEPT ![d].peer = link[h].address]
        /\ UNCHANGED <<link, peer, pc, accepting, returned>>

\* The stream takes the packet, or there is no descriptor to send on.
SendStream(h) ==
    /\ Using(h, TCP)
    /\ link[h].target # Bad => EndOf(link[h].target).state \in {"connected", "closed"}
    /\ UNCHANGED linkVars

\* A socket learns of a reset once: not any more if it had read the peer's end before.
AfterReset(c) == IF peer[c].state = "closed" /\ peer[c].wire = <<>> THEN "gone" ELSE "reset"

\* A peer that has closed answers what is sent with a reset.
SendToClosed(h) ==
    LET d == link[h].target
        c == sock[d].peer
    IN  /\ Using(h, TCP) /\ d # Bad /\ EndOf(d).state = "closed"
        /\ peer' = [peer EXCEPT ![c].state = AfterReset(c), ![c].wire = <<>>]
        /\ UNCHANGED <<link, sock, pc, accepting, returned>>

\* The first send after a reset takes the socket's error, and the code ignores it.
SendTakesError(h) ==
    LET d == link[h].target
    IN  /\ Using(h, TCP) /\ d # Bad /\ EndOf(d).state = "reset"
        /\ peer' = [peer EXCEPT ![sock[d].peer].state = "gone"]
        /\ UNCHANGED <<link, sock, pc, accepting, returned>>

\* A send behind that raises SIGPIPE, which nobody handles, as one does that was never connected.
SendIsKilled(h) ==
    LET d == link[h].target
    IN  /\ Using(h, TCP) /\ d # Bad /\ EndOf(d).state \in {"gone", "refused"}
        /\ pc' = "down"
        /\ UNCHANGED <<link, sock, peer, accepting, returned>>

Send(h) == SendDatagram(h) \/ SendStream(h) \/ SendToClosed(h) \/ SendTakesError(h) \/ SendIsKilled(h)

------------------------------------------------------------------------------
(* Closing them, and using them then: Close leaves the numbers of the descriptors in the link. *)

Descriptors(h) == {link[h].socket, link[h].target} \ {Bad}

\* The descriptors that are h's to use.
Own(h) == IF link[h].status = "open" THEN Descriptors(h) ELSE {}

IsOpen(d) == d # Bad /\ sock[d].kind # "closed"

\* What is left of the sockets when some of them are closed.
Closing(fds) == [d \in Fd |-> IF d \in fds THEN ClosedSocket ELSE sock[d]]

\* Mutant: the connection of a listening link is left open.
CloseSocketOnly(h) ==
    /\ pc = "idle" /\ link[h].status \in {"open", "closed"}
    /\ link' = [link EXCEPT ![h].status = "closed"]
    /\ sock' = Closing({link[h].socket})
    /\ pc' = IF IsOpen(link[h].socket) /\ link[h].socket \notin Own(h) THEN "strayed" ELSE pc
    /\ UNCHANGED <<peer, accepting, returned>>

\* The targetSocket of a UDP link was never written: it may be any number.  A second Close closes
\* what has the numbers by now.
Close(h) ==
    /\ pc = "idle" /\ link[h].status \in {"open", "closed"}
    /\ link' = [link EXCEPT ![h].status = "closed"]
    /\ \E t \in IF link[h].type = UDP THEN Fd \cup {Bad} ELSE {link[h].target} :
          LET fds == {link[h].socket, t}
          IN  /\ sock' = Closing(fds)
              /\ pc' = IF \E d \in fds \ Own(h) : IsOpen(d) THEN "strayed" ELSE pc
    /\ UNCHANGED <<peer, accepting, returned>>

UsingClosed(h) == pc = "idle" /\ link[h].status = "closed"

\* A receive or send on a closed link whose number was handed out again: it reads from another's
\* socket, or sends on it.
UsesAnothers(h) ==
    /\ UsingClosed(h) /\ IsOpen(Source(h))
    /\ pc' = "strayed"
    /\ UNCHANGED <<link, sock, peer, accepting, returned>>

\* Nothing has the number: recvfrom and recv fail, and so does a send, to no effect.
ReceivesFromNothing(h) ==
    /\ UsingClosed(h) /\ ~IsOpen(Source(h))
    /\ \/ link[h].type = TCP /\ Source(h) # Bad /\ pc' = "down" /\ UNCHANGED returned
       \/ /\ (link[h].type = TCP /\ Source(h) # Bad => "poll" \in MayFail)
          /\ ReturnsNull(h) /\ pc' = pc
    /\ UNCHANGED <<link, sock, peer, accepting>>

UseClosed(h) == UsesAnothers(h) \/ ReceivesFromNothing(h)

------------------------------------------------------------------------------
(* The kernel and the other programs. *)

PeerConnects(c, p) ==
    /\ peer[c].state = "away" /\ p # 0
    /\ \E d \in Fd :
          /\ sock[d].kind = "listening" /\ sock[d].port = p /\ Len(sock[d].queue) < MaxConnections
          /\ sock' = [sock EXCEPT ![d].queue = Append(@, c)]
    /\ peer' = [peer EXCEPT ![c].state = "connected", ![c].port = p]
    /\ UNCHANGED <<link, pc, accepting, returned>>

PeerWrites(c) ==
    /\ peer[c].state = "connected" /\ peer[c].written < Writes
    /\ peer' = [peer EXCEPT ![c].written = @ + 1, ![c].wire = @ \o PartsOf(peer[c].written + 1)]
    /\ UNCHANGED <<link, sock, pc, accepting, returned>>

\* The next part of what c wrote arrives.
StreamArrives(c) ==
    /\ peer[c].wire # <<>> /\ Len(peer[c].stream) < QueueLimit
    /\ peer' = [peer EXCEPT ![c].stream = Append(@, Head(peer[c].wire)), ![c].wire = Tail(@)]
    /\ UNCHANGED <<link, sock, pc, accepting, returned>>

PeerCloses(c) ==
    /\ MayHangUp /\ peer[c].state = "connected"
    /\ peer' = [peer EXCEPT ![c].state = "closed"]
    /\ UNCHANGED <<link, sock, pc, accepting, returned>>

\* What arrived before a reset may still be read, or is gone.
PeerResets(c) ==
    /\ MayHangUp /\ peer[c].state \in {"connected", "closed"}
    /\ \E kept \in {<<>>, peer[c].stream} :
          peer' = [peer EXCEPT ![c].state = AfterReset(c), ![c].wire = <<>>, ![c].stream = kept]
    /\ UNCHANGED <<link, sock, pc, accepting, returned>>

\* A datagram of c: to a bound socket, or back to one that sent to c.  A full socket drops it.
DatagramArrives(c, d, k) ==
    /\ sock[d].kind = "udp" /\ (sock[d].port # 0 \/ sock[d].peer = c)
    /\ Len(sock[d].queue) < QueueLimit
    /\ sock' = [sock EXCEPT ![d].queue = Append(@, [from |-> c, packet |-> k])]
    /\ UNCHANGED <<link, peer, pc, accepting, returned>>

World ==
    \E c \in Peer :
        \/ PeerWrites(c) \/ StreamArrives(c) \/ PeerCloses(c) \/ PeerResets(c)
        \/ \E d \in Fd, k \in 1..Writes : DatagramArrives(c, d, k)

LinkInit ==
    /\ link = [h \in Handle |-> Unmade]
    /\ sock = [d \in Fd |-> ClosedSocket]
    /\ peer = [c \in Peer |-> Away]
    /\ pc = "idle" /\ accepting = CHOOSE h \in Handle : TRUE
    /\ returned = [link |-> CHOOSE h \in Handle : TRUE, null |-> TRUE, parts |-> <<>>]

\* A program that makes its calls in any order.
Program ==
    \/ \E h \in Handle, type \in LinkTypes :
          \/ \E port \in Ports : Listen(h, type, port)
          \/ \E c \in Peer : Connect(h, type, c)
    \/ Accept \/ AcceptFails
    \/ \E h \in Handle : ReceiveWithTimeout(h) \/ Send(h) \/ Close(h) \/ UseClosed(h)

LinkNext == Program \/ World \/ \E c \in Peer, p \in Ports : PeerConnects(c, p)

LinkSpec == LinkInit /\ [][LinkNext]_linkVars

------------------------------------------------------------------------------
(* What the links promise. *)

OpenLinks == {h \in Handle : link[h].status = "open"}

\* Over any sequence of calls, of which any may fail, the descriptors that are open are those of
\* the links that are open, each held by one link only: no link loses a socket to the Close of
\* another, reads a socket that was handed out again, or leaves one behind.  It ends with a call
\* that uses the descriptor of another link: by the target a UDP link closes without having written
\* it, or by a number a closed link still has.
DescriptorsMatchLinks ==
    pc # "strayed" =>
        /\ {d \in Fd : IsOpen(d)} = UNION {Descriptors(h) : h \in OpenLinks}
        /\ \A g, h \in OpenLinks : g # h => Descriptors(g) \cap Descriptors(h) = {}

\* What the receive functions see of the open links, by type: datagrams, and the parts of a stream.
UnreadDatagrams ==
    [h \in Handle |-> IF h \in OpenLinks /\ link[h].type = UDP /\ link[h].socket # Bad
                      THEN sock[link[h].socket].queue ELSE <<>>]
UnreadParts ==
    [h \in Handle |-> IF h \in OpenLinks /\ link[h].type = TCP /\ link[h].target # Bad
                      THEN EndOf(link[h].target).stream ELSE <<>>]

Datagrams == INSTANCE Channel WITH
    inbox <- UnreadDatagrams, LinkID <- Handle, Arrival <- Datagram, Transport <- "UDP",
    SocketBuffer <- QueueLimit, ReceiveErrors <- ("poll" \in MayFail)

Streams == INSTANCE Channel WITH
    inbox <- UnreadParts, LinkID <- Handle, Arrival <- Part, Transport <- "TCP",
    SocketBuffer <- QueueLimit, ReceiveErrors <- ("poll" \in MayFail)

\* This step is a call on h that returned NULL, or a buffer that is not empty.
HandsOutNull(h)   == returned' # returned /\ returned'.link = h /\ returned'.null
HandsOutBuffer(h) == returned' # returned /\ returned'.link = h /\ returned'.parts # <<>>

\* No link comes or goes in this step, no call uses another's descriptor, and no stream ends.
Settled ==
    /\ pc' # "strayed"
    /\ \A h \in Handle : link'[h].status = link[h].status /\ link'[h].target = link[h].target
    /\ \A c \in Peer : peer[c].state \in {"away", "connected"} /\ peer'[c].state # "reset"

\* What this step does with h is a step of the datagrams, or of the streams.
MatchesChannel(h) ==
    /\ HandsOutNull(h) => Datagrams!ReceivesNothing(h) /\ Streams!ReceivesNothing(h)
    /\ HandsOutBuffer(h) \/ UnreadDatagrams'[h] # UnreadDatagrams[h]
                         \/ UnreadParts'[h] # UnreadParts[h] =>
          \/ \E d \in Datagram :
                \/ Datagrams!Deliver(h, d)
                \/ Datagrams!Receives(h, d) /\ returned'.parts = FirstParts(PartsOf(d.packet))
          \/ \E p \in Part :
                \/ Streams!Deliver(h, p)
                \/ Streams!Receives(h, p) /\ returned'.parts = FirstParts(UnreadParts[h])

\* As long as links and peers stay, the links are the Channel the scripts are written against: what
\* arrives is queued in order, one call hands out the oldest datagram, or as much of the stream as
\* the buffer holds, and NULL only when nothing is queued or poll failed.
ImplementsChannel == [][Settled => \A h \in Handle : MatchesChannel(h)]_linkVars

=============================================================================
