------------------------------- MODULE Startup -------------------------------
(***************************************************************************)
(* main (ccnxTestrig.c): the command line, the three links, one after the  *)
(* other, the pause in which routes are configured, and RunAll as the      *)
(* links see it: receives and sends of a test in any order, and behind     *)
(* each test the flush.  Suite says which calls a test makes.              *)
(*                                                                         *)
(* The forwarder is set up by scripts/setup.sh, which an operator steps    *)
(* through: one connection to each port, in order, each tried once.        *)
(***************************************************************************)
EXTENDS Link

CONSTANTS
    Commands,    \* bound: the command lines tried
    Leftover,    \* what the memory of options->linkType may hold before it is written
    Dialled,     \* the ports of the script's links, in the order it adds them
    Talkers,     \* bound: the forwarder's sockets that send
    Tests        \* bound: how many tests RunAll runs

\* An argument: an option with the number behind it, if that is one, or something else.
Argument == [option : {"transport", "port", "address", "help", "unknown", "none"},
             number : BOOLEAN, value : Nat]

ASSUME StartupAssumption ==
    /\ Handle = {1, 2, 3} /\ Peer \subseteq Nat /\ Talkers \subseteq Peer
    /\ \A command \in Commands : command \in Seq(Argument)
    /\ Leftover \subseteq Nat /\ Dialled \in Seq(Port \ {0})
    /\ Tests \in Nat \ {0}

DEFAULT_PORT == 9596

VARIABLES
    phase,       \* where main is
    argv,        \* the command line
    optind,      \* the argument getopt_long looks at next
    options,     \* the options
    links,       \* how many of the links were created
    test,        \* how many tests were started
    flushing,    \* the link FlushLinks is at
    dialled      \* how many links the script has added

mainVars == <<phase, argv, optind, options, links, test, flushing, dialled>>
startupVars == <<linkVars, mainVars>>

StartupTypeOK ==
    /\ LinkTypeOK
    /\ phase \in {"options", "listening", "configuring", "running", "flushing", "done",
                "exited", "crashed"}
    /\ argv \in Seq(Argument) /\ optind \in 1..(Len(argv) + 1)
    /\ options \in [linkType : Nat, port : Nat]
    /\ links \in 0..3 /\ flushing \in Handle /\ test \in 0..Tests
    /\ dialled \in 0..Len(Dialled)

------------------------------------------------------------------------------
(* _ccnxTestrig_ParseCommandLineOptions. *)

\* getopt_long passes over what is no option and returns the next one.
IsNextOption(i) ==
    /\ i \in optind..Len(argv) /\ argv[i].option # "none"
    /\ \A j \in optind..(i - 1) : argv[j].option = "none"

\* Mutant: the port is stored in the field of the link type.
ParsedIntoType(arg) ==
    IF arg.number /\ arg.option \in {"transport", "port"}
    THEN [options EXCEPT !.linkType = arg.value] ELSE options

\* sscanf leaves the field alone when the argument is no number.
Parsed(arg) ==
    CASE arg.option = "transport" /\ arg.number -> [options EXCEPT !.linkType = arg.value]
      [] arg.option = "port" /\ arg.number      -> [options EXCEPT !.port = arg.value]
      [] OTHER                                  -> options

NoArguments ==
    /\ phase = "options" /\ argv = <<>>
    /\ phase' = "exited"
    /\ UNCHANGED <<linkVars, argv, optind, options, links, test, flushing, dialled>>

\* One turn of the loop.  If only operands are left, getopt_long returns -1 and leaves optind on the
\* first of them: the loop makes its next turn, and nothing changes any more.
ParseOption ==
    /\ phase = "options"
    /\ \E i \in DOMAIN argv :
          /\ IsNextOption(i)
          /\ optind' = i + 1 /\ options' = Parsed(argv[i])
          /\ phase' = IF argv[i].option = "help" THEN "exited" ELSE "options"
    /\ UNCHANGED <<linkVars, argv, links, test, flushing, dialled>>

OptionsParsed ==
    /\ phase = "options" /\ argv # <<>> /\ optind > Len(argv)
    /\ phase' = "listening"
    /\ options' = [options EXCEPT !.port = IF @ = 0 THEN DEFAULT_PORT ELSE @]
    /\ UNCHANGED <<linkVars, argv, optind, links, test, flushing, dialled>>

------------------------------------------------------------------------------
(* main. *)

\* Mutant: the port number is incremented before it is used.
PortOfNext(h) == options.port + h

\* Links A, B and C listen on the given port and the two behind it.
PortOf(h) == options.port + h - 1

CreateLink ==
    /\ phase = "listening" /\ links < 3
    /\ Listen(links + 1, options.linkType, PortOf(links + 1))
    /\ links' = links + 1
    /\ UNCHANGED <<phase, argv, optind, options, test, flushing, dialled>>

AcceptLink == phase = "listening" /\ Accept /\ UNCHANGED mainVars

\* Not a step of Main: an accept that waits may fail, but nothing makes it.
AcceptLinkFails == phase = "listening" /\ AcceptFails /\ UNCHANGED mainVars

LinksCreated ==
    /\ phase = "listening" /\ links = 3 /\ pc = "idle"
    /\ phase' = "configuring"
    /\ UNCHANGED <<linkVars, argv, optind, options, links, test, flushing, dialled>>

\* The operator has configured the routes and presses a key; RunAll starts its first test.
Configured ==
    /\ phase = "configuring"
    /\ phase' = "running" /\ test' = 1
    /\ UNCHANGED <<linkVars, argv, optind, options, links, flushing, dialled>>

TestCalls ==
    /\ phase = "running"
    /\ \E h \in Handle : ReceiveWithTimeout(h) \/ Send(h)
    /\ UNCHANGED mainVars

\* A link function is called on the link that an invalid type left NULL.
CallOnNull ==
    /\ pc = "idle"
    /\ \/ phase = "running" /\ \E h \in Handle : link[h].status = "null"
       \/ phase = "flushing" /\ link[flushing].status = "null"
    /\ phase' = "crashed"
    /\ UNCHANGED <<linkVars, argv, optind, options, links, test, flushing, dialled>>

TestReturns ==
    /\ phase = "running" /\ pc = "idle"
    /\ phase' = "flushing" /\ flushing' = 1
    /\ UNCHANGED <<linkVars, argv, optind, options, links, test, dialled>>

\* The flush reads its link again after a buffer, however empty.
FlushReads ==
    /\ phase = "flushing" /\ (ReceivesBuffer(flushing) \/ ReceiveCrashes(flushing))
    /\ UNCHANGED mainVars

\* Mutant: the loop over the links ends one link too late.
FlushGoesOnPast ==
    \/ flushing <= 3 /\ flushing' = flushing + 1 /\ UNCHANGED <<phase, test>>
    \/ flushing > 3 /\ phase' = "done" /\ UNCHANGED <<test, flushing>>

\* The next link, and behind the last the next test.
FlushGoesOn ==
    \/ flushing < 3 /\ flushing' = flushing + 1 /\ UNCHANGED <<phase, test>>
    \/ flushing = 3 /\ test < Tests /\ phase' = "running" /\ test' = test + 1 /\ flushing' = flushing
    \/ flushing = 3 /\ test = Tests /\ phase' = "done" /\ UNCHANGED <<test, flushing>>

\* Mutant: a flush waits for a packet before it goes on.
FlushMovesOnAfterPacket ==
    /\ phase = "flushing" /\ ReceivesBuffer(flushing)
    /\ FlushGoesOn
    /\ UNCHANGED <<argv, optind, options, links, dialled>>

FlushMovesOn ==
    /\ phase = "flushing" /\ (PollFails(flushing) \/ PollTimesOut(flushing))
    /\ FlushGoesOn
    /\ UNCHANGED <<argv, optind, options, links, dialled>>

Main ==
    \/ NoArguments \/ ParseOption \/ OptionsParsed
    \/ CreateLink \/ AcceptLink \/ LinksCreated \/ Configured
    \/ TestReturns \/ CallOnNull \/ FlushReads \/ FlushMovesOn

------------------------------------------------------------------------------
(* The script, and the forwarder it sets up. *)

\* A socket listens on port p and has room in its backlog.
Listens(p) ==
    \E d \in Fd : /\ sock[d].kind = "listening" /\ sock[d].port = p
                  /\ Len(sock[d].queue) < MaxConnections

\* The script adds its next link.  The forwarder connects to the link's port, or is refused and
\* does not try again; which of its sockets it uses makes no difference.
Dial ==
    /\ dialled < Len(Dialled) /\ dialled' = dialled + 1
    /\ \/ \E c \in Peer :
             /\ \A b \in Peer : b < c => peer[b].state # "away"
             /\ PeerConnects(c, Dialled[dialled + 1])
       \/ ~Listens(Dialled[dialled + 1]) /\ UNCHANGED linkVars
    /\ UNCHANGED <<phase, argv, optind, options, links, test, flushing>>

\* The operator runs the script again, when the forwarder it started before has no connection.
SetupAgain ==
    /\ dialled > 0 /\ \A c \in Peer : peer[c].state # "connected"
    /\ dialled' = 0
    /\ UNCHANGED <<linkVars, phase, argv, optind, options, links, test, flushing>>

Talks ==
    /\ \/ \E c \in Peer : PeerCloses(c) \/ PeerResets(c)
       \/ \E c \in Talkers :
             \/ PeerWrites(c) \/ StreamArrives(c)
             \/ \E d \in Fd, k \in 1..Writes : DatagramArrives(c, d, k)
    /\ UNCHANGED mainVars

StartupInit ==
    /\ LinkInit
    /\ phase = "options" /\ argv \in Commands /\ optind = 1
    /\ \E junk \in Leftover : options = [linkType |-> junk, port |-> 0]
    /\ links = 0 /\ test = 0 /\ flushing = 1 /\ dialled = 0

StartupNext == Main \/ AcceptLinkFails \/ TestCalls \/ Dial \/ SetupAgain \/ Talks

StartupSpec == StartupInit /\ [][StartupNext]_startupVars

\* The rig runs, its polls end, tests come to an end, and the operator presses the keys that the rig
\* and the script wait for.  Nobody has to run the script a second time.
StartupFairSpec == StartupSpec /\ WF_startupVars(Main) /\ WF_startupVars(Dial)

------------------------------------------------------------------------------
(* What starting the rig promises. *)

\* The numbers given for an option, the last of which counts.
Given(option) == {i \in DOMAIN argv : argv[i].option = option /\ argv[i].number}
Decides(option, i) == i \in Given(option) /\ \A j \in Given(option) : j <= i

TypeIsGiven == \E i \in DOMAIN argv : Decides("transport", i) /\ argv[i].value \in {UDP, TCP}

\* A command line with a valid type and no operand behind its options.
Proper ==
    /\ TypeIsGiven
    /\ argv[Len(argv)].option # "none"
    /\ \A i \in DOMAIN argv : argv[i].option # "help"

\* The port that counts: the last that was given, for which 0 or none stands for the default.
PortsGiven == {argv[i].value : i \in {j \in Given("port") : Decides("port", j)}} \ {0}
PortWanted == IF PortsGiven = {} THEN {DEFAULT_PORT} ELSE PortsGiven

\* Whenever the script runs, however often connections are refused, hung up and made again: a TCP
\* link of a rig that runs tests is a connection to its own port, the first, second or third from
\* the one wanted, or is deaf; a UDP link is bound to its own port or to none.  No two links are
\* ever exchanged.
LinksAreOnTheirPorts ==
    phase \in {"configuring", "running", "flushing", "done"} =>
        \A first \in PortWanted, h \in OpenLinks :
            Source(h) # Bad =>
                LET own == (first + h - 1) % PortNumbers
                IN  IF link[h].type = TCP THEN EndOf(Source(h)).port = own
                                          ELSE sock[Source(h)].port \in {own, 0}

\* A rig that was given a type never calls on a link that is NULL.
TypedRigHasItsLinks == TypeIsGiven => phase # "crashed"

NobodyHangsUp == \A c \in Peer : peer[c].state \in {"away", "connected"}

\* The script adds links to the three ports the rig listens on, in that order, and they are free.
PortsMatch ==
    /\ Len(Dialled) = 3 /\ "bind" \notin MayFail
    /\ \A h \in Handle : /\ \A first \in PortWanted : Dialled[h] = first + h - 1
                         /\ Dialled[h] \notin Occupied

\* The rig waits in accept for one link after the other, as the operator waits between one link of
\* the script and the next: they do not wait for each other.  With a proper command line, the ports
\* free, and the script adding no link before the rig listens on its port, the rig comes to run its
\* tests.
StartsUp ==
    Proper /\ PortsMatch /\ []NobodyHangsUp /\ [](dialled <= links) => <>(phase = "running")

NothingArrives ==
    \A h \in Handle : /\ Len(UnreadDatagrams'[h]) <= Len(UnreadDatagrams[h])
                      /\ Len(UnreadParts'[h]) <= Len(UnreadParts[h])

\* The link has a stream that is at its end, of which recv returns 0 for ever.
StreamIsOver(h) == link[h].type = TCP /\ link[h].target # Bad /\ AtEnd(link[h].target)

\* A flush comes to an end once nothing more arrives, whatever was queued and whoever hung up: it
\* goes on to the next link, or it is killed, unless it reads a stream that is at its end.
FlushEnds ==
    <>[][NothingArrives]_startupVars =>
        ((phase = "flushing") ~> (phase # "flushing" \/ pc = "down" \/ StreamIsOver(flushing)))

------------------------------------------------------------------------------
(* What the scripts say and the code does not do. *)

\* scripts/athena_setup.sh: ./ccnxTestrig -t 0 127.0.0.1 9696 runs the rig.
CommandLineIsParsed == (phase = "options") ~> (phase # "options")

=============================================================================
