# A specification of CCNxTestrig

TLA+ modules that model the CCNx test rig of this repository, the TLC configurations that check
them on small instances, and theorems about them that the TLA+ proof system checks.

CCNxTestrig tests a CCNx forwarder as a black box: it holds three links to it, sends packets on
some of them, reads packets from others with a timeout, and compares. What it is worth depends on
one question: *does a PASS or a FAIL mean what it says?* A verdict must be that of the packets the
test itself read, whatever else the forwarder sends, whenever it sends it, and whatever the test
before left behind. That question is what most of the properties below are about.

## 1. The system

| Part | State | Operations | Code |
|---|---|---|---|
| Test script | steps: kind, packet, reference, link vector, vector of links that received | `Add*Step`, `Execute` | `ccnxTestrig_Script.c` |
| Test result | passed, reason, packets sent | `Create`, `SetPass`, `SetFail`, `IsFailure`, `LogPacket`, `Report` | `ccnxTestrig_SuiteTestResult.c` |
| Packet utility | none | `IsValidPacketPair`, `EncodePacket`, `ComputeMessageHash` | `ccnxTestrig_PacketUtility.c` |
| Test suite | the list of results | 21 tests, `RunTest`, `RunAll` | `ccnxTestrig_Suite.c` |
| Test rig | three links, reporter | `GetLinkByID`, `GetLinkVector`, `FlushLinks` | `ccnxTestrig.c` |
| Options and startup | options, the links as they are created | `ParseCommandLineOptions`, `main` | `ccnxTestrig.c` |
| Link | socket, target socket or address | `Listen`, `Connect`, `Receive`, `ReceiveWithTimeout`, `Send`, `Close` | `ccnxTestrig_Link.c` |
| Reporter | a FILE | `Report` | `ccnxTestrig_Reporter.c` |
| Forwarder under test | external | routes from `scripts/setup.sh` | not in the repository |

`main` parses the options, creates links A, B and C, and calls `RunAll`, which runs each test,
reports it, and flushes the links. A test writes a script and executes it: `Execute` calls the
function of each step until one fails. Send steps write to a link; receive steps poll the links of
their vector in order, 1000 ms each, and compare what they read with the packet of the step they
refer to. A respond step holds the *same* bit vector its reference fills in while it is executed.

The rig is a single thread. Everything hard about it comes from the forwarder acting between two of
its calls: packets arrive early, late, on other links, several at once, or not at all; a timeout
races an answer; leftovers of one test meet the next; the forwarder connects before the rig listens,
or hangs up. The rig itself persists nothing and retries nothing.
What makes each part correct:

- *Script*: the verdict is that of the steps, in order, each on its own readings; the reason
  reported is true; answers go where their Interest came out; no crash; every execution ends.
- *Suite*: the flush separates tests; a test passes only on its own Interest; every test can tell
  a right forwarder from the wrong ones it was written against; `RunAll` ends.
- *Packet utility*: an accepted Interest lost exactly one hop and nothing else.
- *Rig*: a link vector holds what the caller listed.
- *Link*: what arrives is handed out in order and NULL only when nothing came in time; a link holds
  its own sockets and no others, and closes those.
- *Startup*: each link ends up on its own port; the accepts do not wait for each other; the options
  are read and `main` reaches the tests.

## 2. The modules

    PacketUtility   packets, and the comparison of a received packet with the sent one
    TestResult      a test result and its operations
    Channel         what arrived on each link; receiving with a timeout, on UDP and TCP
    ScriptStep      the steps and their constructors; what a step asks of its readings
    Script          writing and executing a script against any forwarder    (state machine)
    ScriptPromise   what executing a script promises                        (abstract)
    Link            links over sockets, descriptors, peers and the network  (state machine)
    Startup         the command line, main, and the links while tests run   (state machine)
    Suite           the 21 tests, RunAll, the flush, against any forwarder  (state machine)
    Forwarder       a forwarder, right or with a named fault                (external, operators)
    EndToEnd        the suite against that forwarder, with time             (state machine)
    ScriptProofs    theorems about Script: types, crashes, verdicts
    ScriptPacketProofs  more of them: accepted packets, answers, reasons
    ScriptRefinement    the theorem that Script implements ScriptPromise
    SuiteProofs         theorems about Suite: its scripts, its verdicts, the flush
    EndToEndProofs      theorems about EndToEnd: what a report of the suite says of a forwarder
    LinkProofs          theorems about Link: types, descriptors
    LinkRefinement      the theorem that Link implements Channel
    StartupProofs       theorems about Startup: types, ports, links that are NULL
    MC*             values for the constants, for TLC

`PacketUtility`, `TestResult` and `ScriptStep` hold operators. `Channel` holds one variable, the
links' queues. `Script` extends them; `Suite` extends `Script`, building its scripts instead of
writing arbitrary ones; `EndToEnd` extends `Suite` and drives its forwarder side with `Forwarder`.
`Link` is the detailed side of `Channel`: it instantiates `Channel` twice, once for the datagrams
and once for the streams, and is shown to behave like it. `Startup` extends `Link` with `main`.

**How Script corresponds to the code.** `script`, `received`, `result` are the structures of the
same name (a step's `receivedLinkVector` is `received[k]`); `cur` is the loop variable of
`Execute`, counted from 1; `bit`, `succeeded`, `failedAfterReceive` are the locals of the receive
functions. Between two polls the forwarder may act, so an action of the rig is *one iteration of a
receive loop*, a send, or a return: `ReceiveOneTimeout` and `ReceiveOneMessage` are the two ways
through the loop body, `ReceiveOneReturns` is what follows the loop, and likewise for the others.
`StepReturns` is what `Execute` does with the result of a step. Everything the C code does on the
way out of a step is in the same action. Where the C code would call through a NULL link or look
into a NULL packet, the model goes to `pc = "crashed"`. `sent` and `taken` are history variables:
what was sent by which step, and which packets each step read from which link.

Data is abstracted: a packet is a record of the fields the rig compares, a name or a hash is a
value, a reason is one of five kinds. The encoding and decoding of packets belong to the codec
library and are left out; a packet is what it decodes to.

**Undefined behaviour.** `ccnxTestrig_GetLinkVector` reads variable arguments until it meets a
value above `LinkC`, and no caller passes one. `GetLinkVector` adds any subset of `VaJunk`, the
bits it may pick up on the way. `script_junk` lets it pick up another link,
`suite_tests` also bit 0, for which `GetLinkByID` returns NULL. The other runs of the suite set `VaJunk`
to the empty set, the build in which it happens to stop at once.

**Links.** `Channel` is what `ReceiveWithTimeout` offers its callers. On UDP one `recvfrom` takes
one packet; on TCP one `recv` takes all that is queued, up to the buffer (`MTU`, counted in
packets), and only the first packet is decoded. With `ReceiveErrors`, a poll may return NULL
although a packet is queued, as it does when `poll` fails. `Send` is the append to `sent`; in
`EndToEnd` a listening UDP link has no address to send to before it received a packet, since
`targetAddress` is written only by `recvfrom`.

**Link.** `link[h]` is the structure behind a handle: `socket`, `target` (`targetSocket`) and
`address` (`targetAddress`). `sock` is the kernel's table of descriptors, handed out lowest first,
and `peer` the programs at the other ends: what such a program wrote is on its `wire`, part by
part, until it arrives in the `stream`. One action is one call, except that a listening TCP link is
made in two, `ListenTCP` up to the call of `accept` and `Accept` behind it, because `accept` waits
and the world goes on. A failing call is printed by the code and otherwise ignored, and so it is
here: a failed `socket` leaves a link with no descriptor, a failed `bind` a listening socket on a
port nobody knows, a failed `accept` a link whose target is -1, which `poll` ignores. The end of
a stream makes `recv` return 0 and the link return an empty buffer (`ReceivesEnd`). A reset is told to
the socket once. If `recv` learns of it, it returns -1, which becomes the size of a buffer to allocate
(`ReceiveCrashes`). If a `send` does, the code ignores the error (`SendTakesError`); from then on the
stream is as one that ended (`AtEnd`): `recv` returns 0 for ever, and the next `send` raises SIGPIPE
(`SendIsKilled`). A crash and a kill both leave `pc` at `"down"`. The states of a peer are `"closed"`,
the stream ends behind what is on its way, `"reset"`, the socket was not told yet, and `"gone"`, it was.

`Close` leaves the numbers of the descriptors in the link, and `targetSocket` of a UDP link is never
written, since `_create_link` does not clear the structure it allocates. A program may close a link
twice, or receive and send on a link it closed (`UseClosed`): nothing in the code prevents it. As long as
the number was not handed out again these calls fail (`ReceivesFromNothing`; over TCP the failing `recv`
crashes). Otherwise they read, send on or close another link's socket: `pc` becomes `"strayed"`, and
the model does not follow the program further, since all that can be said of it is lost.
The rig never calls `Close`, so this concerns other users of the link.

**Startup.** `options`, `optind` and `argv` are the variables of the same name; `options.linkType`
starts with any of `Leftover`, as the code does not initialise it. `Parsed` is the switch of the
option loop, one option of `getopt_long` per action. `CreateLink` is `ccnxTestrigLink_Listen` of the
next port, `AcceptLink` the accept it ends in, `Configured` the key the operator presses. A test is
any sequence of receives and sends (`TestCalls`); which ones is `Suite`'s matter. A type that is
none leaves links that are NULL, and the first call on one ends the rig (`CallOnNull`, phase
`"crashed"`). `Dial` is one `add link` command of `setup.sh` (lines 140, 143 and 146): the forwarder
connects to the next of the three ports, A before B before C, or is refused if nobody listens there,
and does not try again. The script may be run before, while or after the rig starts; `SetupAgain` is
a second run of it once the first forwarder has no connection any more. `-a` sets a field that
nobody reads, so an address changes nothing.

**Suite.** `TestScript` is the table of the 21 scripts, generated from the C functions test by
test; `InterestOf` and `AnswerOf` are their packets. `old` is a history variable that counts what
was queued when a test was reported and is still unread.

**EndToEnd.** Only a poll that ends in vain takes time: 1000 ms in a step, 100 ms in a flush. The
forwarder processes in order what the rig sent, at any time before such a poll ends. This is the
timing the suite is written for: a forwarder that takes less than a timeout. An entry of its
pending Interest table lives for the Interest's lifetime and `Grace` ms more. `EndToEndAssumption`
says that the suite's packets, as a forwarder passes them on, are among those that may arrive, and
that a run has each test at most once, as in `RunAll`: the code makes new random names for each test,
so that no test meets the names of another.

## 3. What the runs check

| Run | Checks | Instance |
|---|---|---|
| `script_steps` | `TypeOK`, `NeverCrashes`, `VerdictIsEvidence`, `ReasonIsEvidence`, `AcceptedInterestsLostOneHop`, `ResponsesReturnToReceivers`, `RefinesPromise`, `NothingSentAfterFailure`, `ExecutionReturns` | all scripts of up to 3 steps, 2 links, 3 packets that may arrive, failing polls |
| `suite_tests` | `CrashesOnPickedUpBits`, `PassesOnOwnInterest` | each of the 21 tests; right, wrong and stray packets at any time; vectors that pick up bit 0 or link C |
| `suite_flush` | `SuiteTypeOK`, `FlushDropsTheLastTest`, `RunAllEnds` | two tests in a row, 2 packets queued per link |
| `end_to_end_suite` | `CorrectForwarderPasses`, `FaultyForwarderIsCaught`, `EndsEveryRun` | the whole suite, TCP, a correct forwarder and 13 faulty ones |
| `link_calls` | `LinkTypeOK`, `DescriptorsMatchLinks`, `ImplementsChannel` | 2 links of any type, calls on closed links, 2 peers, every call may fail, packets cut in two |
| `startup_rig` | `StartupTypeOK`, `LinksAreOnTheirPorts`, `TypedRigHasItsLinks`, `StartsUp`, `FlushEnds` | 5 command lines, 3 links, port 1 taken, the script run any number of times, `accept` and `poll` may fail, 2 tests |

`RefinesPromise` is a refinement: `Script` with its loops and polls implements `ScriptPromise`, in
which every step is decided at once. `plan` is the script, `observed` the readings of the steps
decided so far, `verdict` the outcome; a poll is a stutter, and the last action of a step is the
step `Decide`. `ImplementsChannel` shows the same of `Link` and `Channel`, step by step and link by
link: as long as no link comes or goes and no connection ends, each change of what a link has to
read is an arrival at the end or a receive that hands out what was at the front, and NULL comes back
only when `Channel` allows it (in `link_calls` every poll may fail, so that `Channel` always allows
it; the theorem below covers links whose polls do not fail). What the script runs assume of a link
is thus what the sockets give.

Every property has a mutant, a definition changed as a plausible bug would change the code, that
TLC must refute in the same run; mutants stand before the definition they replace.

**Bounds, and why they are enough.** Steps interact with each other through three things: the
vector a respond step shares with an earlier step, the packet a receive step refers to, and the
queue left by the steps before. A send, a receive that refers to it and a third step that refers
to either cover the first two. Two links make
every order of wrong, right and missing packets in a receive loop happen; a third adds nothing, as
the loop keeps only two booleans and the result. A queue of one packet per link already lets a
packet arrive before, during and after a poll, and be left behind; two make a read drain more than
it returns. The suite runs use the rig's three links. `Traffic` names what may arrive during each
test: its own packets forwarded rightly or wrongly, and a packet of another test. `Lists` replaces
the whole suite by one or two tests where any traffic may arrive; `end_to_end_suite` runs all 21 in
order, with a forwarder that keeps an Interest longer than the suite takes to answer it and vectors
that hold what was listed; other orders, forwarders and vectors are the theorem's.

In `link_calls` two links already compete for descriptors, and four descriptors (`MaxFd`) hold two
listening TCP links with their connections; one packet of each peer (`Writes`), cut in two parts
with a buffer that holds one (`Parts`, `MTU`), is split between two reads, and two datagrams of two
peers fill a socket's queue (`QueueLimit`). The peers are interchangeable, and the run uses that
symmetry; it checks no liveness. In `startup_rig` the forwarder's sockets are one per link; a run of
the script that is refused uses none, so that the script may be run again with those left; one of
the sockets sends (`Talkers`), which is enough to fill any one link, and two tests (`Tests`) let a
flush be followed by a test and a second flush. `Commands` holds a command line without arguments,
one with `-h`, a usual one, one with an operand in front and the port 65535, whose successors wrap
to 0 and 1, the last of them taken by another program, and one whose numbers are none or 0, for
which the default port stands. Port numbers are below 2^31, where `sscanf`'s `%zu` and the `int` of
the loop agree.

Deadlock is not checked: the program ends.

**Fairness.** `FairSpec` and `SuiteFairSpec` assume weak fairness of the rig alone: it is one
thread, the operating system runs it, and every poll ends, with a packet or after its timeout. A
poll that is ready stays ready until the rig takes it, so weak fairness is enough. Nothing is
assumed of the forwarder. `RunAllEnds` holds only once the forwarder falls silent, which is in the
property and not in the specification, because `FlushLinks` reads a link until it is silent.
`E2EFairSpec` also lets the modelled forwarder run. `StartupFairSpec` assumes weak fairness of
`main`, as above and with an operator who does press the key, and of `Dial`: the operator steps
through the script to its end. It does not assume that anybody runs the script again, nor that a
refused link is retried. `StartsUp` needs both, a proper command line, free ports that match, peers
that stay connected, and a script that adds no link before the rig listens on its port; without the
last, the forwarder is refused and the rig waits in `accept` for ever. `FlushEnds` needs only the
rig and a world that falls silent: then a flush goes on for ever only where it reads a stream that
is at its end, because its peer closed it, or because a send took the error of its reset.

## 4. Where code and documentation disagree

Each of these is a run that TLC must find violated.

- `script_respond_all`: a respond step answers only the lowest of the links that received
  (`ccnxTestrig_Script.c:128`); the header says the links.
- `script_content`: Content Objects and Manifests are accepted whatever they hold
  (`ccnxTestrig_PacketUtility.c:86-96`); the header says a packet that does not match fails.
- `script_junk`: a link vector may hold links the caller did not list (`ccnxTestrig.c:200`).
- `end_to_end_udp`: over UDP every test begins with a send on a link whose peer is not known yet,
  so that a correct forwarder fails.
- `startup_operands`: the option loop ignores that `getopt_long` returns -1 and never ends on the
  command line `athena_setup.sh` gives (`ccnxTestrig.c:254`).
- `end_to_end_expiry`: tests 4 and 5 of `ContentObject` let 1000 ms pass before they answer an Interest
  with a lifetime of 1000 ms (`ccnxTestrig_Suite.c:248`), so that a forwarder that expires it on time
  (`Grace = 0` in `EndToEnd`) fails them, although it does nothing wrong.

Others are known and have no run of their own:

- `DEFAULT_PORT` is 9596 (`ccnxTestrig.c:81`), the usage text says 9696 (`ccnxTestrig.c:228`), and 9696 is
  what the scripts use. `Startup` has the code's value, so `PortsMatch` asks for a port on the command line.
- At the end of a stream a link returns an empty buffer, which is not NULL, again and again
  (`ccnxTestrig_Link.c:158-166`); the header says the buffer is a packet (`ccnxTestrig_Link.h:198`). A
  flush that meets it never ends, which is why `FlushEnds` excludes it.
- `Close` closes the never written `targetSocket` of a UDP link, and the same numbers again when it is
  called twice (`ccnxTestrig_Link.c:371-378`), whichever link has them by then; the header says it closes
  the specified link. `DescriptorsMatchLinks` holds up to that call.
- `setup.sh` makes the forwarder connect, one command per link, before it tells the operator to start the
  rig (`setup.sh:151`). A rig that is started only then waits in `accept` for ever; `StartsUp`
  excludes it.
- The timeout of `ReceiveWithTimeout` is in seconds according to `ccnxTestrig_Link.h:193-196`; the code
  hands it to `poll`, which counts milliseconds, and its callers mean milliseconds.
- A new result is neither a success nor a failure according to `ccnxTestrig_SuiteTestResult.h:66`; the
  code starts with `passed = true`, and so does `Create`.
- Over TCP, two Interests that arrive before the poll come out of one `recv` as one packet, and a
  forwarder that does not aggregate Interests (`"nothingAggregated"`) can pass.

The suite has a blind spot that no document denies: no test looks at the links an answer must *not*
reach, so a forwarder that copies every Content Object to every link (`"contentCopiedToEveryLink"`
of `Forwarder`) passes. `end_to_end_suite` leaves this fault and `"nothingAggregated"` out of
`FaultsTried`, and `FaultyForwarderIsCaught` speaks of the faults that are tried.

## 5. What is proved

`ScriptProofs` and `ScriptPacketProofs`, for every set of packets, any of the rig's links, scripts
of any length, either transport, any traffic, failing polls and any bits picked up by
`GetLinkVector`, from the assumptions on the constants named in the modules (`PacketAssumption`,
`ChannelAssumption`, `ScriptStepAssumption`, `ScriptAssumption`):

- `TypeCorrect`: `Spec => []TypeOK`. `TypeOK` is inductive together with `SendsHavePacket`, that a
  step that sends has a packet; the proof goes action by action, with a lemma per way a step ends.
- `NoScriptCrashes`: `Spec => []NeverCrashes`.
- `VerdictsAreEvidence`: `Spec => []VerdictIsEvidence`.
- `FailedScriptsAreSilent`: `Spec => NothingSentAfterFailure`.
- `AcceptedInterests`: `Spec => []AcceptedInterestsLostOneHop`.
- `Responses`: `Spec => []ResponsesReturnToReceivers`.
- `ReasonsAreEvidence`: `Spec => []ReasonIsEvidence`.
- `ScriptKeepsPromise` (in `ScriptRefinement`): `Spec => RefinesPromise`, the refinement.

All but the first rest on one inductive invariant, `Inv`. The properties speak of a script that
has returned; they are preserved only because of what holds *while a step runs*. `Inv` says: steps
before `cur` were satisfied by what they read and their results are not failures (`Past`); steps
behind it have read nothing (`Future`); the vector of links that received is exactly the links
read (`Recorded`); in the middle of a receive loop, `succeeded`, `failedAfterReceive` and the
result say precisely what the links up to `bit` have given (`RunningLoop`); before the first step
nothing was read (`Untouched`); and at the end the verdict agrees with the step it ended in
(`Ended`). `NeverCrashes` needs `Past` and `Recorded`: a respond step finds a link because the
step it answers was satisfied and so read something. The last three add to `Inv` what it does not
need itself: a step refers only to earlier ones (`References`), whatever was read was compared with
a packet (`Compared`), and an answer was sent by a step that is over, where its reference had read
(`Answered`); and, for the reason of a failure, that a step which has failed and still polls has a
wrong packet among its readings (`Reasons`). TLC checked `Inv`
and the first three of these additions as invariants of
`script_steps`' instance before it was proved.

The refinement uses `Inv` of both states of a step. Seen from the promise a step of `Script` has one
of five shapes: it writes a step of the script, it ends the running step (`StepDecided`), it changes
nothing the promise sees (`NothingDecided`), it crashes, or it returns. That the verdict agrees
with `Satisfied` when a step ends is read off `Past` and `Ended` in the next state, so that the
refinement needs no invariant of its own.

`SuiteProofs`, for every list of the suite's tests, any traffic, socket size and transport, from
the same assumptions and `SuiteAssumption` and `SuiteRigAssumption` (the rig has its three links,
and the packets of the tests are packets):

- `OwnInterests`: `SuiteSpec => []PassesOnOwnInterest`.
- `FlushesAreThorough`: `SuiteSpec => []FlushDropsTheLastTest`.
- `OnlyPickedUpBitsCrash`: `SuiteSpec => []CrashesOnPickedUpBits`, whatever `VaJunk` holds: a test
  crashes only at a receive step whose vector picked up bit 0, for which `GetLinkByID` returns NULL.
- `SuiteTypes`: `SuiteSpec => []SuiteTypeOK`.

`TestScripts` goes through the 21 scripts: each is well formed, sends its test's Interest first and
waits for it with a receive-one step (`SuiteScript`). A test establishes `Inv` when it starts
(`FreshScript`), its steps keep it (`NextEvidence` of `ScriptProofs`), and reports, flushes and the
forwarder touch only the links (`OnlyTheLinks`). So `Inv` holds throughout a run, and with it
everything said of a script; `SuiteInv` adds where `RunAll` stands (`Running`), that the old packets
of a link are the first of its queue and gone below the link the flush is at (`Flushed`), and the
number of results (`Listed`). `PassesOnOwnInterest` then follows from `Past`: the receive-one step
was satisfied, and only an Interest that lost one hop satisfies it.

`LinkProofs` and `LinkRefinement`, for any number of links, descriptors and peers, any sequence of
calls of which any may fail, queues and buffers of any size, and packets cut into any number of
parts, from `LinkAssumption`:

- `LinksKeepTypes`: `LinkSpec => []LinkTypeOK`.
- `DescriptorsMatch`: `LinkSpec => []DescriptorsMatchLinks`. It speaks of the calls up to the first that
  uses another link's descriptor, by an unwritten target or by a number a closed link still has; until
  then closed links may be closed, read and sent on again.
- `LinksImplementChannel`: `LinkSpec => ImplementsChannel`.

The invariant of the first two, `LinkInv`, says who holds what: a descriptor is open if and only
if an open link holds it (`Owned`), no two links hold one (`Apart`), the descriptor a link reads
from is a socket of its type (`KindsMatch`), and a link that waits in `accept` holds the socket that
listens and nothing else (`Waiting`). The kernel hands out a closed descriptor, which by `Owned`
nobody holds; that is why a new link takes nothing from an old one.

`LinksImplementChannel` needs more (`ChannelInv`): a connection is at one place, behind one stream
or once in one backlog, and a peer that is away at none (`Places`). `connect` and the peers put a
connection somewhere first, `accept` moves it from the head of a backlog to a stream, and every other
step takes up none (`Neutral`). Then what arrives on a connection, or is read from it, concerns one
link (`OwnStream`, `OwnQueue`), and each step is one of `Channel` on that link and leaves the queues
of all others alone. TLC checked `ChannelInv` on the instance of `link_calls` before it was proved.

`StartupProofs`, for every set of command lines, each of any length, whatever the unset type was, any
number of tests, any ports the script adds links to, and however often it is run, from
`LinkAssumption` and `StartupAssumption` (the rig has its three links; options and ports are numbers):

- `StartupKeepsTypes`: `StartupSpec => []StartupTypeOK`.
- `LinksOnTheirPorts`: `StartupSpec => []LinksAreOnTheirPorts`.
- `TypedRigsHaveTheirLinks`: `StartupSpec => []TypedRigHasItsLinks`.

The invariant, `StartupInv`, has a part for each stage. The options are the last number read of each
kind, and all are read once `main` goes on (`OptionsRead`); before that no link exists (`NotYet`), and
with a type that was given none is NULL (`NoneNull`). The links keep `LinkInv` and `Places`, as every
step of `main` on them is a step of `Link`. For the ports, a connection that waits in a backlog was
dialled to the port of that backlog (`BacklogPorts`), and the socket `accept` waits on is bound to the
port of the link it is called for (`AcceptsOwn`); so what `accept` takes from the backlog is a
connection to the link's own port (`OwnPorts`). It stays so because a peer that is yet to connect is
by `Places` behind no stream. A failed `bind` leaves a socket with no port, to which nobody connects.
TLC checked the parts of `StartupInv` on the instance of `startup_rig` before they were proved.

`EndToEndProofs`, for every list of the suite's tests in any order, any size of the buffers, any `Grace`,
any `VaJunk`, and every interleaving of the forwarder's work with the rig's polls, from the
assumptions of `SuiteProofs`, `EndToEndAssumption` and `ReliableTCP` (TCP, and no poll fails):

- `CorrectForwardersPass`: `E2ESpec => []CorrectForwarderPasses`. The exceptions are in the property:
  a test whose vectors picked up another bit (`AsListed`), and tests 4 and 5 against a forwarder
  with `Grace = 0` (`AnsweredTooLate`), which is the finding `end_to_end_expiry`.
- `FaultyForwardersAreCaught`: `E2ESpec => []FaultyForwarderIsCaught`, if every list has all tests,
  `FaultsTried` leaves out the two faults that no test need show (section 4), `VaJunk` is empty and
  `Grace` is above 0: a faulty forwarder may pass a test that polls other links than it lists.
- `TestsKeepToCourse`: `E2ESpec => []CourseInv`, what the first two rest on.

`ReliableTCP` is needed: over UDP a correct forwarder fails (`end_to_end_udp`), and a poll
that fails looks like one that timed out. `end_to_end_suite` is an instance that satisfies it.

The argument follows the tests. `CorrectCourse` lists for each test the packets it sends, the step
that sends each, the step that reads it on each link it comes out of, and who is then waiting in the
forwarder's table; `CatchingCourse` does so for each of 11 faults, with the test that shows it
(`Catcher`) and the step this test fails at (`Stop`). Two facts tie a course to the rest, and each
is a case analysis over the tests: it fits the script (`CoursesFit`: whoever receives finds one packet
that was meant for it, on links that were silent before), and it is what the forwarder does
(`CoursesServed`: from the table the course names, `Forwards` emits what the course says and leaves
the next table). What the courses need of the other tests is in `E2EInv`: between two tests nothing
is queued and nothing is on its way (`Quiet`), the table holds entries of tests that were run, whose
names the current test does not use (`Table`), and what was sent is the test's own (`Outgoings`).
`CourseInv` then says where a test stands on its course: which of its packets are sent, forwarded,
queued and read, and how old its entry of the table is, or that it stopped where it
should. The last two faults, about hop limits, need no course: no Interest that arrives is one hop
shorter (`HopInv`), so that by `PassesOnOwnInterest` no test passes. `VerdictInv` carries the
outcome from each test into the results. TLC checked `E2EInv`'s parts, `CourseInv`, `FitsInv`,
`HopInv` and `VerdictInv` as invariants of an instance like that of `end_to_end_suite`, with all 21
tests in several orders, before they were proved. A course is followed by a test as it is listed and by
a forwarder that is patient with it (`Patient`: `Grace > 0`, or the test does not answer late).

Checked by TLC only: liveness (`ExecutionReturns`, `RunAllEnds`, `EndsEveryRun`, `StartsUp`,
`FlushEnds`), which is out of the prover's reach, and the disagreements of section 4. Every safety
property of a passing run is proved.

## 6. What is not modelled

- Of sockets: two UDP sockets that share a port by `SO_REUSEADDR`, a `send` that blocks because the
  other end does not read, connections closed in one direction only, and calls interrupted by a
  signal. A failing `setsockopt` or `listen` has the effect of a failing `bind`.
- Of the command line: the characters of an argument, `--`, and numbers of 2^31 and more.
- The wording of the reports and the file they go to; the lines are `resultList`.
- Memory: strings copied without their terminator, objects released early or never.
- The codec and the cryptographic library, and the forwarder's control protocol.

## 7. Plan

Done: the script, its promise, the theorems about both and the refinement between them; the suite
and its theorems; the suite against a forwarder; links over sockets, and the proof that they are the
channel the scripts use; `main` from the command line to the last flush, and its theorems; that the
suite passes a right forwarder and catches a faulty one.

Next, more of `Forwarder`: losing and delaying packets, to tell which tests depend on timing.
