------------------------------- MODULE EndToEnd -------------------------------
(***************************************************************************)
(* The suite against the forwarder the suite expects: what the rig sent is *)
(* forwarded, in order and at any time between the rig's steps, and        *)
(* nothing else arrives.  Only a poll that ends in vain takes time: 1000   *)
(* ms in a step of a script, 100 ms in a flush, and the forwarder has done *)
(* all its work when it ends.                                              *)
(*                                                                         *)
(* A listening TCP link knows its peer, the forwarder, from accept.  A     *)
(* listening UDP link has no address to send to until recvfrom stored that *)
(* of a packet it read: the field is not initialised, and what is sent     *)
(* before reaches no forwarder.                                            *)
(***************************************************************************)
EXTENDS Suite, Forwarder, SequencesExt

CONSTANT FaultsTried    \* bound: the faults a run chooses from

VARIABLES fault,        \* what the forwarder does wrong
          pit,          \* its pending Interest table
          forwarded,    \* how many of the packets in sent it has processed
          addressed,    \* the links whose targetSocket or targetAddress is set
          lost          \* which of the packets in sent went to no forwarder

\* The suite's packets, as a forwarder may pass them on, are among those that may arrive; each test is
\* run once, as the names it makes are new ones.
ASSUME EndToEndAssumption ==
    /\ FaultsTried \subseteq Faults
    /\ \A t \in Test : AnswerOf(t) \in Arrival /\ \A f \in Faults : NextHop(f, InterestOf(t)) \in Arrival
    /\ \A list \in Lists : IsInjective(list)

forwarderVars == <<fault, pit, forwarded>>
linkVars == <<addressed, lost>>
e2eVars == <<allVars, forwarderVars, linkVars>>

Idle == forwarded = Len(sent)

\* A poll of the running script, or of the flush, ends with NULL.
ScriptPollTimesOut ==
    /\ Idle /\ phase = "running" /\ TimeoutStep
    /\ pit' = Aged(pit, 1000)
    /\ UNCHANGED <<suiteVars, fault, forwarded, linkVars>>

FlushPollTimesOut ==
    /\ Idle /\ FlushTimeout
    /\ pit' = Aged(pit, 100)
    /\ UNCHANGED <<fault, forwarded, linkVars>>

\* The transmissions of a step that go to no forwarder.
SentToNobody ==
    {i \in DOMAIN sent' : i > Len(sent) /\ sent'[i].link \notin addressed}

RigSteps ==
    /\ Prompt
    /\ IF test' # test THEN forwarded' = 0 /\ lost' = {}
                       ELSE forwarded' = forwarded /\ lost' = lost \cup SentToNobody
    /\ addressed' = addressed \cup {l \in LinkID : Len(inbox'[l]) < Len(inbox[l])}
    /\ UNCHANGED <<fault, pit>>

\* The forwarder processes the oldest packet it has not processed.
Forwards ==
    /\ ~Idle
    /\ LET t    == sent[forwarded + 1]
           p    == t.packet
           done == IF forwarded + 1 \in lost THEN [emits |-> {}, pit |-> pit]
                   ELSE IF p.type = "interest"
                        THEN OnInterest(fault, pit, t.link, p, Prefix(tests[test]))
                        ELSE OnAnswer(fault, pit, t.link, p, Nameless)
       IN  /\ pit' = done.pit
           /\ inbox' = [l \in LinkID |->
                           inbox[l] \o SetToSeq({e[2] : e \in {x \in done.emits : x[1] = l}})]
    /\ forwarded' = forwarded + 1
    /\ UNCHANGED <<scriptVars, suiteVars, fault, linkVars>>

E2EInit ==
    /\ SuiteInit
    /\ fault \in FaultsTried /\ pit = {} /\ forwarded = 0
    /\ addressed = (IF Transport = "TCP" THEN LinkID ELSE {}) /\ lost = {}

E2ENext == ScriptPollTimesOut \/ FlushPollTimesOut \/ RigSteps \/ Forwards

E2ESpec == E2EInit /\ [][E2ENext]_e2eVars

E2EFairSpec == E2ESpec /\ WF_e2eVars(E2ENext)

------------------------------------------------------------------------------
Failures == {i \in DOMAIN resultList : resultList[i] # <<"PASS">>}

\* The running script polls the links its test lists: no vector picked up another bit.
AsListed == script = TestScript(tests[test], {})

\* Two tests listen for 1000 ms, the lifetime of their Interest, before they answer it: a forwarder
\* that keeps no entry beyond its lifetime has dropped this one by then.
AnsweredTooLate == Grace = 0 /\ tests[test] \in {"ContentObjectTest_4", "ContentObjectTest_5"}

\* A forwarder that does nothing wrong passes a test, in whatever order its packets and the rig's
\* polls interleave and whatever the tests before left behind, unless the rig polls other links than
\* it should, or answers an Interest after its lifetime.
CorrectForwarderPasses ==
    fault = "none" /\ phase = "running" /\ pc = "returned" =>
        result.passed \/ ~AsListed \/ AnsweredTooLate

\* Every fault of FaultsTried but "none" fails a test of the list.
FaultyForwarderIsCaught == phase = "done" /\ fault # "none" => Failures # {}

\* RunAll gets through the whole suite: with this forwarder no flush goes on for ever.
EndsEveryRun == <>(phase = "done" /\ test = Len(tests))

------------------------------------------------------------------------------
\* README.md: the rig assesses the packet forwarding functionality of a CCNx forwarder for correctness;
\* one that does nothing wrong, but keeps no Interest beyond its lifetime, fails ContentObjectTest_4.
EveryCorrectForwarderPasses == fault = "none" => Failures = {}

=============================================================================
