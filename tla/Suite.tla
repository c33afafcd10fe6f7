-------------------------------- MODULE Suite --------------------------------
(***************************************************************************)
(* The test suite (ccnxTestrig_Suite.c): the scripts of its tests, and     *)
(* RunAll, which runs and reports them one after the other and flushes the *)
(* links behind each (ccnxTestrig_FlushLinks), against a forwarder that is *)
(* a black box.                                                            *)
(***************************************************************************)
EXTENDS Script

CONSTANTS Lists,     \* bound: the lists of tests RunAll may be run on; the code's is SuiteTest itself
          Traffic    \* bound: the packets that may arrive during a test, or the flush behind it

SuiteTest == <<
    "FIBTest_BasicInterest_1a", "FIBTest_BasicInterest_1b",
    "ContentObjectTest_1", "ContentObjectTest_2", "ContentObjectTest_3",
    "ContentObjectTest_4", "ContentObjectTest_5", "ContentObjectTest_6",
    "ContentObjectErrors_1", "ContentObjectErrors_2", "ContentObjectErrors_3",
    "ContentObjectRestrictions_1", "ContentObjectRestrictions_2",
    "ContentObjectRestrictions_3", "ContentObjectRestrictions_4",
    "ContentObjectRestrictionErrors_1", "ContentObjectRestrictionErrors_2",
    "ContentObjectRestrictionErrors_3", "ContentObjectRestrictionErrors_4",
    "ContentObjectRestrictionErrors_5", "ContentObjectRestrictionErrors_6" >>

Test == {SuiteTest[i] : i \in DOMAIN SuiteTest}

ASSUME SuiteAssumption ==
    /\ Lists \subseteq Seq(Test)
    /\ Traffic \in [Test -> SUBSET Arrival]

VARIABLES
    tests,        \* the list of tests being run
    test,         \* how many of them were started
    phase,        \* "idle" between two tests, "running", "flushing" or "done"
    flushing,     \* the link FlushLinks is at
    resultList,   \* what was reported of each test
    old           \* history: per link, the packets queued before the last report and still unread

suiteVars == <<tests, test, phase, flushing, resultList, old>>
allVars == <<vars, suiteVars>>

------------------------------------------------------------------------------
(* The packets of a test. *)

Nameless == <<"", "">>

\* A fresh name under a prefix: sixteen random bytes tell every test's names from all others.
RandomName(prefix, t) == <<prefix, t>>

Prefix(t) == CASE t \in {"FIBTest_BasicInterest_1b", "ContentObjectTest_5",
                         "ContentObjectTest_6"} -> "c"
               [] t = "ContentObjectTest_3"     -> "bc"
               [] t = "ContentObjectTest_4"     -> "ab"
               [] OTHER                         -> "b"

HasNamelessContent(t) ==
    t \in {"ContentObjectRestrictions_4", "ContentObjectRestrictionErrors_4",
           "ContentObjectRestrictionErrors_5", "ContentObjectRestrictionErrors_6"}

\* "key" is the key id of the signature, "other" the string "this is a key id".
ContentKeyId(t) ==
    IF t \in {"ContentObjectRestrictions_2", "ContentObjectRestrictions_3",
              "ContentObjectRestrictionErrors_2", "ContentObjectRestrictionErrors_4",
              "ContentObjectRestrictionErrors_5", "ContentObjectRestrictionErrors_6"}
    THEN "key" ELSE "none"

KeyIdRestriction(t) ==
    CASE t \in {"ContentObjectRestrictions_2", "ContentObjectRestrictions_3",
                "ContentObjectRestrictionErrors_4", "ContentObjectRestrictionErrors_5"} -> "key"
      [] t \in {"ContentObjectRestrictionErrors_2", "ContentObjectRestrictionErrors_3",
                "ContentObjectRestrictionErrors_6"} -> "other"
      [] OTHER -> "none"

\* Tests 5 and 6 of the restriction errors build the same nameless, signed object.
ContentHash(t) ==
    IF t = "ContentObjectRestrictionErrors_6" THEN "ContentObjectRestrictionErrors_5" ELSE t

\* "zero" is a fresh buffer of 32 bytes, the digest of no object.
HashRestriction(t) ==
    CASE t \in {"ContentObjectRestrictions_1", "ContentObjectRestrictions_3",
                "ContentObjectRestrictions_4", "ContentObjectRestrictionErrors_6"} -> ContentHash(t)
      [] t \in {"ContentObjectRestrictionErrors_1", "ContentObjectRestrictionErrors_5"} -> "zero"
      [] OTHER -> "none"

InterestOf(t) ==
    [type |-> "interest", name |-> RandomName(Prefix(t), t), hopLimit |-> 255, lifetime |-> 1000,
     keyId |-> KeyIdRestriction(t), hash |-> HashRestriction(t)]

\* Mutant: the manifest test answers with a Content Object.
AnswerOfContentOnly(t) ==
    [type |-> "content",
     name |-> IF HasNamelessContent(t) THEN Nameless ELSE RandomName(Prefix(t), t),
     hopLimit |-> 0, lifetime |-> 0, keyId |-> ContentKeyId(t), hash |-> ContentHash(t)]

AnswerOf(t) ==
    [type |-> IF t = "ContentObjectTest_2" THEN "manifest" ELSE "content",
     name |-> IF HasNamelessContent(t) THEN Nameless ELSE RandomName(Prefix(t), t),
     hopLimit |-> 0, lifetime |-> 0, keyId |-> ContentKeyId(t), hash |-> ContentHash(t)]

\* The rig has its three links, and the suite's packets are among those of the rig.
ASSUME SuiteRigAssumption ==
    /\ LinkID = {LinkA, LinkB, LinkC}
    /\ \A t \in Test : InterestOf(t) \in Packet /\ AnswerOf(t) \in Packet

------------------------------------------------------------------------------
(* The scripts.  junk is what GetLinkVector picks up behind its arguments. *)

SendsInterest(t, l) == CreateSendStep(l, InterestOf(t))
SendsAnswer(t, l)   == CreateSendStep(l, AnswerOf(t))
Responds(t, step)   == CreateRespondStep(step, AnswerOf(t))

\* A consumer on link A, a producer on link B, and whether the answer comes back.
Exchange(t, last, junk) ==
    << SendsInterest(t, LinkA), CreateReceive("receiveOne", 1, {LinkB}, junk),
       SendsAnswer(t, LinkB),   CreateReceive(last, 3, {LinkA}, junk) >>

FIBTest(t, junk) ==
    IF t = "FIBTest_BasicInterest_1a"
    THEN << SendsInterest(t, LinkA), CreateReceive("receiveOne", 1, {LinkB}, junk),
            Responds(t, 2),          CreateReceive("receiveOne", 3, {LinkA}, junk) >>
    ELSE << SendsInterest(t, LinkA), CreateReceive("receiveOne", 1, {LinkC}, junk),
            SendsAnswer(t, LinkC),   CreateReceive("receiveOne", 3, {LinkA}, junk) >>

ContentObjectTest(t, junk) ==
    CASE t = "ContentObjectTest_3" ->
            << SendsInterest(t, LinkA), CreateReceive("receiveOne", 1, {LinkB, LinkC}, junk),
               Responds(t, 2),          CreateReceive("receiveOne", 3, {LinkA}, junk) >>
      [] t = "ContentObjectTest_4" ->
            << SendsInterest(t, LinkA), CreateReceive("receiveOne", 1, {LinkB}, junk),
               CreateReceive("receiveNone", 1, {LinkA}, junk),
               Responds(t, 2),          CreateReceive("receiveOne", 4, {LinkA}, junk) >>
      [] t = "ContentObjectTest_5" ->
            << SendsInterest(t, LinkA), SendsInterest(t, LinkB),
               CreateReceive("receiveOne", 1, {LinkC}, junk),
               CreateReceive("receiveNone", 1, {LinkC}, junk),
               Responds(t, 3),          CreateReceive("receiveAll", 5, {LinkA, LinkB}, junk) >>
      [] t = "ContentObjectTest_6" ->
            << SendsInterest(t, LinkA), CreateReceive("receiveOne", 1, {LinkC}, junk),
               SendsInterest(t, LinkA), CreateReceive("receiveOne", 1, {LinkC}, junk),
               Responds(t, 4),          CreateReceive("receiveAll", 5, {LinkA}, junk) >>
      [] OTHER -> Exchange(t, "receiveOne", junk)

ContentObjectErrors(t, junk) ==
    LET Misplaced(l) ==
            << SendsInterest(t, LinkA), CreateReceive("receiveOne", 1, {LinkB}, junk),
               SendsAnswer(t, l),       CreateReceive("receiveNone", 3, {LinkA}, junk) >>
    IN  CASE t = "ContentObjectErrors_1" -> Misplaced(LinkA)
          [] t = "ContentObjectErrors_2" -> Misplaced(LinkC)
          [] t = "ContentObjectErrors_3" ->
                Exchange(t, "receiveOne", junk)
                    \o << SendsAnswer(t, LinkB), CreateReceive("receiveNone", 5, {LinkA}, junk) >>

ContentObjectRestrictions(t, junk) == Exchange(t, "receiveOne", junk)

ContentObjectRestrictionErrors(t, junk) == Exchange(t, "receiveNone", junk)

TestsIn(first, last) == {SuiteTest[i] : i \in first..last}

TestScript(t, junk) ==
    CASE t \in TestsIn(1, 2)   -> FIBTest(t, junk)
      [] t \in TestsIn(3, 8)   -> ContentObjectTest(t, junk)
      [] t \in TestsIn(9, 11)  -> ContentObjectErrors(t, junk)
      [] t \in TestsIn(12, 15) -> ContentObjectRestrictions(t, junk)
      [] t \in TestsIn(16, 21) -> ContentObjectRestrictionErrors(t, junk)

------------------------------------------------------------------------------
(* Running them. *)

\* The next test builds its script and starts to execute it.
RunTest ==
    /\ phase = "idle" /\ test < Len(tests)
    /\ test' = test + 1 /\ phase' = "running"
    /\ \E junk \in SUBSET VaJunk : script' = TestScript(tests[test + 1], junk)
    /\ received' = [k \in DOMAIN script' |-> {}]
    /\ taken' = [k \in DOMAIN script' |-> {}]
    /\ sent' = <<>>
    /\ pc' = "step" /\ cur' = 1 /\ result' = Create
    /\ bit' = -1 /\ succeeded' = FALSE /\ failedAfterReceive' = FALSE
    /\ UNCHANGED <<tests, flushing, resultList, old, inbox>>

\* The script returned: its result is reported and saved, and the flush begins with link A.
ReportResult ==
    /\ phase = "running" /\ pc = "returned"
    /\ resultList' = Append(resultList, Report(result))
    /\ phase' = "flushing" /\ flushing' = LinkA
    /\ old' = [l \in LinkID |-> Len(inbox[l])]
    /\ UNCHANGED <<tests, test, vars>>

scriptVars == <<script, received, pc, cur, loopVars, result, historyVars>>

\* Mutant: the loop over the links ends one link too late.
FlushMovesOnPast ==
    IF flushing > LinkC
    THEN phase' = (IF test = Len(tests) THEN "done" ELSE "idle") /\ flushing' = flushing
    ELSE phase' = phase /\ flushing' = flushing + 1

\* The flush moves on to the next link, or ends behind the last.
FlushMovesOn ==
    IF flushing = LinkC
    THEN phase' = (IF test = Len(tests) THEN "done" ELSE "idle") /\ flushing' = flushing
    ELSE phase' = phase /\ flushing' = flushing + 1

\* Mutant: one packet of a link is read, and the flush goes on to the next link.
FlushReadsOnce(p) ==
    /\ phase = "flushing" /\ Receives(flushing, p)
    /\ old' = [old EXCEPT ![flushing] = IF @ <= TakenAtOnce THEN 0 ELSE @ - TakenAtOnce]
    /\ FlushMovesOn
    /\ UNCHANGED <<tests, test, resultList, scriptVars>>

FlushReads(p) ==
    /\ phase = "flushing" /\ Receives(flushing, p)
    /\ old' = [old EXCEPT ![flushing] = IF @ <= TakenAtOnce THEN 0 ELSE @ - TakenAtOnce]
    /\ UNCHANGED <<tests, test, phase, flushing, resultList, scriptVars>>

\* Mutant: a flush waits for a packet on every link before it goes on.
FlushTimeoutWaits ==
    /\ phase = "flushing" /\ ReceivesNothing(flushing)
    /\ UNCHANGED allVars

FlushTimeout ==
    /\ phase = "flushing" /\ ReceivesNothing(flushing)
    /\ FlushMovesOn
    /\ UNCHANGED <<tests, test, resultList, old, scriptVars>>

Prompt ==
    \/ RunTest \/ ReportResult
    \/ phase = "running" /\ PromptStep /\ UNCHANGED suiteVars
    \/ \E p \in Arrival : FlushReads(p)

Waits ==
    \/ phase = "running" /\ TimeoutStep /\ UNCHANGED suiteVars
    \/ FlushTimeout

SuiteRig == Prompt \/ Waits

SuiteForwarder ==
    /\ phase \in {"running", "flushing"}
    /\ \E l \in LinkID, p \in Traffic[tests[test]] : Deliver(l, p)
    /\ UNCHANGED <<scriptVars, suiteVars>>

SuiteInit ==
    /\ Init
    /\ tests \in Lists
    /\ test = 0 /\ phase = "idle" /\ flushing = LinkA /\ resultList = <<>>
    /\ old = [l \in LinkID |-> 0]

SuiteNext == SuiteRig \/ SuiteForwarder

SuiteSpec == SuiteInit /\ [][SuiteNext]_allVars

\* The rig's thread runs and every poll ends; the forwarder does as it likes.
SuiteFairSpec == SuiteSpec /\ WF_allVars(SuiteRig)

------------------------------------------------------------------------------
SuiteTypeOK ==
    /\ TypeOK
    /\ tests \in Lists /\ test \in 0..Len(tests)
    /\ phase \in {"idle", "running", "flushing", "done"}
    /\ flushing \in LinkID
    /\ old \in [LinkID -> 0..SocketBuffer]
    /\ Len(resultList) = test - (IF phase = "running" THEN 1 ELSE 0)

\* While no receive call fails, nothing that was queued on a link when a test was reported is left
\* there for the next test to read: FlushLinks reads every link until it is silent.  (What arrives
\* during the flush, on a link it has passed already, is left.)
FlushDropsTheLastTest == ~ReceiveErrors /\ phase # "flushing" => \A l \in LinkID : old[l] = 0

\* No test passes unless its own Interest came out of the forwarder again, one hop shorter, during
\* the test: neither silence nor whatever else a link holds, leftovers of the test before included,
\* can stand in for it.
PassesOnOwnInterest ==
    phase = "running" /\ pc = "returned" /\ result.passed =>
        \E k \in DOMAIN taken : \E r \in taken[k] : r[2] = Forwarded(InterestOf(tests[test]))

\* Whatever the forwarder sends, only one thing brings a test of the suite down: a receive step whose
\* vector picked up bit 0, which is no link, so that GetLinkByID returns NULL; no step gets past one.
\* A respond step always finds a link in the vector it shares, and every packet has one to match.
CrashesOnPickedUpBits ==
    /\ pc = "crashed" => ~(script[cur].links \subseteq LinkID)
    /\ \A k \in 1..(cur - 1) : script[k].op \in ReceiveOp => script[k].links \subseteq LinkID

\* Once the forwarder has nothing more to say, RunAll gets through all its tests.
RunAllEnds ==
    <>[][\A l \in LinkID : Len(inbox'[l]) <= Len(inbox[l])]_allVars => <>(phase = "done")

=============================================================================
