----------------------------- MODULE SuiteProofs -----------------------------
(***************************************************************************)
(* Proofs about the test suite, for every list of its tests and whatever   *)
(* the forwarder sends.                                                    *)
(***************************************************************************)
EXTENDS Suite, ScriptPacketProofs

------------------------------------------------------------------------------
(* The scripts of the suite. *)

\* The kinds of steps its scripts are made of; those of a test send the packets P of that test.
IsSend(s, P) ==
    s \in Step /\ s.op = "send" /\ s.packet \in P /\ s.links # {} /\ s.links \subseteq LinkID

IsRespond(s, k, P) == s \in Step /\ s.op = "respond" /\ s.packet \in P /\ s.step = k

IsReceive(s, k) == s \in Step /\ s.op \in ReceiveOp /\ s.step = k /\ s.links # {}

IsReceiveOne(s, k) == IsReceive(s, k) /\ s.op = "receiveOne"

\* The first step sends a packet and the second or third waits for it to come out again.
SuiteScript(plan, P) ==
    /\ plan \in Seq(Step) /\ Len(plan) \in 4..6
    /\ \A k \in 1..Len(plan) : plan[k].op \in SendOp => plan[k].packet \in P
    /\ \E k \in 2..3 : plan[k].op = "receiveOne" /\ plan[k].step = 1
    /\ AsWritten(plan)

\* What the suite writes is one of these kinds.
LEMMA SendKind ==
    ASSUME NEW P \in SUBSET Packet, NEW p \in P, NEW l \in LinkID
    PROVE  IsSend(CreateSendStep(l, p), P)
<1>1. {l} \subseteq LinkBit
  BY ChannelAssumption DEF LinkA, LinkB, LinkC, LinkBit
<1>2. CreateSendStep(l, p) \in Step
  BY <1>1 DEF CreateSendStep, Step, SendOp, ReceiveOp
<1> QED BY <1>2 DEF IsSend, CreateSendStep

LEMMA RespondKind ==
    ASSUME NEW P \in SUBSET Packet, NEW p \in P, NEW k \in Nat
    PROVE  IsRespond(CreateRespondStep(k, p), k, P)
BY DEF IsRespond, CreateRespondStep, Step, SendOp, ReceiveOp

LEMMA ReceiveKind ==
    ASSUME NEW op \in ReceiveOp, NEW k \in Nat, NEW listed \in SUBSET LinkID, listed # {},
           NEW junk \in SUBSET VaJunk
    PROVE  IsReceive(CreateReceive(op, k, listed, junk), k) /\ CreateReceive(op, k, listed, junk).op = op
<1>1. listed \subseteq LinkBit /\ junk \subseteq LinkBit
  BY ChannelAssumption, ScriptAssumption DEF LinkA, LinkB, LinkC, LinkBit
<1>2. CreateReceive(op, k, listed, junk) \in Step
  BY <1>1 DEF CreateReceive, GetLinkVector, Step, SendOp, ReceiveOp
<1> QED BY <1>2 DEF IsReceive, CreateReceive, GetLinkVector

\* A step is well formed if it is one of them and refers to one of the right kind.
LEMMA Formed ==
    ASSUME NEW P \in SUBSET Packet, NEW plan, NEW k \in Nat,
           \/ IsSend(plan[k], P)
           \/ \E j \in 1..(k - 1) : IsRespond(plan[k], j, P) /\ IsReceiveOne(plan[j], plan[j].step)
           \/ \E j \in 1..(k - 1) : /\ IsReceive(plan[k], j)
                                    /\ IsSend(plan[j], P) \/ IsRespond(plan[j], plan[j].step, P)
    PROVE  StepAsWritten(plan, k)
<1>1. CASE IsSend(plan[k], P)
  BY <1>1 DEF IsSend, StepAsWritten
<1>2. ASSUME NEW j \in 1..(k - 1), IsRespond(plan[k], j, P), IsReceiveOne(plan[j], plan[j].step)
      PROVE  StepAsWritten(plan, k)
  BY <1>2 DEF IsRespond, IsReceiveOne, StepAsWritten
<1>3. ASSUME NEW j \in 1..(k - 1), IsReceive(plan[k], j),
             IsSend(plan[j], P) \/ IsRespond(plan[j], plan[j].step, P)
      PROVE  StepAsWritten(plan, k)
  BY <1>3 DEF IsReceive, IsSend, IsRespond, StepAsWritten, ReceiveOp, SendOp
<1> QED BY <1>1, <1>2, <1>3

\* Steps of these kinds are steps, and those that send have a packet.
LEMMA Kinds ==
    ASSUME NEW P \in SUBSET Packet, NEW s, NEW k, IsSend(s, P) \/ IsRespond(s, k, P) \/ IsReceive(s, k)
    PROVE  s \in Step /\ (s.op \in SendOp => s.packet \in P)
BY DEF IsSend, IsRespond, IsReceive, ReceiveOp, SendOp

\* The shape of most tests: an exchange between a consumer and a producer.
LEMMA FourSteps ==
    ASSUME NEW P \in SUBSET Packet, NEW a, NEW b, NEW c, NEW d, IsSend(a, P), IsReceiveOne(b, 1),
           IsSend(c, P) \/ IsRespond(c, 2, P), IsReceive(d, 3)
    PROVE  SuiteScript(<<a, b, c, d>>, P)
<1> DEFINE plan == <<a, b, c, d>>
<1>1. IsReceive(b, 1) /\ b.op = "receiveOne" /\ b.step = 1
  BY DEF IsReceiveOne, IsReceive
<1>2. /\ a \in Step /\ b \in Step /\ c \in Step /\ d \in Step
      /\ \A s \in {a, b, c, d} : s.op \in SendOp => s.packet \in P
  BY <1>1, Kinds
<1>3. /\ plan \in Seq(Step) /\ Len(plan) = 4
      /\ plan[1] = a /\ plan[2] = b /\ plan[3] = c /\ plan[4] = d
  BY <1>2
<1>4. AsWritten(plan)
  <2> HIDE DEF plan
  <2>1. StepAsWritten(plan, 1)
    BY <1>3, Formed
  <2>2. StepAsWritten(plan, 2)
    BY <1>1, <1>3, Formed, 1 \in 1..(2 - 1)
  <2>3. StepAsWritten(plan, 3)
    BY <1>1, <1>3, Formed, 2 \in 1..(3 - 1)
  <2>4. StepAsWritten(plan, 4)
    <3>1. IsSend(c, P) \/ IsRespond(c, c.step, P)
      BY DEF IsRespond
    <3> QED BY <1>3, <3>1, Formed, 3 \in 1..(4 - 1)
  <2> QED BY <1>3, <2>1, <2>2, <2>3, <2>4 DEF AsWritten
<1> HIDE DEF plan
<1>5. \A k \in 1..Len(plan) : plan[k].op \in SendOp => plan[k].packet \in P
  BY <1>2, <1>3
<1>6. \E k \in 2..3 : plan[k].op = "receiveOne" /\ plan[k].step = 1
  BY <1>1, <1>3
<1>7. SuiteScript(plan, P)
  BY <1>3, <1>4, <1>5, <1>6 DEF SuiteScript
<1> QED BY <1>7 DEF plan

\* ContentObjectTest_4: the answer comes after a while of silence.
LEMMA FiveSteps ==
    ASSUME NEW P \in SUBSET Packet, NEW a, NEW b, NEW c, NEW d, NEW e,
           IsSend(a, P), IsReceiveOne(b, 1), IsReceive(c, 1),
           IsRespond(d, 2, P), IsReceive(e, 4)
    PROVE  SuiteScript(<<a, b, c, d, e>>, P)
<1> DEFINE plan == <<a, b, c, d, e>>
<1>1. IsReceive(b, 1) /\ b.op = "receiveOne" /\ b.step = 1
  BY DEF IsReceiveOne, IsReceive
<1>2. /\ a \in Step /\ b \in Step /\ c \in Step /\ d \in Step /\ e \in Step
      /\ \A s \in {a, b, c, d, e} : s.op \in SendOp => s.packet \in P
  BY <1>1, Kinds
<1>3. /\ plan \in Seq(Step) /\ Len(plan) = 5
      /\ plan[1] = a /\ plan[2] = b /\ plan[3] = c /\ plan[4] = d /\ plan[5] = e
  BY <1>2
<1>4. AsWritten(plan)
  <2> HIDE DEF plan
  <2>1. StepAsWritten(plan, 1)
    BY <1>3, Formed
  <2>2. StepAsWritten(plan, 2)
    BY <1>1, <1>3, Formed, 1 \in 1..(2 - 1)
  <2>3. StepAsWritten(plan, 3)
    BY <1>1, <1>3, Formed, 1 \in 1..(3 - 1)
  <2>4. StepAsWritten(plan, 4)
    BY <1>1, <1>3, Formed, 2 \in 1..(4 - 1)
  <2>5. StepAsWritten(plan, 5)
    <3>1. IsRespond(d, d.step, P)
      BY DEF IsRespond
    <3> QED BY <1>3, <3>1, Formed, 4 \in 1..(5 - 1)
  <2> QED BY <1>3, <2>1, <2>2, <2>3, <2>4, <2>5 DEF AsWritten
<1> HIDE DEF plan
<1>5. \A k \in 1..Len(plan) : plan[k].op \in SendOp => plan[k].packet \in P
  BY <1>2, <1>3
<1>6. \E k \in 2..3 : plan[k].op = "receiveOne" /\ plan[k].step = 1
  BY <1>1, <1>3
<1>7. SuiteScript(plan, P)
  BY <1>3, <1>4, <1>5, <1>6 DEF SuiteScript
<1> QED BY <1>7 DEF plan

\* ContentObjectTest_5: two Interests, of which the second is not forwarded, and an answer to both.
LEMMA SixStepsTogether ==
    ASSUME NEW P \in SUBSET Packet, NEW a, NEW b, NEW c, NEW d, NEW e, NEW f,
           IsSend(a, P), IsSend(b, P), IsReceiveOne(c, 1),
           IsReceive(d, 1), IsRespond(e, 3, P), IsReceive(f, 5)
    PROVE  SuiteScript(<<a, b, c, d, e, f>>, P)
<1> DEFINE plan == <<a, b, c, d, e, f>>
<1>1. IsReceive(c, 1) /\ c.op = "receiveOne" /\ c.step = 1
  BY DEF IsReceiveOne, IsReceive
<1>2. /\ a \in Step /\ b \in Step /\ c \in Step /\ d \in Step /\ e \in Step /\ f \in Step
      /\ \A s \in {a, b, c, d, e, f} : s.op \in SendOp => s.packet \in P
  BY <1>1, Kinds
<1>3. /\ plan \in Seq(Step) /\ Len(plan) = 6
      /\ plan[1] = a /\ plan[2] = b /\ plan[3] = c /\ plan[4] = d /\ plan[5] = e /\ plan[6] = f
  BY <1>2
<1>4. AsWritten(plan)
  <2> HIDE DEF plan
  <2>1. StepAsWritten(plan, 1)
    BY <1>3, Formed
  <2>2. StepAsWritten(plan, 2)
    BY <1>3, Formed
  <2>3. StepAsWritten(plan, 3)
    BY <1>1, <1>3, Formed, 1 \in 1..(3 - 1)
  <2>4. StepAsWritten(plan, 4)
    BY <1>1, <1>3, Formed, 1 \in 1..(4 - 1)
  <2>5. StepAsWritten(plan, 5)
    BY <1>1, <1>3, Formed, 3 \in 1..(5 - 1)
  <2>6. StepAsWritten(plan, 6)
    <3>1. IsRespond(e, e.step, P)
      BY DEF IsRespond
    <3> QED BY <1>3, <3>1, Formed, 5 \in 1..(6 - 1)
  <2> QED BY <1>3, <2>1, <2>2, <2>3, <2>4, <2>5, <2>6 DEF AsWritten
<1> HIDE DEF plan
<1>5. \A k \in 1..Len(plan) : plan[k].op \in SendOp => plan[k].packet \in P
  BY <1>2, <1>3
<1>6. \E k \in 2..3 : plan[k].op = "receiveOne" /\ plan[k].step = 1
  BY <1>1, <1>3
<1>7. SuiteScript(plan, P)
  BY <1>3, <1>4, <1>5, <1>6 DEF SuiteScript
<1> QED BY <1>7 DEF plan

\* ContentObjectTest_6: the same Interest twice, each forwarded, and an answer.
LEMMA SixStepsTwice ==
    ASSUME NEW P \in SUBSET Packet, NEW a, NEW b, NEW c, NEW d, NEW e, NEW f,
           IsSend(a, P), IsReceiveOne(b, 1), IsSend(c, P),
           IsReceiveOne(d, 1), IsRespond(e, 4, P), IsReceive(f, 5)
    PROVE  SuiteScript(<<a, b, c, d, e, f>>, P)
<1> DEFINE plan == <<a, b, c, d, e, f>>
<1>1. /\ IsReceive(b, 1) /\ b.op = "receiveOne" /\ b.step = 1
      /\ IsReceive(d, 1) /\ d.step = 1
  BY DEF IsReceiveOne, IsReceive
<1>2. /\ a \in Step /\ b \in Step /\ c \in Step /\ d \in Step /\ e \in Step /\ f \in Step
      /\ \A s \in {a, b, c, d, e, f} : s.op \in SendOp => s.packet \in P
  BY <1>1, Kinds
<1>3. /\ plan \in Seq(Step) /\ Len(plan) = 6
      /\ plan[1] = a /\ plan[2] = b /\ plan[3] = c /\ plan[4] = d /\ plan[5] = e /\ plan[6] = f
  BY <1>2
<1>4. AsWritten(plan)
  <2> HIDE DEF plan
  <2>1. StepAsWritten(plan, 1)
    BY <1>3, Formed
  <2>2. StepAsWritten(plan, 2)
    BY <1>1, <1>3, Formed, 1 \in 1..(2 - 1)
  <2>3. StepAsWritten(plan, 3)
    BY <1>3, Formed
  <2>4. StepAsWritten(plan, 4)
    BY <1>1, <1>3, Formed, 1 \in 1..(4 - 1)
  <2>5. StepAsWritten(plan, 5)
    BY <1>1, <1>3, Formed, 4 \in 1..(5 - 1)
  <2>6. StepAsWritten(plan, 6)
    <3>1. IsRespond(e, e.step, P)
      BY DEF IsRespond
    <3> QED BY <1>3, <3>1, Formed, 5 \in 1..(6 - 1)
  <2> QED BY <1>3, <2>1, <2>2, <2>3, <2>4, <2>5, <2>6 DEF AsWritten
<1> HIDE DEF plan
<1>5. \A k \in 1..Len(plan) : plan[k].op \in SendOp => plan[k].packet \in P
  BY <1>2, <1>3
<1>6. \E k \in 2..3 : plan[k].op = "receiveOne" /\ plan[k].step = 1
  BY <1>1, <1>3
<1>7. SuiteScript(plan, P)
  BY <1>3, <1>4, <1>5, <1>6 DEF SuiteScript
<1> QED BY <1>7 DEF plan

\* ContentObjectErrors_3: an exchange, and the answer once more.
LEMMA SixStepsAgain ==
    ASSUME NEW P \in SUBSET Packet, NEW a, NEW b, NEW c, NEW d, NEW e, NEW f,
           IsSend(a, P), IsReceiveOne(b, 1), IsSend(c, P),
           IsReceive(d, 3), IsSend(e, P), IsReceive(f, 5)
    PROVE  SuiteScript(<<a, b, c, d, e, f>>, P)
<1> DEFINE plan == <<a, b, c, d, e, f>>
<1>1. IsReceive(b, 1) /\ b.op = "receiveOne" /\ b.step = 1
  BY DEF IsReceiveOne, IsReceive
<1>2. /\ a \in Step /\ b \in Step /\ c \in Step /\ d \in Step /\ e \in Step /\ f \in Step
      /\ \A s \in {a, b, c, d, e, f} : s.op \in SendOp => s.packet \in P
  BY <1>1, Kinds
<1>3. /\ plan \in Seq(Step) /\ Len(plan) = 6
      /\ plan[1] = a /\ plan[2] = b /\ plan[3] = c /\ plan[4] = d /\ plan[5] = e /\ plan[6] = f
  BY <1>2
<1>4. AsWritten(plan)
  <2> HIDE DEF plan
  <2>1. StepAsWritten(plan, 1)
    BY <1>3, Formed
  <2>2. StepAsWritten(plan, 2)
    BY <1>1, <1>3, Formed, 1 \in 1..(2 - 1)
  <2>3. StepAsWritten(plan, 3)
    BY <1>3, Formed
  <2>4. StepAsWritten(plan, 4)
    BY <1>1, <1>3, Formed, 3 \in 1..(4 - 1)
  <2>5. StepAsWritten(plan, 5)
    BY <1>3, Formed
  <2>6. StepAsWritten(plan, 6)
    BY <1>1, <1>3, Formed, 5 \in 1..(6 - 1)
  <2> QED BY <1>3, <2>1, <2>2, <2>3, <2>4, <2>5, <2>6 DEF AsWritten
<1> HIDE DEF plan
<1>5. \A k \in 1..Len(plan) : plan[k].op \in SendOp => plan[k].packet \in P
  BY <1>2, <1>3
<1>6. \E k \in 2..3 : plan[k].op = "receiveOne" /\ plan[k].step = 1
  BY <1>1, <1>3
<1>7. SuiteScript(plan, P)
  BY <1>3, <1>4, <1>5, <1>6 DEF SuiteScript
<1> QED BY <1>7 DEF plan

\* Every test has one of these scripts, and it begins with the Interest of the test.
LEMMA TestScriptCases ==
    ASSUME NEW t \in Test, NEW junk
    PROVE  \/ /\ t \in {SuiteTest[1], SuiteTest[2]} /\ TestScript(t, junk) = FIBTest(t, junk)
           \/ /\ t \in {SuiteTest[i] : i \in 3..8} /\ TestScript(t, junk) = ContentObjectTest(t, junk)
           \/ /\ t \in {SuiteTest[i] : i \in 9..11} /\ TestScript(t, junk) = ContentObjectErrors(t, junk)
           \/ TestScript(t, junk) = ContentObjectRestrictions(t, junk)
           \/ TestScript(t, junk) = ContentObjectRestrictionErrors(t, junk)
<1>1. DOMAIN SuiteTest = 1..21
  BY DEF SuiteTest
<1>2. PICK i \in 1..21 : t = SuiteTest[i]
  BY <1>1 DEF Test
<1>3. \/ t \in TestsIn(1, 2) \/ t \in TestsIn(3, 8) \/ t \in TestsIn(9, 11)
      \/ t \in TestsIn(12, 15) \/ t \in TestsIn(16, 21)
  BY <1>2 DEF TestsIn
<1>4. TestsIn(1, 2) = {SuiteTest[1], SuiteTest[2]}
  BY DEF TestsIn
<1> QED BY <1>3, <1>4 DEF TestScript, TestsIn

\* The packets of a test.
PacketsOf(t) == {InterestOf(t), AnswerOf(t)}

LEMMA OwnPackets == \A t \in Test : PacketsOf(t) \in SUBSET Packet
BY SuiteRigAssumption DEF PacketsOf

\* The steps the suite builds with its helpers.
LEMMA HelperKinds ==
    ASSUME NEW t \in Test
    PROVE  /\ \A l \in LinkID : /\ IsSend(SendsInterest(t, l), PacketsOf(t))
                                /\ IsSend(SendsAnswer(t, l), PacketsOf(t))
           /\ \A l \in LinkID : SendsInterest(t, l).packet = InterestOf(t)
           /\ \A k \in Nat : IsRespond(Responds(t, k), k, PacketsOf(t))
<1>1. PacketsOf(t) \in SUBSET Packet
  BY SuiteRigAssumption DEF PacketsOf
<1>2. InterestOf(t) \in PacketsOf(t) /\ AnswerOf(t) \in PacketsOf(t)
  BY DEF PacketsOf
<1> QED BY <1>1, <1>2, SendKind, RespondKind DEF SendsInterest, SendsAnswer, Responds, CreateSendStep

LEMMA PollKinds ==
    ASSUME NEW junk \in SUBSET VaJunk, NEW k \in Nat, NEW listed \in SUBSET LinkID, listed # {}
    PROVE  /\ IsReceiveOne(CreateReceive("receiveOne", k, listed, junk), k)
           /\ \A op \in ReceiveOp : IsReceive(CreateReceive(op, k, listed, junk), k)
BY ReceiveKind DEF IsReceiveOne, ReceiveOp

ScriptOf(t, plan) == SuiteScript(plan, PacketsOf(t)) /\ plan[1].packet = InterestOf(t)

LEMMA ExchangeScript ==
    ASSUME NEW t \in Test, NEW junk \in SUBSET VaJunk, NEW last \in ReceiveOp
    PROVE  ScriptOf(t, Exchange(t, last, junk))
<1>1. LinkA \in LinkID /\ LinkB \in LinkID /\ {LinkA} # {} /\ {LinkB} # {}
  BY SuiteRigAssumption
<1>2. /\ IsSend(SendsInterest(t, LinkA), PacketsOf(t)) /\ IsSend(SendsAnswer(t, LinkB), PacketsOf(t))
      /\ SendsInterest(t, LinkA).packet = InterestOf(t)
  BY <1>1, HelperKinds
<1>3. /\ IsReceiveOne(CreateReceive("receiveOne", 1, {LinkB}, junk), 1)
      /\ IsReceive(CreateReceive(last, 3, {LinkA}, junk), 3)
  BY <1>1, PollKinds
<1> QED BY <1>2, <1>3, FourSteps, OwnPackets DEF ScriptOf, Exchange

LEMMA FIBScript ==
    ASSUME NEW t \in Test, NEW junk \in SUBSET VaJunk
    PROVE  ScriptOf(t, FIBTest(t, junk))
<1>1. LinkA \in LinkID /\ LinkB \in LinkID /\ LinkC \in LinkID
  BY SuiteRigAssumption
<1>2. /\ IsSend(SendsInterest(t, LinkA), PacketsOf(t)) /\ IsSend(SendsAnswer(t, LinkC), PacketsOf(t)) /\ IsRespond(Responds(t, 2), 2, PacketsOf(t))
      /\ SendsInterest(t, LinkA).packet = InterestOf(t)
  BY <1>1, HelperKinds
<1>3. /\ IsReceiveOne(CreateReceive("receiveOne", 1, {LinkB}, junk), 1)
      /\ IsReceiveOne(CreateReceive("receiveOne", 1, {LinkC}, junk), 1)
      /\ IsReceive(CreateReceive("receiveOne", 3, {LinkA}, junk), 3)
  BY <1>1, PollKinds DEF ReceiveOp
<1>4. CASE t = "FIBTest_BasicInterest_1a"
  BY <1>2, <1>3, <1>4, FourSteps, OwnPackets DEF ScriptOf, FIBTest
<1>5. CASE t # "FIBTest_BasicInterest_1a"
  BY <1>2, <1>3, <1>5, FourSteps, OwnPackets DEF ScriptOf, FIBTest
<1> QED BY <1>4, <1>5

LEMMA ContentObjectScript ==
    ASSUME NEW t \in Test, NEW junk \in SUBSET VaJunk
    PROVE  ScriptOf(t, ContentObjectTest(t, junk))
<1>1. LinkA \in LinkID /\ LinkB \in LinkID /\ LinkC \in LinkID
  BY SuiteRigAssumption
<1>2. /\ IsSend(SendsInterest(t, LinkA), PacketsOf(t)) /\ IsSend(SendsInterest(t, LinkB), PacketsOf(t))
      /\ SendsInterest(t, LinkA).packet = InterestOf(t)
      /\ IsRespond(Responds(t, 2), 2, PacketsOf(t)) /\ IsRespond(Responds(t, 3), 3, PacketsOf(t)) /\ IsRespond(Responds(t, 4), 4, PacketsOf(t))
  BY <1>1, HelperKinds
<1>3. /\ IsReceiveOne(CreateReceive("receiveOne", 1, {LinkB}, junk), 1)
      /\ IsReceiveOne(CreateReceive("receiveOne", 1, {LinkC}, junk), 1)
      /\ IsReceiveOne(CreateReceive("receiveOne", 1, {LinkB, LinkC}, junk), 1)
  BY <1>1, PollKinds
<1>4. /\ IsReceive(CreateReceive("receiveNone", 1, {LinkA}, junk), 1)
      /\ IsReceive(CreateReceive("receiveNone", 1, {LinkC}, junk), 1)
      /\ IsReceive(CreateReceive("receiveOne", 3, {LinkA}, junk), 3)
      /\ IsReceive(CreateReceive("receiveOne", 4, {LinkA}, junk), 4)
      /\ IsReceive(CreateReceive("receiveAll", 5, {LinkA, LinkB}, junk), 5)
      /\ IsReceive(CreateReceive("receiveAll", 5, {LinkA}, junk), 5)
  BY <1>1, PollKinds DEF ReceiveOp
<1>5. CASE t = "ContentObjectTest_3"
  BY <1>2, <1>3, <1>4, <1>5, FourSteps, OwnPackets DEF ScriptOf, ContentObjectTest
<1>6. CASE t = "ContentObjectTest_4"
  BY <1>2, <1>3, <1>4, <1>6, FiveSteps, OwnPackets DEF ScriptOf, ContentObjectTest
<1>7. CASE t = "ContentObjectTest_5"
  BY <1>2, <1>3, <1>4, <1>7, SixStepsTogether, OwnPackets DEF ScriptOf, ContentObjectTest
<1>8. CASE t = "ContentObjectTest_6"
  BY <1>2, <1>3, <1>4, <1>8, SixStepsTwice, OwnPackets DEF ScriptOf, ContentObjectTest
<1>9. CASE t \notin {"ContentObjectTest_3", "ContentObjectTest_4",
                     "ContentObjectTest_5", "ContentObjectTest_6"}
  <2>1. ContentObjectTest(t, junk) = Exchange(t, "receiveOne", junk)
    BY <1>9 DEF ContentObjectTest
  <2> QED BY <2>1, ExchangeScript DEF ReceiveOp
<1> QED BY <1>5, <1>6, <1>7, <1>8, <1>9

LEMMA ErrorScript ==
    ASSUME NEW t \in {"ContentObjectErrors_1", "ContentObjectErrors_2", "ContentObjectErrors_3"},
           t \in Test, NEW junk \in SUBSET VaJunk
    PROVE  ScriptOf(t, ContentObjectErrors(t, junk))
<1>1. LinkA \in LinkID /\ LinkB \in LinkID /\ LinkC \in LinkID
  BY SuiteRigAssumption
<1>2. /\ IsSend(SendsInterest(t, LinkA), PacketsOf(t)) /\ SendsInterest(t, LinkA).packet = InterestOf(t)
      /\ IsSend(SendsAnswer(t, LinkA), PacketsOf(t)) /\ IsSend(SendsAnswer(t, LinkB), PacketsOf(t)) /\ IsSend(SendsAnswer(t, LinkC), PacketsOf(t))
  BY <1>1, HelperKinds
<1>3. /\ IsReceiveOne(CreateReceive("receiveOne", 1, {LinkB}, junk), 1)
      /\ IsReceive(CreateReceive("receiveNone", 3, {LinkA}, junk), 3)
      /\ IsReceive(CreateReceive("receiveOne", 3, {LinkA}, junk), 3)
      /\ IsReceive(CreateReceive("receiveNone", 5, {LinkA}, junk), 5)
  BY <1>1, PollKinds DEF ReceiveOp
<1>4. CASE t = "ContentObjectErrors_1"
  BY <1>2, <1>3, <1>4, FourSteps, OwnPackets DEF ScriptOf, ContentObjectErrors
<1>5. CASE t = "ContentObjectErrors_2"
  BY <1>2, <1>3, <1>5, FourSteps, OwnPackets DEF ScriptOf, ContentObjectErrors
<1>6. CASE t = "ContentObjectErrors_3"
  <2> DEFINE a == SendsInterest(t, LinkA)
             b == CreateReceive("receiveOne", 1, {LinkB}, junk)
             c == SendsAnswer(t, LinkB)
             d == CreateReceive("receiveOne", 3, {LinkA}, junk)
             f == CreateReceive("receiveNone", 5, {LinkA}, junk)
  <2>1. ContentObjectErrors(t, junk) = <<a, b, c, d>> \o <<c, f>>
    BY <1>6 DEF ContentObjectErrors, Exchange
  <2>2. IsSend(a, PacketsOf(t)) /\ IsReceiveOne(b, 1) /\ IsSend(c, PacketsOf(t)) /\ IsReceive(d, 3) /\ IsReceive(f, 5)
        /\ a.packet = InterestOf(t)
    BY <1>2, <1>3
  <2> HIDE DEF a, b, c, d, f
  <2>3. <<a, b, c, d>> \o <<c, f>> = <<a, b, c, d, c, f>>
    <3> DEFINE first == <<a, b, c, d>>
               then == <<c, f>>
               both == first \o then
               all == <<a, b, c, d, c, f>>
    <3>1. first \in Seq(Step) /\ then \in Seq(Step) /\ all \in Seq(Step)
      BY <2>2 DEF IsSend, IsReceiveOne, IsReceive
    <3>2. Len(first) = 4 /\ Len(then) = 2 /\ Len(all) = 6
      OBVIOUS
    <3>3. first[1] = a /\ first[2] = b /\ first[3] = c /\ first[4] = d /\ then[1] = c /\ then[2] = f
      OBVIOUS
    <3>4. all[1] = a /\ all[2] = b /\ all[3] = c /\ all[4] = d /\ all[5] = c /\ all[6] = f
      OBVIOUS
    <3> HIDE DEF first, then, all
    <3>5. /\ both \in Seq(Step) /\ Len(both) = 6
          /\ \A i \in 1..6 : both[i] = IF i <= 4 THEN first[i] ELSE then[i - 4]
      <4>1. /\ both \in Seq(Step) /\ Len(both) = Len(first) + Len(then)
            /\ \A i \in 1..(Len(first) + Len(then)) :
                  both[i] = IF i <= Len(first) THEN first[i] ELSE then[i - Len(first)]
        <5> HIDE DEF both
        <5>1. first \o then = both
          BY DEF both
        <5> QED BY <3>1, <5>1, ConcatProperties, Zenon
      <4>2. Len(first) + Len(then) = 6
        BY <3>2
      <4> HIDE DEF both
      <4> QED BY <4>1, <4>2, <3>2
    <3> HIDE DEF both
    <3>6. \A i \in 1..6 : i = 1 \/ i = 2 \/ i = 3 \/ i = 4 \/ i = 5 \/ i = 6
      OBVIOUS
    <3>7. \A i \in 1..6 : both[i] = all[i]
      BY <3>3, <3>4, <3>5, <3>6
    <3>8. both = all
      BY <3>1, <3>2, <3>5, <3>7, SeqEqual
    <3> QED BY <3>8 DEF both, first, then, all
  <2>4. SuiteScript(<<a, b, c, d, c, f>>, PacketsOf(t))
    BY <2>2, SixStepsAgain, OwnPackets
  <2>5. ContentObjectErrors(t, junk) = <<a, b, c, d, c, f>>
    BY <2>1, <2>3
  <2>6. <<a, b, c, d, c, f>>[1].packet = InterestOf(t)
    BY <2>2
  <2> QED BY <2>4, <2>5, <2>6 DEF ScriptOf
<1> QED BY <1>4, <1>5, <1>6

\* Every script of the suite is well formed but for what its link vectors picked up, and the first
\* thing it asks of the forwarder is the Interest of its test.
LEMMA TestScripts ==
    ASSUME NEW t \in Test, NEW junk \in SUBSET VaJunk
    PROVE  ScriptOf(t, TestScript(t, junk))
<1>1. {SuiteTest[i] : i \in 9..11} =
          {"ContentObjectErrors_1", "ContentObjectErrors_2", "ContentObjectErrors_3"}
  BY DEF SuiteTest
<1>2. "receiveOne" \in ReceiveOp /\ "receiveNone" \in ReceiveOp
  BY DEF ReceiveOp
<1> QED BY <1>1, <1>2, TestScriptCases, FIBScript, ContentObjectScript, ErrorScript, ExchangeScript
        DEF ContentObjectRestrictions, ContentObjectRestrictionErrors

------------------------------------------------------------------------------
(* Running them. *)

\* A script that has just been built has read nothing, sent nothing and not failed.
LEMMA FreshScript ==
    ASSUME ChannelTypeOK', NEW plan, NEW P \in SUBSET Packet, SuiteScript(plan, P), script' = plan,
           received' = [k \in DOMAIN plan |-> {}], taken' = [k \in DOMAIN plan |-> {}],
           sent' = <<>>, pc' = "step", cur' = 1, result' = Create,
           bit' = -1, succeeded' = FALSE, failedAfterReceive' = FALSE
    PROVE  Inv'
<1>1. plan \in Seq(Step) /\ Len(plan) \in 4..6 /\ DOMAIN plan = 1..Len(plan)
  BY DEF SuiteScript
<1>2. /\ received' \in Seq(SUBSET LinkID) /\ Len(received') = Len(plan)
      /\ taken' \in Seq(SUBSET (LinkID \X Arrival)) /\ Len(taken') = Len(plan)
      /\ \A k \in 1..Len(plan) : received'[k] = {} /\ taken'[k] = {}
  BY <1>1
<1>3. ControlTyped'
  <2>1. cur' \in 1..(Len(script') + 1) /\ bit' \in LinkID \cup {-1}
    BY <1>1
  <2>2. result' \in ResultType /\ succeeded' \in BOOLEAN /\ failedAfterReceive' \in BOOLEAN
    BY ResultTyped
  <2> QED BY <2>1, <2>2 DEF ControlTyped
<1>4. DataTyped'
  <2>1. SendsHavePacket'
    BY <1>1 DEF SuiteScript, SendsHavePacket
  <2> QED BY <1>1, <1>2, <2>1 DEF DataTyped
<1>5. TypeInv'
  BY <1>3, <1>4, TypePartsNext
<1>6. result'.passed
  BY DEF Create
<1>7. RunningLoop'
  BY <1>1, <1>2, <1>5, <1>6, FreshLoopNext
<1>8. Untouched' /\ Past' /\ Future' /\ Ended' /\ NeverCrashes'
  BY <1>1, <1>2, <1>6 DEF Untouched, Past, Future, Ended, NeverCrashes
<1>9. Recorded'
  BY <1>1, <1>2 DEF Recorded, ReadLinks
<1> QED BY <1>5, <1>7, <1>8, <1>9 DEF Inv, Evidence

\* What happens on the links is no part of the evidence.
LEMMA OnlyTheLinks ==
    ASSUME Inv, ChannelTypeOK', UNCHANGED scriptVars
    PROVE  Inv'
<1>1. UNCHANGED <<script, received, pc, cur, bit, succeeded, failedAfterReceive, result, sent, taken>>
  BY DEF scriptVars, loopVars, historyVars
<1>2. ControlTyped' /\ DataTyped'
  BY <1>1, TypeParts DEF Inv, ControlTyped, DataTyped, SendsHavePacket
<1>3. TypeInv'
  BY <1>2, TypePartsNext
<1>4. Untouched' /\ Past' /\ Future' /\ Recorded'
  BY <1>1 DEF Inv, Evidence, Untouched, Past, Future, Recorded
<1>5. RunningLoop' /\ Ended' /\ NeverCrashes'
  BY <1>1 DEF Inv, Evidence, RunningLoop, ReadLinksMatch, Ended, NeverCrashes
<1> QED BY <1>3, <1>4, <1>5 DEF Inv, Evidence

\* No socket holds more than it queues, and what is read off one leaves a sequence of packets.
LinksBounded == ChannelTypeOK /\ \A l \in LinkID : Len(inbox[l]) <= SocketBuffer

LEMMA DeliverLinks ==
    ASSUME LinksBounded, NEW l \in LinkID, NEW p \in Arrival, Deliver(l, p)
    PROVE  LinksBounded' /\ \A m \in LinkID : Len(inbox'[m]) >= Len(inbox[m])
<1>1. /\ inbox \in [LinkID -> Seq(Arrival)] /\ inbox[l] \in Seq(Arrival)
      /\ Len(inbox[l]) < SocketBuffer /\ Len(inbox[l]) \in Nat /\ SocketBuffer \in Nat
  BY ChannelAssumption DEF LinksBounded, ChannelTypeOK, Deliver
<1>2. Append(inbox[l], p) \in Seq(Arrival) /\ Len(Append(inbox[l], p)) = Len(inbox[l]) + 1
  BY <1>1
<1>3. inbox' = [inbox EXCEPT ![l] = Append(inbox[l], p)]
  BY DEF Deliver
<1>4. \A m \in LinkID : inbox[m] \in Seq(Arrival) /\ Len(inbox[m]) \in Nat
  BY <1>1
<1>5. \A m \in LinkID : inbox'[m] = IF m = l THEN Append(inbox[l], p) ELSE inbox[m]
  BY <1>1, <1>3
<1>6. ChannelTypeOK'
  BY <1>1, <1>2, <1>3 DEF ChannelTypeOK
<1>7. \A m \in LinkID : Len(inbox'[m]) <= SocketBuffer /\ Len(inbox'[m]) >= Len(inbox[m])
  <2>1. ASSUME NEW m \in LinkID PROVE Len(inbox'[m]) <= SocketBuffer /\ Len(inbox'[m]) >= Len(inbox[m])
    <3>1. CASE m = l
      <4>1. Len(inbox'[l]) = Len(inbox[l]) + 1
        BY <1>2, <1>5
      <4>2. Len(inbox'[l]) <= SocketBuffer /\ Len(inbox'[l]) >= Len(inbox[l])
        BY <1>1, <4>1
      <4> QED BY <3>1, <4>2
    <3>2. CASE m # l
      <4>1. inbox'[m] = inbox[m] /\ Len(inbox[m]) \in Nat
        BY <1>4, <1>5, <3>2
      <4> QED BY <4>1 DEF LinksBounded
    <3> QED BY <3>1, <3>2
  <2> QED BY <2>1
<1> QED BY <1>6, <1>7 DEF LinksBounded

LEMMA ReceivesLinks ==
    ASSUME LinksBounded, NEW l \in LinkID, NEW p, Receives(l, p)
    PROVE  /\ LinksBounded' /\ TakenAtOnce \in Nat
           /\ \A m \in LinkID : m # l => inbox'[m] = inbox[m]
           /\ Len(inbox'[l]) = IF Len(inbox[l]) <= TakenAtOnce THEN 0 ELSE Len(inbox[l]) - TakenAtOnce
<1> DEFINE rest == SubSeq(inbox[l], TakenAtOnce + 1, Len(inbox[l]))
<1>1. TakenAtOnce \in Nat
  BY ChannelAssumption DEF TakenAtOnce
<1>2. /\ inbox \in [LinkID -> Seq(Arrival)] /\ inbox[l] \in Seq(Arrival) /\ Len(inbox[l]) \in Nat
      /\ SocketBuffer \in Nat /\ Len(inbox[l]) <= SocketBuffer
  BY ChannelAssumption DEF LinksBounded, ChannelTypeOK
<1>3. inbox' = [inbox EXCEPT ![l] = rest]
  BY DEF Receives
<1>4. /\ rest \in Seq(Arrival)
      /\ Len(rest) = IF Len(inbox[l]) <= TakenAtOnce THEN 0 ELSE Len(inbox[l]) - TakenAtOnce
  BY <1>1, <1>2
<1> HIDE DEF rest
<1>5. inbox'[l] = rest /\ \A m \in LinkID : m # l => inbox'[m] = inbox[m]
  BY <1>2, <1>3
<1>6. ChannelTypeOK'
  BY <1>2, <1>3, <1>4 DEF ChannelTypeOK
<1>7. \A m \in LinkID : Len(inbox'[m]) <= SocketBuffer
  <2>1. Len(rest) <= SocketBuffer
    BY <1>1, <1>2, <1>4
  <2>2. ASSUME NEW m \in LinkID PROVE Len(inbox'[m]) <= SocketBuffer
    <3>1. CASE m = l
      BY <1>5, <2>1, <3>1
    <3>2. CASE m # l
      <4>1. inbox'[m] = inbox[m]
        BY <1>5, <3>2
      <4> QED BY <4>1 DEF LinksBounded
    <3> QED BY <3>1, <3>2
  <2> QED BY <2>2
<1> QED BY <1>1, <1>4, <1>5, <1>6, <1>7 DEF LinksBounded

\* A script's own step leaves the script as it is and the links bounded.
LEMMA ScriptStepKeeps ==
    ASSUME LinksBounded, PromptStep \/ TimeoutStep
    PROVE  UNCHANGED script /\ LinksBounded'
<1>1. CASE TimeoutStep
  <2>1. UNCHANGED <<script, inbox>>
    BY <1>1 DEF TimeoutStep, ReceiveAllTimeout, ReceiveOneTimeout, ReceiveNoneTimeout, ReadsNothing,
                ReceivesNothing
  <2> QED BY <2>1 DEF LinksBounded, ChannelTypeOK
<1>2. CASE MessageStep
  <2>1. PICK l \in LinkID, p \in Arrival : Reads(l, p)
    BY <1>2 DEF MessageStep, ReceiveAllMessage, ReceiveOneMessage, ReceiveNoneMessage,
                CrashOnNullPacket
  <2>2. Receives(l, p) /\ UNCHANGED script
    BY <2>1 DEF Reads
  <2> QED BY <2>2, ReceivesLinks
<1>3. CASE ExecuteSendStep \/ LoopReturns \/ CrashOnNullLink \/ ScriptReturns
  <2>1. UNCHANGED <<script, inbox>>
    BY <1>3 DEF ExecuteSendStep, LoopReturns, ReceiveAllReturns, ReceiveOneReturns,
                ReceiveNoneReturns, CrashOnNullLink, ScriptReturns
  <2> QED BY <2>1 DEF LinksBounded, ChannelTypeOK
<1> QED BY <1>1, <1>2, <1>3 DEF PromptStep

\* A vector that picked up bit 0 is polled there first: a receive step that has one crashes before it
\* polls any link, and no step gets past it.
PickedUp ==
    /\ CrashesOnPickedUpBits
    /\ Executing(ReceiveOp) /\ ~(script[cur].links \subseteq LinkID) => bit = -1

\* What is no link is bit 0, and before the first poll it is the next one.
LEMMA BitZeroFirst ==
    ASSUME NEW v \in SUBSET LinkBit, ~(v \subseteq LinkID), LinkID = {LinkA, LinkB, LinkC}
    PROVE  0 \in v /\ \A l \in LinkID : ~IsNextBitSet(v, 0, l)
<1>1. LinkBit = {0, 1, 2, 3} /\ LinkID = {1, 2, 3}
  BY DEF LinkBit, LinkA, LinkB, LinkC
<1>2. 0 \in v
  BY <1>1
<1>3. ASSUME NEW l \in LinkID PROVE ~IsNextBitSet(v, 0, l)
  <2>1. 0 >= 0 /\ ~(l <= 0)
    BY <1>1
  <2> QED BY <1>2, <2>1 DEF IsNextBitSet
<1> QED BY <1>2, <1>3

LEMMA PickedUpStep ==
    ASSUME Inv, AsWritten(script), PickedUp, PromptStep \/ TimeoutStep
    PROVE  PickedUp'
<1>1. /\ pc = "step" /\ UNCHANGED script /\ script \in Seq(Step) /\ cur \in 1..(Len(script) + 1)
      /\ DOMAIN script = 1..Len(script)
  <2>1. DataTyped /\ ControlTyped
    BY TypeParts DEF Inv
  <2>2. pc = "step" /\ UNCHANGED script
    <3>1. CASE TimeoutStep
      BY <3>1 DEF TimeoutStep, ReceiveAllTimeout, ReceiveOneTimeout, ReceiveNoneTimeout,
                  ReadsNothing, Executing
    <3>2. CASE MessageStep
      BY <3>2 DEF MessageStep, ReceiveAllMessage, ReceiveOneMessage, ReceiveNoneMessage,
                  CrashOnNullPacket, Reads, Executing
    <3>3. CASE LoopReturns \/ ExecuteSendStep \/ CrashOnNullLink \/ ScriptReturns
      BY <3>3 DEF LoopReturns, ReceiveAllReturns, ReceiveOneReturns, ReceiveNoneReturns,
                  ExecuteSendStep, CrashOnNullLink, ScriptReturns, Executing
    <3> QED BY <3>1, <3>2, <3>3 DEF PromptStep
  <2> QED BY <2>1, <2>2 DEF DataTyped, ControlTyped
<1>2. CASE Executing(ReceiveOp) /\ ~(script[cur].links \subseteq LinkID)
  <2>1. cur \in 1..Len(script) /\ script[cur].op \in ReceiveOp /\ bit = -1
    BY <1>1, <1>2 DEF Executing, PickedUp
  <2>2. LinkVector(cur) = script[cur].links /\ script[cur].links \in SUBSET LinkBit
    <3>1. script[cur].op # "respond" /\ script[cur] \in Step
      BY <1>1, <2>1 DEF ReceiveOp
    <3> QED BY <3>1 DEF LinkVector, Step
  <2>3. 0 \in LinkVector(cur) /\ \A l \in LinkID : ~NextLink(l)
    BY <1>2, <2>1, <2>2, BitZeroFirst, SuiteRigAssumption DEF NextLink
  <2>4. ~LoopDone
    BY <2>1, <2>3 DEF LoopDone
  <2>5. ~TimeoutStep /\ ~MessageStep /\ ~LoopReturns
    BY <2>3, <2>4 DEF TimeoutStep, MessageStep, LoopReturns, ReceiveAllMessage, ReceiveOneMessage,
       ReceiveNoneMessage, CrashOnNullPacket, ReceiveAllReturns, ReceiveOneReturns,
       ReceiveNoneReturns, Reads, ReceiveAllTimeout, ReceiveOneTimeout, ReceiveNoneTimeout,
       ReadsNothing
  <2>6. ~ExecuteSendStep /\ ~ScriptReturns
    <3>1. ~Executing(SendOp)
      BY <2>1 DEF Executing, SendOp, ReceiveOp
    <3>2. Len(script) \in Nat /\ cur # Len(script) + 1
      BY <1>1, <2>1
    <3> QED BY <3>1, <3>2 DEF ExecuteSendStep, ScriptReturns
  <2>7. pc' = "crashed" /\ UNCHANGED <<script, cur>>
    BY <2>5, <2>6 DEF PromptStep, CrashOnNullLink
  <2> QED BY <1>2, <2>7 DEF PickedUp, CrashesOnPickedUpBits, Executing
<1>3. CASE ~(Executing(ReceiveOp) /\ ~(script[cur].links \subseteq LinkID))
  <2>1. ~CrashOnNullLink /\ \A l \in LinkID, p \in Arrival : ~CrashOnNullPacket(l, p)
    BY <1>3, CrashCauses
  <2>2. \/ cur' = cur /\ pc' \in {"step", "returned"}
        \/ cur' = cur + 1 /\ bit' = -1 /\ pc' = "step" /\ cur \in DOMAIN script
    <3>1. CASE ScriptReturns
      BY <3>1 DEF ScriptReturns
    <3>2. CASE ExecuteSendStep \/ LoopReturns
      BY <3>2 DEF ExecuteSendStep, LoopReturns, ReceiveAllReturns, ReceiveOneReturns,
                  ReceiveNoneReturns, StepReturns, Executing
    <3>3. CASE TimeoutStep
      BY <3>3, <1>1 DEF TimeoutStep, ReceiveAllTimeout, ReceiveOneTimeout, ReceiveNoneTimeout,
                        StepReturns, Executing
    <3>4. CASE MessageStep
      BY <3>4, <2>1, <1>1 DEF MessageStep, ReceiveAllMessage, ReceiveOneMessage, ReceiveNoneMessage,
                              StepReturns, Executing
    <3> QED BY <2>1, <3>1, <3>2, <3>3, <3>4 DEF PromptStep
  <2>3. CASE cur' = cur /\ pc' \in {"step", "returned"}
    BY <1>1, <1>3, <2>3 DEF PickedUp, CrashesOnPickedUpBits, Executing
  <2>4. CASE cur' = cur + 1 /\ bit' = -1 /\ pc' = "step" /\ cur \in DOMAIN script
    <3>1. script[cur].op \in ReceiveOp => script[cur].links \subseteq LinkID
      BY <1>1, <1>3, <2>4 DEF Executing
    <3>2. \A k \in 1..(cur' - 1) : k \in 1..(cur - 1) \/ k = cur
      BY <1>1, <2>4
    <3> QED BY <1>1, <2>4, <3>1, <3>2 DEF PickedUp, CrashesOnPickedUpBits, Executing
  <2> QED BY <2>2, <2>3, <2>4
<1> QED BY <1>2, <1>3

\* Where RunAll stands: while a test runs, the script executed is that test's.
Running ==
    /\ tests \in Lists /\ test \in 0..Len(tests)
    /\ phase \in {"idle", "running", "flushing", "done"}
    /\ phase # "idle" => test \in 1..Len(tests)
    /\ phase = "running" => ScriptOf(tests[test], script)

\* What was left of a test: nothing, once the flush is through.
Flushed ==
    /\ flushing \in LinkID
    /\ old \in [LinkID -> 0..SocketBuffer]
    /\ ~ReceiveErrors =>
          /\ \A l \in LinkID : old[l] <= Len(inbox[l])
          /\ \A l \in LinkID : phase # "flushing" \/ l < flushing => old[l] = 0

\* One result is listed for every test but the running one.
Listed == /\ resultList \in Seq({Report(r) : r \in ResultType})
          /\ Len(resultList) = test - (IF phase = "running" THEN 1 ELSE 0)

SuiteInv == Inv /\ LinksBounded /\ PickedUp /\ Running /\ Flushed /\ Listed

LEMMA ListsTyped == \A list \in Lists : list \in Seq(Test) /\ Len(list) \in Nat
BY SuiteAssumption

LEMMA SuiteInitInv == SuiteInit => SuiteInv
<1> SUFFICES ASSUME SuiteInit PROVE SuiteInv
  OBVIOUS
<1>1. Inv
  BY InitEvidence DEF SuiteInit
<1>2. script = <<>> /\ Len(script) = 0 /\ \A l \in LinkID : inbox[l] = <<>> /\ Len(inbox[l]) = 0
  BY DEF SuiteInit, Init, ChannelInit
<1>3. SocketBuffer \in Nat
  BY ChannelAssumption
<1>4. LinksBounded
  BY <1>1, <1>2, <1>3 DEF LinksBounded, Inv, TypeInv, TypeOK
<1>5. Running
  BY <1>2, ListsTyped DEF SuiteInit, Running, WellFormed
<1>6. Flushed
  BY <1>2, <1>3, SuiteRigAssumption DEF SuiteInit, Flushed
<1>7. Listed
  BY DEF SuiteInit, Listed
<1>8. PickedUp
  BY DEF SuiteInit, Init, PickedUp, CrashesOnPickedUpBits, Executing
<1> QED BY <1>1, <1>4, <1>5, <1>6, <1>7, <1>8 DEF SuiteInv

LEMMA RunTestInv == SuiteInv /\ RunTest => SuiteInv'
<1> SUFFICES ASSUME SuiteInv, RunTest PROVE SuiteInv'
  OBVIOUS
<1>1. /\ tests \in Seq(Test) /\ Len(tests) \in Nat /\ test \in Nat /\ test' = test + 1
      /\ phase = "idle" /\ phase' = "running" /\ UNCHANGED <<tests, flushing, resultList, old, inbox>>
      /\ test + 1 \in 1..Len(tests)
  BY ListsTyped DEF SuiteInv, Running, RunTest
<1>2. PICK junk \in SUBSET VaJunk : script' = TestScript(tests[test + 1], junk)
  BY DEF RunTest
<1>3. ScriptOf(tests[test + 1], script')
  BY <1>1, <1>2, TestScripts
<1>4. Inv'
  <2>1. ChannelTypeOK'
    BY <1>1 DEF SuiteInv, LinksBounded, ChannelTypeOK
  <2>2. PacketsOf(tests[test + 1]) \in SUBSET Packet
    BY <1>1, OwnPackets
  <2> QED BY <1>3, <2>1, <2>2, FreshScript DEF RunTest, ScriptOf
<1>5. LinksBounded'
  BY <1>1 DEF SuiteInv, LinksBounded, ChannelTypeOK
<1>6. Running'
  BY <1>1, <1>3 DEF SuiteInv, Running, ScriptOf, SuiteScript
<1>7. Flushed'
  BY <1>1 DEF SuiteInv, Flushed
<1>8. Listed'
  BY <1>1 DEF SuiteInv, Listed
<1>9. PickedUp'
  <2>1. pc' = "step" /\ cur' = 1 /\ bit' = -1
    BY DEF RunTest
  <2> QED BY <2>1 DEF PickedUp, CrashesOnPickedUpBits
<1> QED BY <1>4, <1>5, <1>6, <1>7, <1>8, <1>9 DEF SuiteInv

\* What leaves a script as it is leaves its vectors as they are.
LEMMA VectorsStay == ASSUME PickedUp, UNCHANGED scriptVars PROVE PickedUp'
<1>1. UNCHANGED <<script, pc, cur, bit>>
  BY DEF scriptVars, loopVars
<1> QED BY <1>1 DEF PickedUp, CrashesOnPickedUpBits, Executing

LEMMA ReportInv == SuiteInv /\ ReportResult => SuiteInv'
<1> SUFFICES ASSUME SuiteInv, ReportResult PROVE SuiteInv'
  OBVIOUS
<1>1. /\ phase = "running" /\ phase' = "flushing" /\ flushing' = LinkA
      /\ UNCHANGED <<tests, test, script, inbox>> /\ UNCHANGED scriptVars
      /\ resultList' = Append(resultList, Report(result))
      /\ old' = [l \in LinkID |-> Len(inbox[l])]
  BY DEF ReportResult, vars, scriptVars
<1>2. LinksBounded'
  BY <1>1 DEF SuiteInv, LinksBounded, ChannelTypeOK
<1>3. Inv'
  BY <1>1, <1>2, OnlyTheLinks DEF SuiteInv, LinksBounded
<1>4. Running'
  BY <1>1 DEF SuiteInv, Running
<1>5. Flushed'
  <2>1. \A l \in LinkID : Len(inbox[l]) \in 0..SocketBuffer
    BY ChannelAssumption DEF SuiteInv, LinksBounded, ChannelTypeOK
  <2>2. LinkA \in LinkID /\ \A l \in LinkID : ~(l < LinkA)
    BY SuiteRigAssumption DEF LinkA, LinkB, LinkC
  <2>3. \A l \in LinkID : Len(inbox[l]) <= Len(inbox[l])
    BY <2>1, ChannelAssumption
  <2> QED BY <1>1, <2>1, <2>2, <2>3 DEF Flushed
<1>6. Listed'
  <2>1. result \in ResultType
    BY TypeParts DEF SuiteInv, Inv, ControlTyped
  <2>2. test \in Nat
    BY ListsTyped DEF SuiteInv, Running
  <2> QED BY <1>1, <2>1, <2>2 DEF SuiteInv, Listed
<1>7. PickedUp'
  BY <1>1, VectorsStay DEF SuiteInv
<1> QED BY <1>2, <1>3, <1>4, <1>5, <1>6, <1>7 DEF SuiteInv

\* The steps of a script keep it: it is ScriptProofs that says what they do.
LEMMA ScriptInv ==
    SuiteInv /\ phase = "running" /\ (PromptStep \/ TimeoutStep) /\ UNCHANGED suiteVars => SuiteInv'
<1> SUFFICES ASSUME SuiteInv, phase = "running", PromptStep \/ TimeoutStep, UNCHANGED suiteVars
             PROVE  SuiteInv'
  OBVIOUS
<1>1. UNCHANGED <<tests, test, phase, flushing, resultList, old>>
  BY DEF suiteVars
<1>2. UNCHANGED script /\ LinksBounded'
  BY ScriptStepKeeps DEF SuiteInv
<1>3. Inv'
  BY NextEvidence DEF SuiteInv, Next, Rig
<1>4. Running' /\ Listed'
  BY <1>1, <1>2 DEF SuiteInv, Running, Listed
<1>5. Flushed'
  <2>1. ASSUME ~ReceiveErrors, NEW l \in LinkID PROVE old'[l] <= Len(inbox'[l]) /\ old'[l] = 0
    <3>1. old[l] = 0
      BY <2>1 DEF SuiteInv, Flushed
    <3>2. Len(inbox'[l]) \in Nat
      BY <1>2 DEF LinksBounded, ChannelTypeOK
    <3> QED BY <1>1, <3>1, <3>2
  <2> QED BY <1>1, <2>1 DEF SuiteInv, Flushed
<1>6. PickedUp'
  <2>1. AsWritten(script)
    BY DEF SuiteInv, Running, ScriptOf, SuiteScript
  <2> QED BY <2>1, PickedUpStep DEF SuiteInv
<1> QED BY <1>2, <1>3, <1>4, <1>5, <1>6 DEF SuiteInv

\* So does what the forwarder sends.
LEMMA ForwarderInv == SuiteInv /\ SuiteForwarder => SuiteInv'
<1> SUFFICES ASSUME SuiteInv, SuiteForwarder PROVE SuiteInv'
  OBVIOUS
<1>1. UNCHANGED <<tests, test, phase, flushing, resultList, old, script>> /\ UNCHANGED scriptVars
  BY DEF SuiteForwarder, suiteVars, scriptVars
<1>2. PICK l \in LinkID, p \in Arrival : Deliver(l, p)
  <2>1. tests[test] \in Test
    BY ListsTyped DEF SuiteInv, Running, SuiteForwarder
  <2> QED BY <2>1, SuiteAssumption DEF SuiteForwarder
<1>3. LinksBounded' /\ \A m \in LinkID : Len(inbox'[m]) >= Len(inbox[m])
  BY <1>2, DeliverLinks DEF SuiteInv
<1>4. Inv'
  BY <1>1, <1>3, OnlyTheLinks DEF SuiteInv, LinksBounded
<1>5. Running' /\ Listed'
  BY <1>1 DEF SuiteInv, Running, Listed
<1>6. Flushed'
  <2>1. ASSUME ~ReceiveErrors, NEW m \in LinkID PROVE old[m] <= Len(inbox'[m])
    <3>1. old[m] <= Len(inbox[m]) /\ old[m] \in Int
      BY <2>1, ChannelAssumption DEF SuiteInv, Flushed
    <3>2. Len(inbox'[m]) \in Nat /\ Len(inbox[m]) \in Nat /\ Len(inbox'[m]) >= Len(inbox[m])
      BY <1>3 DEF SuiteInv, LinksBounded, ChannelTypeOK
    <3> QED BY <3>1, <3>2
  <2> QED BY <1>1, <2>1 DEF SuiteInv, Flushed
<1>7. PickedUp'
  BY <1>1, VectorsStay DEF SuiteInv
<1> QED BY <1>3, <1>4, <1>5, <1>6, <1>7 DEF SuiteInv

\* A read of the flush takes as many of the old packets as it takes packets.
LEMMA FlushReadsInv == ASSUME SuiteInv, NEW p \in Arrival, FlushReads(p) PROVE SuiteInv'
<1>1. /\ phase = "flushing" /\ UNCHANGED <<tests, test, phase, flushing, resultList, script>>
      /\ UNCHANGED scriptVars /\ Receives(flushing, p) /\ flushing \in LinkID
      /\ old \in [LinkID -> 0..SocketBuffer] /\ SocketBuffer \in Nat
  BY ChannelAssumption DEF FlushReads, scriptVars, SuiteInv, Flushed
<1>2. old' = [old EXCEPT ![flushing] = IF old[flushing] <= TakenAtOnce THEN 0
                                       ELSE old[flushing] - TakenAtOnce]
  BY DEF FlushReads
<1>3. /\ LinksBounded' /\ TakenAtOnce \in Nat
      /\ \A m \in LinkID : m # flushing => inbox'[m] = inbox[m]
      /\ Len(inbox'[flushing]) = IF Len(inbox[flushing]) <= TakenAtOnce THEN 0
                                 ELSE Len(inbox[flushing]) - TakenAtOnce
  BY <1>1, ReceivesLinks DEF SuiteInv
<1>4. Inv'
  BY <1>1, <1>3, OnlyTheLinks DEF SuiteInv, LinksBounded
<1>5. Running' /\ Listed'
  BY <1>1 DEF SuiteInv, Running, Listed
<1>6. Flushed'
  <2>1. old' \in [LinkID -> 0..SocketBuffer]
    BY <1>1, <1>2, <1>3
  <2>2. ASSUME ~ReceiveErrors, NEW m \in LinkID
        PROVE  old'[m] <= Len(inbox'[m]) /\ (m < flushing => old'[m] = 0)
    <3>1. old[m] <= Len(inbox[m]) /\ (m < flushing => old[m] = 0) /\ old[m] \in Nat
      BY <1>1, <2>2 DEF SuiteInv, Flushed
    <3>2. CASE m = flushing
      <4>1. Len(inbox[flushing]) \in Nat /\ flushing \in Int
        BY <1>1, ChannelAssumption DEF SuiteInv, LinksBounded, ChannelTypeOK, LinkA, LinkB, LinkC
      <4>2. old'[m] = IF old[m] <= TakenAtOnce THEN 0 ELSE old[m] - TakenAtOnce
        BY <1>1, <1>2, <3>2
      <4> QED BY <1>3, <3>1, <3>2, <4>1, <4>2
    <3>3. CASE m # flushing
      <4>1. old'[m] = old[m] /\ inbox'[m] = inbox[m]
        BY <1>1, <1>2, <1>3, <3>3
      <4> QED BY <3>1, <4>1
    <3> QED BY <3>2, <3>3
  <2> QED BY <1>1, <2>1, <2>2 DEF Flushed
<1>7. PickedUp'
  BY <1>1, VectorsStay DEF SuiteInv
<1> QED BY <1>3, <1>4, <1>5, <1>6, <1>7 DEF SuiteInv

\* A flush leaves a link only when it holds nothing any more, unless receive calls fail.
LEMMA FlushTimeoutInv == SuiteInv /\ FlushTimeout => SuiteInv'
<1> SUFFICES ASSUME SuiteInv, FlushTimeout PROVE SuiteInv'
  OBVIOUS
<1>1. /\ phase = "flushing" /\ UNCHANGED <<tests, test, resultList, old, script, inbox>>
      /\ UNCHANGED scriptVars /\ FlushMovesOn /\ flushing \in LinkID
      /\ inbox[flushing] = <<>> \/ ReceiveErrors
      /\ old \in [LinkID -> 0..SocketBuffer]
  BY DEF FlushTimeout, ReceivesNothing, scriptVars, SuiteInv, Flushed
<1>2. LinksBounded'
  BY <1>1 DEF SuiteInv, LinksBounded, ChannelTypeOK
<1>3. Inv'
  BY <1>1, <1>2, OnlyTheLinks DEF SuiteInv, LinksBounded
<1>4. phase' \in {"idle", "done", "flushing"}
  BY <1>1 DEF FlushMovesOn
<1>5. Running' /\ Listed'
  <2>1. Running'
    BY <1>1, <1>4 DEF SuiteInv, Running
  <2> QED BY <1>1, <1>4, <2>1 DEF SuiteInv, Listed
<1>6. Flushed'
  <2>1. flushing' \in LinkID /\ (phase' = "flushing" => flushing' = flushing + 1 /\ flushing # LinkC)
        /\ (phase' # "flushing" => flushing = LinkC)
    BY <1>1, SuiteRigAssumption DEF FlushMovesOn, LinkA, LinkB, LinkC
  <2>2. ASSUME ~ReceiveErrors, NEW m \in LinkID
        PROVE  old[m] <= Len(inbox[m]) /\ (phase' # "flushing" \/ m < flushing' => old[m] = 0)
    <3>1. /\ old[m] <= Len(inbox[m]) /\ (m < flushing => old[m] = 0) /\ old[m] \in Nat
          /\ old[flushing] <= Len(inbox[flushing]) /\ old[flushing] \in Nat
      BY <1>1, <2>2, ChannelAssumption DEF SuiteInv, Flushed
    <3>2. Len(inbox[flushing]) = 0
      BY <1>1, <2>2
    <3>3. old[flushing] = 0
      BY <3>1, <3>2
    <3>4. ASSUME phase' # "flushing" \/ m < flushing' PROVE m < flushing \/ m = flushing
      BY <1>1, <2>1, <3>4, SuiteRigAssumption DEF LinkA, LinkB, LinkC
    <3> QED BY <3>1, <3>3, <3>4
  <2> QED BY <1>1, <2>1, <2>2 DEF Flushed
<1>7. PickedUp'
  BY <1>1, VectorsStay DEF SuiteInv
<1> QED BY <1>2, <1>3, <1>5, <1>6, <1>7 DEF SuiteInv

LEMMA UnchangedInv == SuiteInv /\ UNCHANGED allVars => SuiteInv'
<1> SUFFICES ASSUME SuiteInv, UNCHANGED allVars PROVE SuiteInv'
  OBVIOUS
<1>1. UNCHANGED <<tests, test, phase, flushing, resultList, old, script, inbox>>
      /\ UNCHANGED scriptVars
  BY DEF allVars, suiteVars, vars, scriptVars
<1>2. LinksBounded'
  BY <1>1 DEF SuiteInv, LinksBounded, ChannelTypeOK
<1>3. Inv'
  BY <1>1, <1>2, OnlyTheLinks DEF SuiteInv, LinksBounded
<1>4. PickedUp'
  BY <1>1, VectorsStay DEF SuiteInv
<1> QED BY <1>1, <1>2, <1>3, <1>4 DEF SuiteInv, Running, Flushed, Listed

LEMMA SuiteInvariant == SuiteSpec => []SuiteInv
<1>1. SuiteInv /\ [SuiteNext]_allVars => SuiteInv'
  BY RunTestInv, ReportInv, ScriptInv, ForwarderInv, FlushReadsInv, FlushTimeoutInv, UnchangedInv
     DEF SuiteNext, SuiteRig, Prompt, Waits
<1> QED BY <1>1, SuiteInitInv, PTL DEF SuiteSpec

------------------------------------------------------------------------------
\* Whatever the list of tests, every variable of a run keeps its type, and one result is listed for
\* each test that has been reported.
THEOREM SuiteTypes == SuiteSpec => []SuiteTypeOK
<1>1. SuiteInv => SuiteTypeOK
  BY DEF SuiteInv, Inv, TypeInv, Running, Flushed, Listed, SuiteTypeOK
<1> QED BY <1>1, SuiteInvariant, PTL

\* Whatever the list of tests, whatever arrives and whatever the vectors pick up, a test of the suite
\* makes the rig call a link function on NULL only at a receive step whose own vector picked up bit 0,
\* at its first poll, and it never compares a packet on NULL.
THEOREM OnlyPickedUpBitsCrash == SuiteSpec => []CrashesOnPickedUpBits
<1>1. SuiteInv => CrashesOnPickedUpBits
  BY DEF SuiteInv, PickedUp
<1> QED BY <1>1, SuiteInvariant, PTL

\* While no receive call fails, the flush leaves nothing of a test's packets to the next one.
THEOREM FlushesAreThorough == SuiteSpec => []FlushDropsTheLastTest
<1>1. SuiteInv => FlushDropsTheLastTest
  BY DEF SuiteInv, Flushed, FlushDropsTheLastTest
<1> QED BY <1>1, SuiteInvariant, PTL

\* The first step of a test sends its Interest, and the receive-one step behind it cannot be
\* satisfied by anything else than that.
LEMMA PassedOnOwn == Inv /\ Running => PassesOnOwnInterest
<1> SUFFICES ASSUME Inv, Running, phase = "running", pc = "returned", result.passed
             PROVE  \E k \in DOMAIN taken : \E r \in taken[k] :
                        r[2] = Forwarded(InterestOf(tests[test]))
  BY DEF PassesOnOwnInterest
<1> DEFINE own == InterestOf(tests[test])
<1>1. /\ SuiteScript(script, PacketsOf(tests[test])) /\ script[1].packet = own
      /\ tests[test] \in Test
  BY ListsTyped DEF Running, ScriptOf
<1>2. cur = Len(script) + 1 /\ Len(script) \in 4..6 /\ DOMAIN taken = 1..Len(script)
  BY <1>1, Indices DEF Inv, Evidence, Ended, SuiteScript
<1>3. PICK k \in 2..3 : script[k].op = "receiveOne" /\ script[k].step = 1
  BY <1>1 DEF SuiteScript
<1>4. k \in 1..(cur - 1) /\ k \in DOMAIN taken
  <2>1. \A n \in 4..6 : k \in 1..n /\ k \in 1..((n + 1) - 1)
    OBVIOUS
  <2> QED BY <1>2, <2>1
<1>5. Satisfied(script, k, taken[k])
  BY <1>4 DEF Inv, Evidence, Past
<1>6. taken[k] # {} /\ \A r \in taken[k] : Matches(own, r[2])
  BY <1>1, <1>3, <1>5 DEF Satisfied, SendOp
<1>7. PICK r \in taken[k] : Matches(own, r[2])
  BY <1>6
<1>8. r[2] \in PacketRecord
  <2>1. r \in LinkID \X Arrival
    BY <1>2, <1>4, Indices DEF Inv
  <2> QED BY <2>1, ScriptStepAssumption, PacketAssumption
<1>9. own \in PacketRecord /\ own.type = "interest"
  <2>1. own.type = "interest"
    BY DEF InterestOf
  <2> QED BY <1>1, <2>1, SuiteRigAssumption, PacketAssumption
<1>10. r[2].type = "interest"
  BY <1>7, <1>9 DEF Matches, TypesMatch, MessageType
<1>11. r[2] = Forwarded(own)
  BY <1>7, <1>8, <1>9, <1>10, MatchingInterests
<1> QED BY <1>4, <1>11

\* A test passes only on its own Interest, one hop shorter.
THEOREM OwnInterests == SuiteSpec => []PassesOnOwnInterest
<1>1. SuiteInv => PassesOnOwnInterest
  BY PassedOnOwn DEF SuiteInv
<1> QED BY <1>1, SuiteInvariant, PTL

=============================================================================
