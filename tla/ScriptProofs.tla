----------------------------- MODULE ScriptProofs -----------------------------
(***************************************************************************)
(* Proofs about Script, for every set of packets, every rig, every script  *)
(* and every behaviour of the forwarder.                                   *)
(***************************************************************************)
EXTENDS Script, SequenceTheorems, TLAPS

\* A step that sends has a packet to send.
SendsHavePacket ==
    \A k \in DOMAIN script : script[k].op \in SendOp => script[k].packet \in Packet

TypeInv == TypeOK /\ SendsHavePacket

ResultType == [passed : BOOLEAN, reason : Reason \cup {"none"}, packetList : Seq(Packet)]

\* The operations of a test result keep its type.
LEMMA ResultTyped ==
    /\ Create \in ResultType
    /\ \A r \in ResultType :
          /\ SetPass(r) \in ResultType
          /\ \A why \in Reason : SetFail(r, why) \in ResultType
          /\ \A p \in Packet : LogPacket(r, p) \in ResultType
<1>1. Create \in ResultType
  BY DEF Create, ResultType
<1>2. ASSUME NEW r \in ResultType PROVE SetPass(r) \in ResultType
  BY <1>2 DEF SetPass, ResultType
<1>3. ASSUME NEW r \in ResultType, NEW why \in Reason PROVE SetFail(r, why) \in ResultType
  BY <1>3 DEF SetFail, ResultType
<1>4. ASSUME NEW r \in ResultType, NEW p \in Packet PROVE LogPacket(r, p) \in ResultType
  BY <1>4 DEF LogPacket, ResultType
<1> QED BY <1>1, <1>2, <1>3, <1>4

\* The steps the constructors build have the type of a step.
LEMMA StepsTyped ==
    /\ \A p \in Outgoing, l \in LinkID : CreateSendStep(l, p) \in Step
    /\ \A s \in Nat, p \in Outgoing : CreateRespondStep(s, p) \in Step
    /\ \A op \in ReceiveOp, s \in Nat, listed \in Listings, junk \in SUBSET VaJunk :
          CreateReceive(op, s, listed, junk) \in Step
<1>1. LinkID \subseteq LinkBit
  BY ChannelAssumption DEF LinkA, LinkB, LinkC, LinkBit
<1>2. ASSUME NEW p \in Outgoing, NEW l \in LinkID PROVE CreateSendStep(l, p) \in Step
  BY <1>1, ScriptAssumption DEF CreateSendStep, Step, SendOp, ReceiveOp
<1>3. ASSUME NEW s \in Nat, NEW p \in Outgoing PROVE CreateRespondStep(s, p) \in Step
  BY ScriptAssumption DEF CreateRespondStep, Step, SendOp, ReceiveOp
<1>4. ASSUME NEW op \in ReceiveOp, NEW s \in Nat, NEW listed \in Listings,
             NEW junk \in SUBSET VaJunk
      PROVE  CreateReceive(op, s, listed, junk) \in Step
  <2>1. listed \in SUBSET LinkBit /\ junk \in SUBSET LinkBit
    BY <1>1, ScriptAssumption
  <2> QED BY <2>1 DEF CreateReceive, GetLinkVector, Step, SendOp, ReceiveOp
<1> QED BY <1>2, <1>3, <1>4

\* Appending a step keeps the types.
LEMMA AppendTyped ==
    ASSUME TypeInv, NEW s \in Step, s.op \in SendOp => s.packet \in Packet, AppendStep(s)
    PROVE  TypeInv'
<1> USE DEF TypeInv, AppendStep
<1>1. script' \in Seq(Step) /\ Len(script') = Len(script) + 1
  BY DEF TypeOK
<1>2. received' \in Seq(SUBSET LinkID) /\ Len(received') = Len(received) + 1
  BY DEF TypeOK
<1>3. taken' \in Seq(SUBSET (LinkID \X Arrival)) /\ Len(taken') = Len(taken) + 1
  <2>1. {} \in SUBSET (LinkID \X Arrival)
    OBVIOUS
  <2> QED BY <2>1 DEF TypeOK
<1>4. TypeOK'
  BY <1>1, <1>2, <1>3 DEF TypeOK, ChannelTypeOK, loopVars
<1>5. SendsHavePacket'
  BY DEF TypeOK, SendsHavePacket
<1> QED BY <1>4, <1>5

\* So does every way to add a step.
LEMMA AddStepTyped == TypeInv /\ AddStep => TypeInv'
<1> SUFFICES ASSUME TypeInv, AddStep PROVE TypeInv'
  OBVIOUS
<1>1. ASSUME NEW p \in Outgoing, NEW l \in LinkID, AddSendStep(p, l) PROVE TypeInv'
  <2>1. CreateSendStep(l, p) \in Step /\ CreateSendStep(l, p).packet \in Packet
    BY StepsTyped, ScriptAssumption DEF CreateSendStep
  <2> QED BY <1>1, <2>1, AppendTyped DEF AddSendStep
<1>2. ASSUME NEW s \in DOMAIN script, NEW p \in Outgoing, AddRespondStep(s, p) PROVE TypeInv'
  <2>1. s \in Nat
    BY DEF TypeInv, TypeOK
  <2>2. CreateRespondStep(s, p) \in Step /\ CreateRespondStep(s, p).packet \in Packet
    BY <2>1, StepsTyped, ScriptAssumption DEF CreateRespondStep
  <2> QED BY <1>2, <2>2, AppendTyped DEF AddRespondStep
<1>3. ASSUME NEW op \in ReceiveOp, NEW s \in DOMAIN script, NEW listed \in Listings,
             NEW junk \in SUBSET VaJunk, AddReceiveStep(op, s, listed, junk)
      PROVE  TypeInv'
  <2>1. s \in Nat
    BY DEF TypeInv, TypeOK
  <2>2. CreateReceive(op, s, listed, junk) \in Step
    BY <2>1, StepsTyped
  <2>3. CreateReceive(op, s, listed, junk).op \notin SendOp
    BY DEF CreateReceive, ReceiveOp, SendOp
  <2> QED BY <1>3, <2>2, <2>3, AppendTyped DEF AddReceiveStep
<1> QED BY <1>1, <1>2, <1>3 DEF AddStep

------------------------------------------------------------------------------
\* The part of the type invariant about the loop over the steps and the receive loop.
ControlTyped ==
    /\ pc \in {"build", "step", "returned", "crashed"}
    /\ cur \in 1..(Len(script) + 1)
    /\ bit \in LinkID \cup {-1}
    /\ succeeded \in BOOLEAN /\ failedAfterReceive \in BOOLEAN
    /\ result \in ResultType

\* The part about the steps and what they read and sent.
DataTyped ==
    /\ script \in Seq(Step)
    /\ received \in Seq(SUBSET LinkID)
    /\ taken \in Seq(SUBSET (LinkID \X Arrival))
    /\ Len(received) = Len(script) /\ Len(taken) = Len(script)
    /\ sent \in Seq(Transmission)
    /\ SendsHavePacket

LEMMA TypeParts == TypeInv <=> ChannelTypeOK /\ ControlTyped /\ DataTyped
BY DEF TypeInv, TypeOK, ControlTyped, DataTyped, ResultType

LEMMA TypePartsNext == ChannelTypeOK' /\ ControlTyped' /\ DataTyped' => TypeInv'
BY DEF TypeInv, TypeOK, ControlTyped, DataTyped, ResultType

\* The end of a step keeps the types of the loops.
LEMMA StepReturnsTyped ==
    ASSUME ControlTyped, NEW res \in ResultType, cur \in 1..Len(script), StepReturns(res),
           UNCHANGED script
    PROVE  ControlTyped'
<1>1. cur + 1 \in 1..(Len(script) + 1) /\ cur \in 1..(Len(script) + 1)
  BY DEF ControlTyped
<1> QED BY <1>1 DEF ControlTyped, StepReturns

\* A step that is executed is one of the script.
LEMMA ExecutingInScript ==
    ASSUME DataTyped, NEW ops, Executing(ops)
    PROVE  cur \in 1..Len(script)
BY DEF DataTyped, Executing

\* Reading a packet keeps the types of the steps and of the links.
LEMMA ReadsTyped ==
    ASSUME TypeInv, NEW l \in LinkID, NEW p \in Arrival, Reads(l, p), cur \in 1..Len(script)
    PROVE  ChannelTypeOK' /\ DataTyped'
<1>1. ChannelTypeOK'
  <2>1. inbox[l] \in Seq(Arrival) /\ Len(inbox[l]) \in Nat
    BY DEF TypeInv, TypeOK, ChannelTypeOK
  <2>2. TakenAtOnce + 1 \in Nat \ {0}
    BY ChannelAssumption DEF TakenAtOnce
  <2>3. SubSeq(inbox[l], TakenAtOnce + 1, Len(inbox[l])) \in Seq(Arrival)
    BY <2>1, <2>2
  <2> QED BY <2>3 DEF TypeInv, TypeOK, Reads, Receives, ChannelTypeOK
<1>2. received' \in Seq(SUBSET LinkID) /\ Len(received') = Len(received)
  <2>1. received \in Seq(SUBSET LinkID) /\ cur \in 1..Len(received)
    BY DEF TypeInv, TypeOK
  <2>2. received[cur] \cup {l} \in SUBSET LinkID
    BY <2>1
  <2> QED BY <2>1, <2>2, ExceptSeq DEF Reads
<1>3. taken' \in Seq(SUBSET (LinkID \X Arrival)) /\ Len(taken') = Len(taken)
  <2>1. taken \in Seq(SUBSET (LinkID \X Arrival)) /\ cur \in 1..Len(taken)
    BY DEF TypeInv, TypeOK
  <2>2. taken[cur] \cup {<<l, p>>} \in SUBSET (LinkID \X Arrival)
    BY <2>1
  <2> QED BY <2>1, <2>2, ExceptSeq DEF Reads
<1>4. SendsHavePacket'
  BY DEF TypeInv, Reads, SendsHavePacket
<1> QED BY <1>1, <1>2, <1>3, <1>4, TypeParts DEF DataTyped, Reads

\* A poll that ends in vain changes neither.
LEMMA ReadsNothingTyped ==
    ASSUME TypeInv, NEW l \in LinkID, ReadsNothing(l)
    PROVE  ChannelTypeOK' /\ DataTyped'
BY TypeParts DEF ReadsNothing, ReceivesNothing, DataTyped, SendsHavePacket, ChannelTypeOK, historyVars

\* Nor does the end of a receive loop.
LEMMA UnchangedTyped ==
    ASSUME TypeInv, UNCHANGED <<script, received, inbox, historyVars>>
    PROVE  ChannelTypeOK' /\ DataTyped'
BY TypeParts DEF DataTyped, SendsHavePacket, ChannelTypeOK, historyVars

LEMMA CheckedTyped ==
    ASSUME result \in ResultType, NEW p
    PROVE  Checked(p) \in ResultType
BY ResultTyped DEF Checked, Reason

\* Every poll that ends with NULL keeps the types.
LEMMA TimeoutTyped == TypeInv /\ TimeoutStep => TypeInv'
<1> SUFFICES ASSUME TypeInv, NEW l \in LinkID,
                    ReceiveAllTimeout(l) \/ ReceiveOneTimeout(l) \/ ReceiveNoneTimeout(l)
             PROVE  TypeInv'
  BY DEF TimeoutStep
<1>1. ReadsNothing(l) /\ cur \in 1..Len(script) /\ ControlTyped
  BY TypeParts, ExecutingInScript DEF ReceiveAllTimeout, ReceiveOneTimeout, ReceiveNoneTimeout
<1>2. ChannelTypeOK' /\ DataTyped' /\ script' = script
  BY <1>1, ReadsNothingTyped DEF ReadsNothing
<1>3. ControlTyped'
  <2>1. CASE ReceiveAllTimeout(l)
    <3>1. SetFail(result, "timeout") \in ResultType
      BY <1>1, ResultTyped DEF ControlTyped, Reason
    <3> QED BY <1>1, <1>2, <2>1, <3>1, StepReturnsTyped DEF ReceiveAllTimeout
  <2>2. CASE ReceiveOneTimeout(l) \/ ReceiveNoneTimeout(l)
    BY <1>1, <1>2, <2>2 DEF ReceiveOneTimeout, ReceiveNoneTimeout, ControlTyped
  <2> QED BY <2>1, <2>2
<1> QED BY <1>2, <1>3, TypePartsNext

\* Every poll that ends with a packet keeps the types.
LEMMA MessageTyped == TypeInv /\ MessageStep => TypeInv'
<1> SUFFICES ASSUME TypeInv, NEW l \in LinkID, NEW p \in Arrival,
                    \/ ReceiveAllMessage(l, p) \/ ReceiveOneMessage(l, p)
                    \/ ReceiveNoneMessage(l, p) \/ CrashOnNullPacket(l, p)
             PROVE  TypeInv'
  BY DEF MessageStep
<1>1. Reads(l, p) /\ cur \in 1..Len(script) /\ ControlTyped
  BY TypeParts, ExecutingInScript
     DEF ReceiveAllMessage, ReceiveOneMessage, ReceiveNoneMessage, CrashOnNullPacket
<1>2. ChannelTypeOK' /\ DataTyped' /\ script' = script
  BY <1>1, ReadsTyped DEF Reads
<1>3. \A why \in Reason : SetFail(result, why) \in ResultType
  BY <1>1, ResultTyped DEF ControlTyped
<1>4. Checked(p) \in ResultType
  BY <1>1, CheckedTyped DEF ControlTyped
<1>5. ControlTyped'
  <2>1. CASE ReceiveAllMessage(l, p)
    BY <1>1, <1>2, <1>3, <1>4, <2>1, StepReturnsTyped DEF ReceiveAllMessage, ControlTyped, Reason
  <2>2. CASE ReceiveOneMessage(l, p)
    <3>1. CASE TypesMatch(ReferencePacket, p)
      <4>1. IsFailure(result') \in BOOLEAN
        BY <1>4, <2>2, <3>1 DEF ReceiveOneMessage, IsFailure, ResultType
      <4> QED BY <1>1, <1>2, <1>4, <2>2, <3>1, <4>1 DEF ReceiveOneMessage, ControlTyped
    <3>2. CASE ~TypesMatch(ReferencePacket, p)
      BY <1>1, <1>2, <1>3, <2>2, <3>2, StepReturnsTyped DEF ReceiveOneMessage, Reason
    <3> QED BY <3>1, <3>2
  <2>3. CASE ReceiveNoneMessage(l, p)
    BY <1>1, <1>2, <1>3, <2>3, StepReturnsTyped DEF ReceiveNoneMessage, Reason
  <2>4. CASE CrashOnNullPacket(l, p)
    BY <1>1, <1>2, <2>4 DEF CrashOnNullPacket, ControlTyped, loopVars
  <2> QED BY <2>1, <2>2, <2>3, <2>4
<1> QED BY <1>2, <1>5, TypePartsNext

\* Every end of a receive loop keeps the types.
LEMMA LoopReturnsTyped == TypeInv /\ LoopReturns => TypeInv'
<1> SUFFICES ASSUME TypeInv, LoopReturns PROVE TypeInv'
  OBVIOUS
<1> USE DEF LoopReturns, ReceiveAllReturns, ReceiveOneReturns, ReceiveNoneReturns
<1>1. cur \in 1..Len(script) /\ ControlTyped
  BY TypeParts, ExecutingInScript
<1>2. ChannelTypeOK' /\ DataTyped' /\ script' = script
  BY UnchangedTyped
<1>3. result \in ResultType /\ SetFail(result, "no message") \in ResultType
  BY <1>1, ResultTyped DEF ControlTyped, Reason
<1>4. ControlTyped'
  <2>1. PICK res \in ResultType : StepReturns(res)
    BY <1>3
  <2> QED BY <1>1, <1>2, <2>1, StepReturnsTyped
<1> QED BY <1>2, <1>4, TypePartsNext

\* A send keeps the types.
LEMMA SendTyped == TypeInv /\ ExecuteSendStep => TypeInv'
<1> SUFFICES ASSUME TypeInv, ExecuteSendStep PROVE TypeInv'
  OBVIOUS
<1>1. cur \in 1..Len(script) /\ ControlTyped /\ DataTyped /\ ChannelTypeOK
  BY TypeParts, ExecutingInScript DEF ExecuteSendStep
<1>2. script[cur].packet \in Packet
  BY <1>1 DEF ExecuteSendStep, Executing, DataTyped, SendsHavePacket
<1>3. sent' \in Seq(Transmission)
  <2>1. PICK l \in LinkID :
            sent' = Append(sent, [step |-> cur, link |-> l, packet |-> script[cur].packet])
    BY DEF ExecuteSendStep
  <2>2. [step |-> cur, link |-> l, packet |-> script[cur].packet] \in Transmission
    BY <1>1, <1>2 DEF Transmission
  <2> QED BY <1>1, <2>1, <2>2 DEF DataTyped
<1>4. DataTyped' /\ ChannelTypeOK'
  BY <1>1, <1>3 DEF DataTyped, ChannelTypeOK, SendsHavePacket, ExecuteSendStep
<1>5. ControlTyped'
  <2>1. LogPacket(result, script[cur].packet) \in ResultType
    BY <1>1, <1>2, ResultTyped DEF ControlTyped
  <2> QED BY <1>1, <2>1, StepReturnsTyped DEF ExecuteSendStep
<1> QED BY <1>4, <1>5, TypePartsNext

\* Every other step keeps the types.
LEMMA OthersTyped ==
    TypeInv /\ (Execute \/ CrashOnNullLink \/ ScriptReturns \/ Forwarder \/ UNCHANGED vars) => TypeInv'
<1> SUFFICES ASSUME TypeInv,
                    Execute \/ CrashOnNullLink \/ ScriptReturns \/ Forwarder \/ UNCHANGED vars
             PROVE  TypeInv'
  OBVIOUS
<1>1. ChannelTypeOK /\ ControlTyped /\ DataTyped
  BY TypeParts
<1>2. DataTyped'
  BY <1>1 DEF Execute, CrashOnNullLink, ScriptReturns, Forwarder, vars, historyVars,
              DataTyped, SendsHavePacket
<1>3. ControlTyped'
  BY <1>1, ResultTyped DEF Execute, CrashOnNullLink, ScriptReturns, Forwarder, vars, loopVars,
                           ControlTyped
<1>4. ChannelTypeOK'
  <2>1. CASE Forwarder
    BY <1>1, <2>1 DEF Forwarder, Deliver, ChannelTypeOK
  <2>2. CASE ~Forwarder
    BY <1>1, <2>2 DEF Execute, CrashOnNullLink, ScriptReturns, vars, ChannelTypeOK
  <2> QED BY <2>1, <2>2
<1> QED BY <1>2, <1>3, <1>4, TypePartsNext

LEMMA InitTyped == Init => TypeInv
<1> SUFFICES ASSUME Init PROVE TypeInv
  OBVIOUS
<1>1. ChannelTypeOK
  BY DEF Init, ChannelInit, ChannelTypeOK
<1>2. ControlTyped
  <2>1. Len(script) = 0 /\ cur = 1
    BY DEF Init
  <2>2. result \in ResultType
    BY ResultTyped DEF Init
  <2>3. cur \in 1..(Len(script) + 1)
    BY <2>1
  <2>4. succeeded \in BOOLEAN /\ failedAfterReceive \in BOOLEAN
    BY DEF Init
  <2> QED BY <2>2, <2>3, <2>4 DEF Init, ControlTyped
<1>3. DataTyped
  BY DEF Init, DataTyped, SendsHavePacket
<1> QED BY <1>1, <1>2, <1>3, TypeParts

LEMMA NextTyped == TypeInv /\ [Next]_vars => TypeInv'
BY AddStepTyped, TimeoutTyped, MessageTyped, LoopReturnsTyped, SendTyped, OthersTyped
   DEF Next, Rig, PromptStep

\* The program's variables keep their types in every execution of every script.
THEOREM TypeCorrect == Spec => []TypeOK
<1>1. TypeInv => TypeOK
  BY DEF TypeInv
<1> QED BY <1>1, InitTyped, NextTyped, PTL DEF Spec

------------------------------------------------------------------------------
(* The evidence an execution has gathered: the invariant behind the verdict and behind the absence *)
(* of crashes.                                                                                     *)

\* A script that is still being written has read nothing, and nothing has failed.
Untouched ==
    pc = "build" =>
        /\ cur = 1 /\ bit = -1 /\ ~succeeded /\ ~failedAfterReceive /\ result.passed
        /\ \A k \in 1..Len(script) : taken[k] = {}

\* The steps that are over were satisfied, the steps to come have read nothing.
Past == \A k \in 1..(cur - 1) : Satisfied(script, k, taken[k])
Future == \A k \in 1..Len(script) : k > cur => taken[k] = {}

\* receivedLinkVector holds exactly the links that were read.
Recorded == \A k \in 1..Len(script) : received[k] = ReadLinks(taken[k])

\* What the running receive loop knows of the links it has been through.
RunningLoop ==
    pc = "step" /\ cur \in 1..Len(script) =>
        /\ script[cur].op \in SendOp \cup {"receiveNone"} => taken[cur] = {} /\ result.passed
        /\ script[cur].op = "receiveAll" =>
              /\ ReadLinks(taken[cur]) = {l \in script[cur].links : l <= bit}
              /\ result.passed <=> ReadLinksMatch(cur)
        /\ script[cur].op = "receiveOne" =>
              /\ result.passed <=> ReadLinksMatch(cur)
              /\ failedAfterReceive => ~result.passed
              /\ (succeeded \/ failedAfterReceive) <=> taken[cur] # {}

\* A script is over when its steps are, or at a step that was not satisfied.
Ended ==
    /\ pc = "step" /\ cur = Len(script) + 1 => result.passed
    /\ pc = "returned" => IF result.passed THEN cur = Len(script) + 1
                          ELSE cur \in 1..Len(script) /\ ~Satisfied(script, cur, taken[cur])

Evidence == Untouched /\ Past /\ Future /\ Recorded /\ RunningLoop /\ Ended /\ NeverCrashes

Inv == TypeInv /\ Evidence

\* A step that has read nothing yet has its loop before its first link.
LEMMA FreshLoopNext ==
    ASSUME TypeInv', taken'[cur'] = {}, result'.passed, bit' = -1, ~succeeded', ~failedAfterReceive'
    PROVE  RunningLoop'
<1> SUFFICES ASSUME cur' \in 1..Len(script') PROVE RunningLoop'
  BY DEF RunningLoop
<1>1. script'[cur'] \in Step
  BY DEF TypeInv, TypeOK
<1>2. {l \in script'[cur'].links : l <= bit'} = {}
  BY <1>1 DEF Step, LinkBit
<1>3. ReadLinks(taken'[cur']) = {} /\ ReadLinksMatch(cur)'
  BY DEF ReadLinks, ReadLinksMatch
<1> QED BY <1>2, <1>3 DEF RunningLoop

\* When a step returns a result that says whether the step was satisfied, all evidence stands.
LEMMA StepOver ==
    ASSUME Inv, TypeInv', pc = "step", cur \in 1..Len(script), NEW res \in ResultType,
           StepReturns(res), UNCHANGED script,
           \A k \in 1..Len(script) : k # cur => taken'[k] = taken[k],
           res.passed <=> Satisfied(script, cur, taken'[cur])
    PROVE  Untouched' /\ Past' /\ Future' /\ RunningLoop' /\ Ended' /\ NeverCrashes'
<1>1. cur \in Nat /\ Len(script) \in Nat
  BY DEF Inv, TypeInv, TypeOK
<1>2. CASE res.passed
  <2>1. /\ pc' = "step" /\ cur' = cur + 1 /\ result' = res
        /\ bit' = -1 /\ succeeded' = FALSE /\ failedAfterReceive' = FALSE
    BY <1>2 DEF StepReturns, IsFailure
  <2>2. Untouched' /\ NeverCrashes'
    BY <2>1 DEF Untouched, NeverCrashes
  <2>3. Past'
    <3> SUFFICES ASSUME NEW k \in 1..cur PROVE Satisfied(script, k, taken'[k])
      BY <1>1, <2>1 DEF Past
    <3>1. CASE k = cur
      BY <1>2, <3>1
    <3>2. CASE k # cur
      <4>1. k \in 1..(cur - 1) /\ k \in 1..Len(script)
        BY <1>1, <3>2
      <4> QED BY <3>2, <4>1 DEF Inv, Evidence, Past
    <3> QED BY <3>1, <3>2
  <2>4. Future'
    BY <1>1, <2>1 DEF Inv, Evidence, Future
  <2>5. RunningLoop'
    <3>1. CASE cur' \in 1..Len(script)
      <4>1. taken'[cur'] = {}
        BY <1>1, <2>1, <3>1 DEF Inv, Evidence, Future
      <4> QED BY <1>2, <2>1, <4>1, FreshLoopNext
    <3>2. CASE cur' \notin 1..Len(script)
      BY <3>2 DEF RunningLoop
    <3> QED BY <3>1, <3>2
  <2>6. Ended'
    BY <1>2, <2>1 DEF Ended
  <2> QED BY <2>2, <2>3, <2>4, <2>5, <2>6
<1>3. CASE ~res.passed
  <2>1. pc' = "returned" /\ cur' = cur /\ result' = res
    BY <1>3 DEF StepReturns, IsFailure
  <2>2. Past'
    BY <1>1, <2>1 DEF Inv, Evidence, Past
  <2>3. Future'
    BY <1>1, <2>1 DEF Inv, Evidence, Future
  <2>4. Untouched' /\ NeverCrashes' /\ RunningLoop'
    BY <2>1 DEF Untouched, NeverCrashes, RunningLoop
  <2>5. Ended'
    BY <1>3, <2>1 DEF Ended
  <2> QED BY <2>2, <2>3, <2>4, <2>5
<1> QED BY <1>2, <1>3

\* A poll is of the next link of the step's vector.
LEMMA PollsNextLink ==
    ASSUME TypeInv, Executing(ReceiveOp), NEW l \in LinkID, NextLink(l)
    PROVE  /\ l \in script[cur].links /\ l > bit
           /\ \A c \in script[cur].links : (c <= l) <=> (c <= bit \/ c = l)
           /\ \A c \in script[cur].links : c \in Int
           /\ bit \in Int
<1>1. LinkVector(cur) = script[cur].links
  BY DEF Executing, LinkVector, ReceiveOp
<1>2. bit \in Int /\ l \in Int
  BY ChannelAssumption DEF TypeInv, TypeOK, LinkA, LinkB, LinkC
<1>3. \A c \in script[cur].links : c \in Int
  <2>1. script[cur] \in Step
    BY DEF TypeInv, TypeOK, Executing
  <2>2. script[cur].links \in SUBSET LinkBit
    BY <2>1 DEF Step
  <2> QED BY <2>2 DEF LinkBit
<1> QED BY <1>1, <1>2, <1>3 DEF NextLink, IsNextBitSet

\* What reading a packet does to the evidence of the running step.
LEMMA ReadsEvidence ==
    ASSUME Inv, NEW l \in LinkID, NEW p \in Arrival, Reads(l, p), cur \in 1..Len(script)
    PROVE  /\ taken'[cur] = taken[cur] \cup {<<l, p>>}
           /\ \A k \in 1..Len(script) : k # cur => taken'[k] = taken[k]
           /\ ReadLinks(taken'[cur]) = ReadLinks(taken[cur]) \cup {l}
           /\ Recorded'
<1>1. cur \in DOMAIN taken /\ cur \in DOMAIN received
  BY DEF Inv, TypeInv, TypeOK
<1>2. taken'[cur] = taken[cur] \cup {<<l, p>>}
  BY <1>1 DEF Reads
<1>3. \A k \in 1..Len(script) : k # cur => taken'[k] = taken[k] /\ received'[k] = received[k]
  BY DEF Reads, Inv, TypeInv, TypeOK
<1>4. ReadLinks(taken'[cur]) = ReadLinks(taken[cur]) \cup {l}
  <2>1. <<l, p>>[1] = l
    OBVIOUS
  <2>2. \A x : x \in ReadLinks(taken'[cur]) <=> \E r \in taken[cur] \cup {<<l, p>>} : x = r[1]
    BY <1>2 DEF ReadLinks
  <2>3. \A x : x \in ReadLinks(taken[cur]) <=> \E r \in taken[cur] : x = r[1]
    BY DEF ReadLinks
  <2>4. \A x : x \in ReadLinks(taken'[cur]) <=> x \in ReadLinks(taken[cur]) \/ x = l
    BY <2>1, <2>2, <2>3
  <2> QED BY <2>4 DEF ReadLinks
<1>5. Recorded'
  BY <1>1, <1>3, <1>4 DEF Recorded, Inv, Evidence, Reads
<1> QED BY <1>2, <1>3, <1>4, <1>5

\* All readings of a step match after one more if they did before and that one does.
LEMMA ReadsMatch ==
    ASSUME NEW l, NEW p, taken'[cur] = taken[cur] \cup {<<l, p>>}, UNCHANGED <<script, cur>>
    PROVE  ReadLinksMatch(cur)' <=> ReadLinksMatch(cur) /\ Matches(ReferencePacket, p)
<1>1. <<l, p>>[2] = p
  OBVIOUS
<1>2. ReadLinksMatch(cur)' <=>
          \A r \in taken[cur] \cup {<<l, p>>} : Matches(ReferencePacket, r[2])
  BY DEF ReadLinksMatch, ReferencePacket
<1>3. ReadLinksMatch(cur) <=> \A r \in taken[cur] : Matches(ReferencePacket, r[2])
  BY DEF ReadLinksMatch, ReferencePacket
<1> QED BY <1>1, <1>2, <1>3

\* Checking a packet of the right type leaves a result passed if the packet matches.
LEMMA CheckedPasses ==
    ASSUME result \in ResultType, NEW p, TypesMatch(ReferencePacket, p)
    PROVE  Checked(p).passed <=> result.passed /\ Matches(ReferencePacket, p)
<1>1. CASE ValidPacketPair(ReferencePacket, p)
  BY <1>1 DEF Checked, Matches
<1>2. CASE ~ValidPacketPair(ReferencePacket, p)
  <2>1. SetFail(result, "field").passed = FALSE
    BY DEF SetFail, ResultType
  <2> QED BY <1>2, <2>1 DEF Checked, Matches
<1> QED BY <1>1, <1>2

LEMMA SetFailFails ==
    ASSUME NEW r \in ResultType, NEW why \in Reason
    PROVE  SetFail(r, why) \in ResultType /\ ~SetFail(r, why).passed
<1>1. SetFail(r, why).passed = FALSE
  BY DEF SetFail, ResultType
<1> QED BY <1>1, ResultTyped

\* A poll in vain.
LEMMA TimeoutEvidence == Inv /\ TimeoutStep => Evidence'
<1> SUFFICES ASSUME Inv, NEW l \in LinkID,
                    ReceiveAllTimeout(l) \/ ReceiveOneTimeout(l) \/ ReceiveNoneTimeout(l)
             PROVE  Evidence'
  BY DEF TimeoutStep
<1>1. TypeInv /\ TypeInv' /\ result \in ResultType
  BY TimeoutTyped, TypeParts DEF Inv, TimeoutStep, ControlTyped
<1>2. /\ Executing(ReceiveOp) /\ pc = "step" /\ cur \in 1..Len(script) /\ NextLink(l)
      /\ UNCHANGED <<script, received, taken>>
  BY <1>1, ExecutingInScript, TypeParts
     DEF ReceiveAllTimeout, ReceiveOneTimeout, ReceiveNoneTimeout, Executing, ReadsNothing,
         ReceiveOp, historyVars
<1>3. Recorded'
  BY <1>2 DEF Inv, Evidence, Recorded
<1>4. CASE ReceiveAllTimeout(l)
  <2>1. script[cur].op = "receiveAll"
    BY <1>4 DEF ReceiveAllTimeout, Executing
  <2>2. l \in script[cur].links /\ l \notin ReadLinks(taken[cur])
    BY <1>1, <1>2, <2>1, PollsNextLink DEF Inv, Evidence, RunningLoop
  <2>3. ~Satisfied(script, cur, taken'[cur])
    BY <1>2, <2>1, <2>2 DEF Satisfied, SendOp
  <2>4. SetFail(result, "timeout") \in ResultType /\ ~SetFail(result, "timeout").passed
    BY <1>1, SetFailFails DEF Reason
  <2>5. Untouched' /\ Past' /\ Future' /\ RunningLoop' /\ Ended' /\ NeverCrashes'
    BY <1>1, <1>2, <1>4, <2>3, <2>4, StepOver DEF ReceiveAllTimeout
  <2> QED BY <1>3, <2>5 DEF Evidence
<1>5. CASE ReceiveOneTimeout(l) \/ ReceiveNoneTimeout(l)
  <2>1. UNCHANGED <<pc, cur, succeeded, failedAfterReceive, result>>
    BY <1>5 DEF ReceiveOneTimeout, ReceiveNoneTimeout
  <2>2. script[cur].op \in {"receiveOne", "receiveNone"}
    BY <1>5 DEF ReceiveOneTimeout, ReceiveNoneTimeout, Executing
  <2>3. RunningLoop'
    BY <1>2, <2>1, <2>2 DEF Inv, Evidence, RunningLoop, ReadLinksMatch, SendOp
  <2>4. Untouched' /\ Past' /\ Future' /\ Ended' /\ NeverCrashes'
    BY <1>2, <2>1 DEF Inv, Evidence, Untouched, Past, Future, Ended, NeverCrashes
  <2> QED BY <1>3, <2>3, <2>4 DEF Evidence
<1> QED BY <1>4, <1>5

\* Reading another packet for the running step leaves the evidence of the other steps alone.
LEMMA OtherStepsKeep ==
    ASSUME Inv, cur \in 1..Len(script), UNCHANGED <<script, cur>>,
           \A k \in 1..Len(script) : k # cur => taken'[k] = taken[k]
    PROVE  Past' /\ Future'
<1>1. Past'
  <2> SUFFICES ASSUME NEW k \in 1..(cur - 1) PROVE Satisfied(script, k, taken'[k])
    BY DEF Past
  <2>1. k \in 1..Len(script) /\ k # cur
    BY DEF Inv, TypeInv, TypeOK
  <2> QED BY <2>1 DEF Inv, Evidence, Past
<1>2. Future'
  <2> SUFFICES ASSUME NEW k \in 1..Len(script), k > cur PROVE taken'[k] = {}
    BY DEF Future
  <2>1. k # cur
    BY DEF Inv, TypeInv, TypeOK
  <2> QED BY <2>1 DEF Inv, Evidence, Future
<1> QED BY <1>1, <1>2

\* What a poll that ends with a packet does to the evidence, whatever the kind of its step.
LEMMA MessageReads ==
    ASSUME Inv, NEW l \in LinkID, NEW p \in Arrival, Executing(ReceiveOp), Reads(l, p)
    PROVE  /\ TypeInv /\ result \in ResultType /\ pc = "step" /\ cur \in 1..Len(script)
           /\ NextLink(l) /\ UNCHANGED script
           /\ \A k \in 1..Len(script) : k # cur => taken'[k] = taken[k]
           /\ taken'[cur] = taken[cur] \cup {<<l, p>>}
           /\ ReadLinks(taken'[cur]) = ReadLinks(taken[cur]) \cup {l}
           /\ Recorded'
<1>1. /\ TypeInv /\ result \in ResultType /\ pc = "step" /\ cur \in 1..Len(script)
      /\ NextLink(l) /\ UNCHANGED script
  BY ExecutingInScript, TypeParts DEF Inv, ControlTyped, Executing, Reads
<1> QED BY <1>1, ReadsEvidence

\* A packet of the wrong type ends the step unsatisfied.
LEMMA WrongTypeEvidence ==
    ASSUME Inv, TypeInv', NEW l \in LinkID, NEW p \in Arrival, Executing(ReceiveOp), Reads(l, p),
           script[cur].op \in {"receiveOne", "receiveAll"},
           ~TypesMatch(ReferencePacket, p), StepReturns(SetFail(result, "type"))
    PROVE  Evidence'
<1>1. /\ result \in ResultType /\ pc = "step" /\ cur \in 1..Len(script) /\ UNCHANGED script
      /\ \A k \in 1..Len(script) : k # cur => taken'[k] = taken[k]
      /\ taken'[cur] = taken[cur] \cup {<<l, p>>}
      /\ Recorded'
  BY MessageReads
<1>2. ~Satisfied(script, cur, taken'[cur])
  <2>1. <<l, p>>[2] = p /\ <<l, p>> \in taken'[cur]
    BY <1>1
  <2>2. \E r \in taken'[cur] : ~Matches(script[script[cur].step].packet, r[2])
    BY <2>1 DEF Matches, ReferencePacket
  <2> QED BY <2>2 DEF Satisfied, SendOp
<1>3. SetFail(result, "type") \in ResultType /\ ~SetFail(result, "type").passed
  BY <1>1, SetFailFails DEF Reason
<1>4. Untouched' /\ Past' /\ Future' /\ RunningLoop' /\ Ended' /\ NeverCrashes'
  BY <1>1, <1>2, <1>3, StepOver
<1> QED BY <1>1, <1>4 DEF Evidence

\* A receive-all poll that ends with a packet.
LEMMA ReceiveAllEvidence ==
    ASSUME Inv, TypeInv', NEW l \in LinkID, NEW p \in Arrival, ReceiveAllMessage(l, p)
    PROVE  Evidence'
<1>1. Executing(ReceiveOp) /\ Reads(l, p) /\ script[cur].op = "receiveAll"
  BY DEF ReceiveAllMessage, Executing, ReceiveOp
<1>2. /\ TypeInv /\ result \in ResultType /\ pc = "step" /\ cur \in 1..Len(script)
      /\ NextLink(l) /\ UNCHANGED script
      /\ \A k \in 1..Len(script) : k # cur => taken'[k] = taken[k]
      /\ taken'[cur] = taken[cur] \cup {<<l, p>>}
      /\ ReadLinks(taken'[cur]) = ReadLinks(taken[cur]) \cup {l}
      /\ Recorded'
  BY <1>1, MessageReads
<1>3. CASE TypesMatch(ReferencePacket, p)
  <2>1. /\ bit' = l /\ result' = Checked(p)
        /\ UNCHANGED <<pc, cur, succeeded, failedAfterReceive, script>>
    BY <1>2, <1>3 DEF ReceiveAllMessage
  <2>2. ReadLinks(taken'[cur]) = {c \in script[cur].links : c <= bit'}
    BY <1>1, <1>2, <2>1, PollsNextLink DEF Inv, Evidence, RunningLoop
  <2>3. result'.passed <=> result.passed /\ Matches(ReferencePacket, p)
    BY <1>2, <1>3, <2>1, CheckedPasses
  <2>4. ReadLinksMatch(cur)' <=> ReadLinksMatch(cur) /\ Matches(ReferencePacket, p)
    BY <1>2, <2>1, ReadsMatch
  <2>5. RunningLoop'
    BY <1>1, <1>2, <2>1, <2>2, <2>3, <2>4 DEF Inv, Evidence, RunningLoop, SendOp
  <2>6. Untouched' /\ NeverCrashes' /\ Ended'
    BY <1>2, <2>1 DEF Untouched, NeverCrashes, Ended, TypeInv, TypeOK
  <2>7. Past' /\ Future'
    BY <1>2, <2>1, OtherStepsKeep
  <2> QED BY <1>2, <2>5, <2>6, <2>7 DEF Evidence
<1>4. CASE ~TypesMatch(ReferencePacket, p)
  <2>1. StepReturns(SetFail(result, "type"))
    BY <1>4 DEF ReceiveAllMessage
  <2> QED BY <1>1, <1>4, <2>1, WrongTypeEvidence
<1> QED BY <1>3, <1>4

\* A receive-one poll that ends with a packet.
LEMMA ReceiveOneEvidence ==
    ASSUME Inv, TypeInv', NEW l \in LinkID, NEW p \in Arrival, ReceiveOneMessage(l, p)
    PROVE  Evidence'
<1>1. Executing(ReceiveOp) /\ Reads(l, p) /\ script[cur].op = "receiveOne"
  BY DEF ReceiveOneMessage, Executing, ReceiveOp
<1>2. /\ TypeInv /\ result \in ResultType /\ pc = "step" /\ cur \in 1..Len(script)
      /\ NextLink(l) /\ UNCHANGED script
      /\ \A k \in 1..Len(script) : k # cur => taken'[k] = taken[k]
      /\ taken'[cur] = taken[cur] \cup {<<l, p>>}
      /\ Recorded'
  BY <1>1, MessageReads
<1>3. CASE TypesMatch(ReferencePacket, p)
  <2>1. /\ bit' = l /\ result' = Checked(p) /\ UNCHANGED <<pc, cur, script>>
        /\ succeeded' = (succeeded \/ result'.passed)
        /\ failedAfterReceive' = (failedAfterReceive \/ ~result'.passed)
    BY <1>2, <1>3 DEF ReceiveOneMessage, IsFailure
  <2>2. result'.passed <=> result.passed /\ Matches(ReferencePacket, p)
    BY <1>2, <1>3, <2>1, CheckedPasses
  <2>3. ReadLinksMatch(cur)' <=> ReadLinksMatch(cur) /\ Matches(ReferencePacket, p)
    BY <1>2, <2>1, ReadsMatch
  <2>4. taken'[cur] # {}
    BY <1>2
  <2>5. RunningLoop'
    BY <1>1, <1>2, <2>1, <2>2, <2>3, <2>4 DEF Inv, Evidence, RunningLoop, SendOp
  <2>6. Untouched' /\ NeverCrashes' /\ Ended'
    BY <1>2, <2>1 DEF Untouched, NeverCrashes, Ended, TypeInv, TypeOK
  <2>7. Past' /\ Future'
    BY <1>2, <2>1, OtherStepsKeep
  <2> QED BY <1>2, <2>5, <2>6, <2>7 DEF Evidence
<1>4. CASE ~TypesMatch(ReferencePacket, p)
  <2>1. StepReturns(SetFail(result, "type"))
    BY <1>4 DEF ReceiveOneMessage
  <2> QED BY <1>1, <1>4, <2>1, WrongTypeEvidence
<1> QED BY <1>3, <1>4

\* A receive-none poll that ends with a packet.
LEMMA ReceiveNoneEvidence ==
    ASSUME Inv, TypeInv', NEW l \in LinkID, NEW p \in Arrival, ReceiveNoneMessage(l, p)
    PROVE  Evidence'
<1>1. Executing(ReceiveOp) /\ Reads(l, p) /\ script[cur].op = "receiveNone"
  BY DEF ReceiveNoneMessage, Executing, ReceiveOp
<1>2. /\ result \in ResultType /\ pc = "step" /\ cur \in 1..Len(script) /\ UNCHANGED script
      /\ \A k \in 1..Len(script) : k # cur => taken'[k] = taken[k]
      /\ taken'[cur] = taken[cur] \cup {<<l, p>>}
      /\ Recorded'
  BY <1>1, MessageReads
<1>3. ~Satisfied(script, cur, taken'[cur])
  BY <1>1, <1>2 DEF Satisfied, SendOp
<1>4. SetFail(result, "unexpected") \in ResultType /\ ~SetFail(result, "unexpected").passed
  BY <1>2, SetFailFails DEF Reason
<1>5. Untouched' /\ Past' /\ Future' /\ RunningLoop' /\ Ended' /\ NeverCrashes'
  BY <1>2, <1>3, <1>4, StepOver DEF ReceiveNoneMessage
<1> QED BY <1>2, <1>5 DEF Evidence

\* A vector of links of the rig has a next bit as long as a bit is left.
LEMMA NextBitExists ==
    ASSUME NEW v \in SUBSET LinkID, NEW from \in Int, NEW c \in v, c >= from
    PROVE  \E b \in LinkID : IsNextBitSet(v, from, b)
<1>1. v \subseteq {1, 2, 3}
  BY ChannelAssumption DEF LinkA, LinkB, LinkC
<1>2. CASE 1 \in v /\ 1 >= from
  BY <1>1, <1>2 DEF IsNextBitSet
<1>3. CASE ~(1 \in v /\ 1 >= from) /\ 2 \in v /\ 2 >= from
  BY <1>1, <1>3 DEF IsNextBitSet
<1>4. CASE ~(1 \in v /\ 1 >= from) /\ ~(2 \in v /\ 2 >= from)
  BY <1>1, <1>4 DEF IsNextBitSet
<1> QED BY <1>2, <1>3, <1>4

\* A script as the suite writes it, but for what its vectors picked up: these may hold what is no link.
StepAsWritten(plan, k) ==
    LET s == plan[k]
    IN  CASE s.op = "send"    -> s.links # {} /\ s.links \subseteq LinkID
          [] s.op = "respond" -> /\ s.step \in 1..(k - 1)
                                 /\ plan[s.step].op \in {"receiveOne", "receiveAll"}
          [] OTHER            -> /\ s.links # {}
                                 /\ s.step \in 1..(k - 1)
                                 /\ plan[s.step].op \in SendOp

AsWritten(plan) == \A k \in 1..Len(plan) : StepAsWritten(plan, k)

\* Such a script is well formed if its receive steps poll links.
LEMMA WrittenForms ==
    ASSUME NEW plan
    PROVE  /\ WellFormed(plan) => AsWritten(plan)
           /\ AsWritten(plan) /\ (\A k \in 1..Len(plan) : plan[k].links \subseteq LinkID)
                 => WellFormed(plan)
BY DEF WellFormed, AsWritten, StepWellFormed, StepAsWritten

\* Nothing but a bit that is no link, in a vector that is polled, makes such a script crash: every
\* step has something to poll or a link to send on, and a packet to compare.
LEMMA CrashCauses ==
    ASSUME Inv, AsWritten(script)
    PROVE  /\ CrashOnNullLink => Executing(ReceiveOp) /\ ~(script[cur].links \subseteq LinkID)
           /\ \A l \in LinkID, p \in Arrival : ~CrashOnNullPacket(l, p)
<1>1. \A k \in 1..Len(script) : StepAsWritten(script, k)
  BY DEF AsWritten
<1>2. TypeInv /\ DataTyped
  BY TypeParts DEF Inv
<1>3. ASSUME Executing(SendOp), \A l \in LinkID : ~IsNextBitSet(LinkVector(cur), 0, l) PROVE FALSE
  <2>1. cur \in 1..Len(script) /\ script[cur].op \in SendOp
    BY <1>2, <1>3, ExecutingInScript DEF Executing
  <2>2. LinkVector(cur) # {} /\ LinkVector(cur) \subseteq LinkID
    <3>1. CASE script[cur].op = "send"
      BY <1>1, <2>1, <3>1 DEF StepAsWritten, LinkVector
    <3>2. CASE script[cur].op = "respond"
      <4> DEFINE s == script[cur].step
      <4>1. s \in 1..(cur - 1) /\ script[s].op \in {"receiveOne", "receiveAll"}
        BY <1>1, <2>1, <3>2 DEF StepAsWritten
      <4>2. s \in 1..Len(script) /\ LinkVector(cur) = received[s]
        BY <2>1, <3>2, <4>1, <1>2 DEF LinkVector, TypeInv, TypeOK
      <4>3. received[s] = ReadLinks(taken[s]) /\ received[s] \subseteq LinkID
        BY <4>2, <1>2 DEF Inv, Evidence, Recorded, TypeInv, TypeOK
      <4>4. Satisfied(script, s, taken[s])
        BY <4>1 DEF Inv, Evidence, Past
      <4>5. CASE script[s].op = "receiveOne"
        <5>1. taken[s] # {}
          BY <4>4, <4>5 DEF Satisfied, SendOp
        <5>2. ReadLinks(taken[s]) # {}
          BY <5>1 DEF ReadLinks
        <5> QED BY <4>2, <4>3, <5>2
      <4>6. CASE script[s].op = "receiveAll"
        <5>1. ReadLinks(taken[s]) = script[s].links
          BY <4>4, <4>6 DEF Satisfied, SendOp
        <5>2. script[s].links # {}
          BY <1>1, <4>2, <4>6 DEF StepAsWritten
        <5> QED BY <4>2, <4>3, <5>1, <5>2
      <4> QED BY <4>1, <4>5, <4>6
    <3> QED BY <2>1, <3>1, <3>2 DEF SendOp
  <2>3. PICK c \in LinkVector(cur) : TRUE
    BY <2>2
  <2>4. c \in {1, 2, 3}
    BY <2>2, ChannelAssumption DEF LinkA, LinkB, LinkC
  <2>5. \E b \in LinkID : IsNextBitSet(LinkVector(cur), 0, b)
    BY <2>2, <2>4, NextBitExists
  <2> QED BY <1>3, <2>5
<1>4. ASSUME Executing(ReceiveOp), ~LoopDone, \A l \in LinkID : ~NextLink(l),
             script[cur].links \subseteq LinkID
      PROVE  FALSE
  <2>1. cur \in 1..Len(script) /\ script[cur].op \in ReceiveOp
    BY <1>2, <1>4, ExecutingInScript DEF Executing
  <2>2. LinkVector(cur) \subseteq LinkID
    BY <1>4, <2>1 DEF LinkVector, ReceiveOp
  <2>3. bit + 1 \in Int /\ bit \in Int
    BY <1>2, ChannelAssumption DEF TypeInv, TypeOK, LinkA, LinkB, LinkC
  <2>4. PICK c \in LinkVector(cur) : ~(c <= bit)
    BY <1>4 DEF LoopDone
  <2>5. c >= bit + 1
    <3>1. c \in {1, 2, 3}
      BY <2>2, ChannelAssumption DEF LinkA, LinkB, LinkC
    <3> QED BY <2>3, <2>4, <3>1
  <2>6. \E b \in LinkID : IsNextBitSet(LinkVector(cur), bit + 1, b)
    BY <2>2, <2>3, <2>5, NextBitExists
  <2> QED BY <1>4, <2>6 DEF NextLink
<1>5. ASSUME NEW l \in LinkID, NEW p \in Arrival, CrashOnNullPacket(l, p) PROVE FALSE
  <2>1. /\ cur \in 1..Len(script) /\ script[cur].op \in {"receiveOne", "receiveAll"}
        /\ ReferencePacket = NoPacket
    BY <1>2, <1>5, ExecutingInScript DEF Executing, CrashOnNullPacket
  <2>2. script[cur].step \in 1..(cur - 1) /\ script[script[cur].step].op \in SendOp
    BY <1>1, <2>1 DEF StepAsWritten
  <2>3. script[cur].step \in DOMAIN script
    BY <1>2, <2>1, <2>2 DEF TypeInv, TypeOK
  <2>4. ReferencePacket \in Packet
    BY <1>2, <2>2, <2>3 DEF ReferencePacket, TypeInv, SendsHavePacket
  <2> QED BY <2>1, <2>4, ScriptStepAssumption
<1> QED BY <1>3, <1>4, <1>5 DEF CrashOnNullLink

\* In a well-formed script no step crashes: it has a link to poll or to send on, and a packet to compare.
LEMMA NoCrash ==
    ASSUME Inv, WellFormed(script)
    PROVE  ~CrashOnNullLink /\ \A l \in LinkID, p \in Arrival : ~CrashOnNullPacket(l, p)
<1>1. AsWritten(script)
  BY WrittenForms
<1>2. ASSUME Executing(ReceiveOp) PROVE script[cur].links \subseteq LinkID
  <2>1. cur \in 1..Len(script) /\ script[cur].op \in ReceiveOp
    BY <1>2, TypeParts, ExecutingInScript DEF Inv, Executing
  <2> QED BY <2>1 DEF WellFormed, StepWellFormed, ReceiveOp
<1> QED BY <1>1, <1>2, CrashCauses

\* Every poll that ends with a packet.
LEMMA MessageEvidence == Inv /\ MessageStep => Evidence'
<1> SUFFICES ASSUME Inv, NEW l \in LinkID, NEW p \in Arrival, MessageStep,
                    \/ ReceiveAllMessage(l, p) \/ ReceiveOneMessage(l, p)
                    \/ ReceiveNoneMessage(l, p) \/ CrashOnNullPacket(l, p)
             PROVE  Evidence'
  BY DEF MessageStep
<1>1. TypeInv'
  BY MessageTyped DEF Inv
<1>2. CASE CrashOnNullPacket(l, p)
  <2>1. Executing(ReceiveOp) /\ Reads(l, p) /\ pc' = "crashed" /\ UNCHANGED cur
    BY <1>2 DEF CrashOnNullPacket, Executing, ReceiveOp
  <2>2. Recorded' /\ Past' /\ Future' /\ UNCHANGED script
    BY <2>1, MessageReads, OtherStepsKeep
  <2>3. ~WellFormed(script)
    BY <1>2, NoCrash
  <2>4. NeverCrashes'
    BY <2>2, <2>3 DEF NeverCrashes
  <2>5. Untouched' /\ RunningLoop' /\ Ended'
    BY <2>1 DEF Untouched, RunningLoop, Ended
  <2> QED BY <2>2, <2>4, <2>5 DEF Evidence
<1> QED BY <1>1, <1>2, ReceiveAllEvidence, ReceiveOneEvidence, ReceiveNoneEvidence

\* The end of a receive loop.
LEMMA LoopReturnsEvidence == Inv /\ LoopReturns => Evidence'
<1> SUFFICES ASSUME Inv, LoopReturns PROVE Evidence'
  OBVIOUS
<1>1. TypeInv /\ TypeInv' /\ DataTyped /\ result \in ResultType
  BY LoopReturnsTyped, TypeParts DEF Inv, ControlTyped
<1>2. /\ Executing(ReceiveOp) /\ LoopDone /\ UNCHANGED <<script, received, taken>>
  BY DEF LoopReturns, ReceiveAllReturns, ReceiveOneReturns, ReceiveNoneReturns, Executing,
         ReceiveOp, historyVars
<1>3. pc = "step" /\ cur \in 1..Len(script)
  BY <1>1, <1>2, ExecutingInScript DEF Executing
<1>4. PICK res \in ResultType :
          StepReturns(res) /\ (res.passed <=> Satisfied(script, cur, taken[cur]))
  <2>1. CASE ReceiveAllReturns
    <3>1. script[cur].op = "receiveAll"
      BY <2>1 DEF ReceiveAllReturns, Executing
    <3>2. {l \in script[cur].links : l <= bit} = script[cur].links
      BY <1>2, <3>1 DEF LoopDone, LinkVector
    <3>3. result.passed <=> Satisfied(script, cur, taken[cur])
      BY <1>3, <3>1, <3>2 DEF Inv, Evidence, RunningLoop, Satisfied, SendOp, ReadLinksMatch
    <3> QED BY <1>1, <2>1, <3>3 DEF ReceiveAllReturns
  <2>2. CASE ReceiveOneReturns
    <3>1. script[cur].op = "receiveOne"
      BY <2>2 DEF ReceiveOneReturns, Executing
    <3>2. CASE ~succeeded /\ ~failedAfterReceive
      <4>1. ~Satisfied(script, cur, taken[cur])
        BY <1>3, <3>1, <3>2 DEF Inv, Evidence, RunningLoop, Satisfied, SendOp
      <4>2. SetFail(result, "no message") \in ResultType /\ ~SetFail(result, "no message").passed
        BY <1>1, SetFailFails DEF Reason
      <4> QED BY <2>2, <3>2, <4>1, <4>2 DEF ReceiveOneReturns
    <3>3. CASE succeeded \/ failedAfterReceive
      <4>1. result.passed <=> Satisfied(script, cur, taken[cur])
        BY <1>3, <3>1, <3>3
           DEF Inv, Evidence, RunningLoop, Satisfied, SendOp, ReadLinksMatch
      <4> QED BY <1>1, <2>2, <3>3, <4>1 DEF ReceiveOneReturns
    <3> QED BY <3>2, <3>3
  <2>3. CASE ReceiveNoneReturns
    <3>1. script[cur].op = "receiveNone"
      BY <2>3 DEF ReceiveNoneReturns, Executing
    <3>2. result.passed /\ Satisfied(script, cur, taken[cur])
      BY <1>3, <3>1 DEF Inv, Evidence, RunningLoop, Satisfied, SendOp
    <3> QED BY <1>1, <2>3, <3>2 DEF ReceiveNoneReturns
  <2> QED BY <2>1, <2>2, <2>3 DEF LoopReturns
<1>5. Untouched' /\ Past' /\ Future' /\ RunningLoop' /\ Ended' /\ NeverCrashes'
  BY <1>1, <1>2, <1>3, <1>4, StepOver
<1>6. Recorded'
  BY <1>2 DEF Inv, Evidence, Recorded
<1> QED BY <1>5, <1>6 DEF Evidence

\* A send.
LEMMA SendEvidence == Inv /\ ExecuteSendStep => Evidence'
<1> SUFFICES ASSUME Inv, ExecuteSendStep PROVE Evidence'
  OBVIOUS
<1>1. TypeInv /\ TypeInv' /\ DataTyped /\ result \in ResultType
  BY SendTyped, TypeParts DEF Inv, ControlTyped
<1>2. pc = "step" /\ cur \in 1..Len(script) /\ script[cur].op \in SendOp
  BY <1>1, ExecutingInScript DEF ExecuteSendStep, Executing
<1>3. UNCHANGED <<script, received, taken>>
  BY DEF ExecuteSendStep
<1>4. taken[cur] = {} /\ result.passed
  BY <1>2 DEF Inv, Evidence, RunningLoop
<1>5. Satisfied(script, cur, taken'[cur])
  <2>1. taken'[cur] = {}
    BY <1>3, <1>4
  <2> QED BY <1>2, <2>1 DEF Satisfied, SendOp
<1>6. /\ LogPacket(result, script[cur].packet) \in ResultType
      /\ LogPacket(result, script[cur].packet).passed
  <2>1. script[cur].packet \in Packet
    BY <1>1, <1>2 DEF DataTyped, SendsHavePacket
  <2>2. LogPacket(result, script[cur].packet).passed = result.passed
    BY <1>1 DEF LogPacket, ResultType
  <2> QED BY <1>1, <1>4, <2>1, <2>2, ResultTyped
<1>7. Untouched' /\ Past' /\ Future' /\ RunningLoop' /\ Ended' /\ NeverCrashes'
  BY <1>1, <1>2, <1>3, <1>5, <1>6, StepOver DEF ExecuteSendStep
<1>8. Recorded'
  BY <1>3 DEF Inv, Evidence, Recorded
<1> QED BY <1>7, <1>8 DEF Evidence

\* Writing another step.
LEMMA AppendEvidence ==
    ASSUME Inv, TypeInv', NEW s, AppendStep(s)
    PROVE  Evidence'
<1>1. /\ pc = "build" /\ cur = 1 /\ bit = -1 /\ ~succeeded /\ ~failedAfterReceive /\ result.passed
      /\ \A k \in 1..Len(script) : taken[k] = {}
  BY DEF AppendStep, Inv, Evidence, Untouched
<1>2. UNCHANGED <<pc, cur, bit, succeeded, failedAfterReceive, result>>
  BY DEF AppendStep, loopVars
<1>3. /\ script \in Seq(Step) /\ Len(received) = Len(script) /\ Len(taken) = Len(script)
      /\ received \in Seq(SUBSET LinkID) /\ taken \in Seq(SUBSET (LinkID \X Arrival))
  BY DEF Inv, TypeInv, TypeOK
<1>4. Len(script') = Len(script) + 1 /\ Len(script) \in Nat
  BY <1>3 DEF AppendStep
<1>5. \A k \in 1..Len(script') : taken'[k] = {}
  BY <1>1, <1>3, <1>4 DEF AppendStep
<1>6. Recorded'
  <2> SUFFICES ASSUME NEW k \in 1..Len(script') PROVE received'[k] = ReadLinks(taken'[k])
    BY DEF Recorded
  <2>1. CASE k = Len(script) + 1
    <3>1. received'[k] = {}
      BY <1>3, <1>4, <2>1 DEF AppendStep
    <3>2. ReadLinks(taken'[k]) = {}
      BY <1>5 DEF ReadLinks
    <3> QED BY <3>1, <3>2
  <2>2. CASE k \in 1..Len(script)
    <3>1. received'[k] = received[k] /\ taken'[k] = taken[k]
      BY <1>3, <2>2 DEF AppendStep
    <3> QED BY <2>2, <3>1 DEF Inv, Evidence, Recorded
  <2> QED BY <1>4, <2>1, <2>2
<1>7. Untouched' /\ NeverCrashes' /\ Ended' /\ RunningLoop'
  BY <1>1, <1>2, <1>5 DEF Untouched, NeverCrashes, Ended, RunningLoop
<1>8. Past' /\ Future'
  BY <1>1, <1>2, <1>5 DEF Past, Future
<1> QED BY <1>6, <1>7, <1>8 DEF Evidence

LEMMA AddStepEvidence == Inv /\ AddStep => Evidence'
<1> SUFFICES ASSUME Inv, AddStep PROVE Evidence'
  OBVIOUS
<1>1. TypeInv'
  BY AddStepTyped DEF Inv
<1>2. PICK s : AppendStep(s)
  BY DEF AddStep, AddSendStep, AddRespondStep, AddReceiveStep
<1> QED BY <1>1, <1>2, AppendEvidence

\* The beginning of an execution.
LEMMA ExecuteEvidence == Inv /\ Execute => Evidence'
<1> SUFFICES ASSUME Inv, Execute PROVE Evidence'
  OBVIOUS
<1>1. TypeInv'
  BY OthersTyped DEF Inv
<1>2. /\ cur = 1 /\ bit = -1 /\ ~succeeded /\ ~failedAfterReceive
      /\ \A k \in 1..Len(script) : taken[k] = {}
  BY DEF Execute, Inv, Evidence, Untouched
<1>3. /\ pc' = "step" /\ result' = Create
      /\ UNCHANGED <<script, received, cur, bit, succeeded, failedAfterReceive, taken>>
  BY DEF Execute, loopVars, historyVars
<1>4. result'.passed
  BY <1>3 DEF Create
<1>5. RunningLoop'
  <2>1. CASE cur' \in 1..Len(script')
    BY <1>1, <1>2, <1>3, <1>4, <2>1, FreshLoopNext
  <2>2. CASE cur' \notin 1..Len(script')
    BY <2>2 DEF RunningLoop
  <2> QED BY <2>1, <2>2
<1>6. Untouched' /\ Ended' /\ NeverCrashes'
  BY <1>3, <1>4 DEF Untouched, Ended, NeverCrashes
<1>7. Past' /\ Future' /\ Recorded'
  BY <1>3 DEF Inv, Evidence, Past, Future, Recorded
<1> QED BY <1>5, <1>6, <1>7 DEF Evidence

\* Every other step.
LEMMA OthersEvidence ==
    Inv /\ (CrashOnNullLink \/ ScriptReturns \/ Forwarder \/ UNCHANGED vars) => Evidence'
<1> SUFFICES ASSUME Inv, CrashOnNullLink \/ ScriptReturns \/ Forwarder \/ UNCHANGED vars
             PROVE  Evidence'
  OBVIOUS
<1>1. UNCHANGED <<script, received, taken, cur, bit, succeeded, failedAfterReceive>>
  BY DEF CrashOnNullLink, ScriptReturns, Forwarder, vars, loopVars, historyVars
<1>2. Past' /\ Future' /\ Recorded'
  BY <1>1 DEF Inv, Evidence, Past, Future, Recorded
<1>3. CASE CrashOnNullLink
  <2>1. ~WellFormed(script) /\ pc' = "crashed"
    BY <1>3, NoCrash DEF CrashOnNullLink
  <2>2. NeverCrashes' /\ Untouched' /\ RunningLoop' /\ Ended'
    BY <1>1, <2>1 DEF NeverCrashes, Untouched, RunningLoop, Ended
  <2> QED BY <1>2, <2>2 DEF Evidence
<1>4. CASE ScriptReturns
  <2>1. pc = "step" /\ cur = Len(script) + 1 /\ pc' = "returned" /\ result' = SetPass(result)
    BY <1>4 DEF ScriptReturns
  <2>2. result \in ResultType
    BY TypeParts DEF Inv, ControlTyped
  <2>3. result'.passed
    BY <2>1, <2>2 DEF SetPass, ResultType
  <2>4. NeverCrashes' /\ Untouched' /\ RunningLoop' /\ Ended'
    BY <1>1, <2>1, <2>3 DEF NeverCrashes, Untouched, RunningLoop, Ended
  <2> QED BY <1>2, <2>4 DEF Evidence
<1>5. CASE Forwarder \/ UNCHANGED vars
  <2>1. UNCHANGED <<pc, result>>
    BY <1>5 DEF Forwarder, vars
  <2>2. NeverCrashes' /\ Untouched' /\ RunningLoop' /\ Ended'
    BY <1>1, <2>1 DEF Inv, Evidence, NeverCrashes, Untouched, RunningLoop, Ended, ReadLinksMatch
  <2> QED BY <1>2, <2>2 DEF Evidence
<1> QED BY <1>3, <1>4, <1>5

LEMMA InitEvidence == Init => Inv
<1> SUFFICES ASSUME Init PROVE Evidence
  BY InitTyped DEF Inv
<1>1. Len(script) = 0 /\ pc = "build" /\ cur = 1 /\ bit = -1 /\ result = Create
  BY DEF Init
<1>2. ~succeeded /\ ~failedAfterReceive
  BY DEF Init
<1>3. result.passed
  BY <1>1 DEF Create
<1> QED BY <1>1, <1>2, <1>3
        DEF Evidence, Untouched, Past, Future, Recorded, RunningLoop, Ended, NeverCrashes

LEMMA NextEvidence == Inv /\ [Next]_vars => Inv'
<1>1. Inv /\ [Next]_vars => TypeInv'
  BY NextTyped DEF Inv
<1>2. Inv /\ [Next]_vars => Evidence'
  BY AddStepEvidence, ExecuteEvidence, TimeoutEvidence, MessageEvidence, LoopReturnsEvidence,
     SendEvidence, OthersEvidence DEF Next, Rig, PromptStep
<1> QED BY <1>1, <1>2 DEF Inv

LEMMA Invariant == Spec => []Inv
BY InitEvidence, NextEvidence, PTL DEF Spec

\* A script written the way the suite writes them never brings the rig down, whatever arrives.
THEOREM NoScriptCrashes == Spec => []NeverCrashes
<1>1. Inv => NeverCrashes
  BY DEF Inv, Evidence
<1> QED BY <1>1, Invariant, PTL

\* A script passes if and only if the packets each of its steps read satisfied that step.
THEOREM VerdictsAreEvidence == Spec => []VerdictIsEvidence
<1>1. Inv => VerdictIsEvidence
  <2> SUFFICES ASSUME Inv, pc = "returned"
               PROVE  result.passed <=> \A k \in DOMAIN script : Satisfied(script, k, taken[k])
    BY DEF VerdictIsEvidence
  <2>1. DOMAIN script = 1..Len(script) /\ Len(script) \in Nat
    BY DEF Inv, TypeInv, TypeOK
  <2>2. CASE result.passed
    <3>1. cur - 1 = Len(script)
      BY <2>1, <2>2 DEF Inv, Evidence, Ended
    <3> QED BY <2>1, <2>2, <3>1 DEF Inv, Evidence, Past
  <2>3. CASE ~result.passed
    BY <2>1, <2>3 DEF Inv, Evidence, Ended
  <2> QED BY <2>2, <2>3
<1> QED BY <1>1, Invariant, PTL

\* A script that failed sends nothing more.
THEOREM FailedScriptsAreSilent == Spec => NothingSentAfterFailure
<1>1. Inv /\ [Next]_vars => (IsFailure(result) => UNCHANGED sent)
  <2> SUFFICES ASSUME Inv, [Next]_vars, IsFailure(result) PROVE UNCHANGED sent
    OBVIOUS
  <2>1. ASSUME ExecuteSendStep PROVE FALSE
    <3>1. pc = "step" /\ cur \in 1..Len(script) /\ script[cur].op \in SendOp
      BY <2>1, ExecutingInScript, TypeParts DEF ExecuteSendStep, Executing, Inv
    <3> QED BY <3>1 DEF Inv, Evidence, RunningLoop, IsFailure
  <2> QED BY <2>1 DEF Next, AddStep, AddSendStep, AddRespondStep, AddReceiveStep, AppendStep, Rig,
          PromptStep, Execute, TimeoutStep, MessageStep, LoopReturns, CrashOnNullLink, ScriptReturns,
          Forwarder, ReceiveAllTimeout, ReceiveOneTimeout, ReceiveNoneTimeout, ReadsNothing,
          ReceiveAllMessage, ReceiveOneMessage, ReceiveNoneMessage, CrashOnNullPacket, Reads,
          ReceiveAllReturns, ReceiveOneReturns, ReceiveNoneReturns, historyVars, vars
<1>2. Inv /\ [Next]_vars => [IsFailure(result) => UNCHANGED sent]_vars
  BY <1>1
<1> QED BY <1>2, Invariant, PTL DEF Spec, NothingSentAfterFailure

=============================================================================
