-------------------------- MODULE ScriptPacketProofs --------------------------
(***************************************************************************)
(* Proofs about the packets of a script's execution: which ones a step     *)
(* accepts, where the answers to them go, and what is said of wrong ones.  *)
(***************************************************************************)
EXTENDS ScriptProofs

\* The step a receive or respond step refers to was added before it.
References == \A k \in 1..Len(script) : script[k].op # "send" => script[k].step \in 1..(k - 1)

\* A step of this kind compares what it reads with the packet of its reference.
Compares(k) == script[k].op \in {"receiveOne", "receiveAll"}

\* What was read was compared with a packet, unless that attempt brought the rig down.
Compared ==
    \A k \in 1..Len(script) :
        taken[k] # {} /\ Compares(k) /\ ~(pc = "crashed" /\ k = cur) =>
            script[script[k].step].packet # NoPacket

\* Whatever was sent was sent by a step that is over, an answer to a link its reference read.
Answered ==
    \A i \in DOMAIN sent :
        LET k == sent[i].step
        IN  /\ k \in 1..(cur - 1)
            /\ script[k].op = "respond" => sent[i].link \in ReadLinks(taken[script[k].step])

PacketInv == Inv /\ References /\ Compared /\ Answered

Packets == References /\ Compared /\ Answered

\* What the types say of the indices used below.
LEMMA Indices ==
    ASSUME TypeInv
    PROVE  /\ DOMAIN script = 1..Len(script) /\ DOMAIN taken = 1..Len(script)
           /\ Len(script) \in Nat /\ cur \in 1..(Len(script) + 1)
           /\ \A k \in 1..Len(script) : script[k] \in Step
           /\ \A k \in 1..Len(script) : taken[k] \subseteq LinkID \X Arrival
           /\ sent \in Seq(Transmission)
BY DEF TypeInv, TypeOK

\* Steps below one step are below a later one.
LEMMA Below == \A a, b \in Nat : a <= b => 1..(a - 1) \subseteq 1..(b - 1)
OBVIOUS

\* A step of the rig that neither reads nor sends a packet.
LEMMA NothingReadOrSent ==
    ASSUME PacketInv, UNCHANGED <<script, taken, sent>>, cur' \in {cur, cur + 1},
           pc = "crashed" => pc' = "crashed" /\ cur' = cur
    PROVE  Packets'
<1>1. cur \in Nat
  BY Indices DEF PacketInv, Inv
<1>2. References' /\ Compared'
  BY DEF PacketInv, References, Compared, Compares
<1>3. Answered'
  <2>1. ASSUME NEW k \in 1..(cur - 1) PROVE k \in 1..(cur' - 1)
    <3>1. cur' \in Nat /\ cur <= cur'
      BY <1>1
    <3> QED BY <1>1, <3>1, Below
  <2> QED BY <2>1 DEF PacketInv, Answered
<1> QED BY <1>2, <1>3 DEF Packets

\* A step that ended moves the script on by at most one step.
LEMMA StepReturnsMoves ==
    ASSUME NEW res, StepReturns(res)
    PROVE  cur' \in {cur, cur + 1}
BY DEF StepReturns

\* Adding a step to a script that has not run.
LEMMA AppendPackets ==
    ASSUME PacketInv, TypeInv', NEW s, AppendStep(s),
           s.op # "send" => s.step \in 1..Len(script)
    PROVE  Packets'
<1>1. /\ pc = "build" /\ cur = 1 /\ UNCHANGED <<cur, sent>>
      /\ \A k \in 1..Len(script) : taken[k] = {}
  BY DEF PacketInv, Inv, Evidence, Untouched, AppendStep
<1>2. /\ DOMAIN script = 1..Len(script) /\ Len(script) \in Nat
      /\ script \in Seq(Step) /\ taken \in Seq(SUBSET (LinkID \X Arrival)) /\ Len(taken) = Len(script)
  BY DEF PacketInv, Inv, TypeInv, TypeOK
<1>3. /\ Len(script') = Len(script) + 1 /\ script'[Len(script) + 1] = s
      /\ \A k \in 1..Len(script) : script'[k] = script[k]
      /\ \A k \in 1..Len(script') : taken'[k] = {}
  BY <1>1, <1>2 DEF AppendStep
<1>4. References'
  <2> SUFFICES ASSUME NEW k \in 1..Len(script'), script'[k].op # "send"
               PROVE  script'[k].step \in 1..(k - 1)
    BY DEF References
  <2>1. CASE k = Len(script) + 1
    BY <1>2, <1>3, <2>1
  <2>2. CASE k \in 1..Len(script)
    BY <1>3, <2>2 DEF PacketInv, References
  <2> QED BY <1>2, <1>3, <2>1, <2>2
<1>5. Compared'
  BY <1>3 DEF Compared
<1>6. Answered'
  <2>1. 1..(cur - 1) = {}
    BY <1>1
  <2>2. DOMAIN sent = {}
    BY <2>1 DEF PacketInv, Answered
  <2> QED BY <1>1, <2>2 DEF Answered
<1> QED BY <1>4, <1>5, <1>6 DEF Packets

LEMMA AddStepPackets == PacketInv /\ AddStep => Packets'
<1> SUFFICES ASSUME PacketInv, AddStep PROVE Packets'
  OBVIOUS
<1>1. TypeInv' /\ DOMAIN script = 1..Len(script)
  BY AddStepTyped, Indices DEF PacketInv, Inv
<1>2. PICK s : AppendStep(s) /\ (s.op # "send" => s.step \in 1..Len(script))
  <2>1. ASSUME NEW p \in Outgoing, NEW l \in LinkID, AddSendStep(p, l)
        PROVE  \E s : AppendStep(s) /\ (s.op # "send" => s.step \in 1..Len(script))
    BY <2>1 DEF AddSendStep, CreateSendStep
  <2>2. ASSUME NEW s \in DOMAIN script, NEW p \in Outgoing, AddRespondStep(s, p)
        PROVE  \E t : AppendStep(t) /\ (t.op # "send" => t.step \in 1..Len(script))
    BY <1>1, <2>2 DEF AddRespondStep, CreateRespondStep
  <2>3. ASSUME NEW op \in ReceiveOp, NEW s \in DOMAIN script, NEW listed \in Listings,
               NEW junk \in SUBSET VaJunk, AddReceiveStep(op, s, listed, junk)
        PROVE  \E t : AppendStep(t) /\ (t.op # "send" => t.step \in 1..Len(script))
    <3>1. CreateReceive(op, s, listed, junk).step = s
      BY DEF CreateReceive
    <3> QED BY <1>1, <2>3, <3>1 DEF AddReceiveStep
  <2> QED BY <2>1, <2>2, <2>3 DEF AddStep
<1> QED BY <1>1, <1>2, AppendPackets

\* A send: the step is over with it, and a respond step found its link among those recorded.
LEMMA SendPackets == PacketInv /\ ExecuteSendStep => Packets'
<1> SUFFICES ASSUME PacketInv, ExecuteSendStep PROVE Packets'
  OBVIOUS
<1>1. /\ cur \in 1..Len(script) /\ pc = "step" /\ script[cur].op \in SendOp
      /\ UNCHANGED <<script, taken>> /\ cur \in Nat /\ sent \in Seq(Transmission)
      /\ result.passed /\ result \in ResultType
  <2>1. TypeInv /\ DataTyped /\ result \in ResultType /\ sent \in Seq(Transmission)
    BY TypeParts, Indices DEF PacketInv, Inv, ControlTyped
  <2>2. cur \in 1..Len(script) /\ pc = "step" /\ script[cur].op \in SendOp
    BY <2>1, ExecutingInScript DEF ExecuteSendStep, Executing
  <2> QED BY <2>1, <2>2 DEF ExecuteSendStep, PacketInv, Inv, Evidence, RunningLoop
<1>2. PICK l \in LinkID :
         /\ l \in LinkVector(cur)
         /\ sent' = Append(sent, [step |-> cur, link |-> l, packet |-> script[cur].packet])
  BY DEF ExecuteSendStep, IsNextBitSet
<1>3. cur' = cur + 1
  <2>1. LogPacket(result, script[cur].packet).passed = result.passed
    BY <1>1 DEF LogPacket, ResultType
  <2> QED BY <1>1, <2>1 DEF ExecuteSendStep, StepReturns, IsFailure
<1>4. script[cur].op = "respond" => l \in ReadLinks(taken[script[cur].step])
  <2> SUFFICES ASSUME script[cur].op = "respond" PROVE l \in ReadLinks(taken[script[cur].step])
    OBVIOUS
  <2>1. script[cur].step \in 1..Len(script)
    BY <1>1, Indices DEF PacketInv, Inv, References
  <2>2. LinkVector(cur) = received[script[cur].step]
    BY DEF LinkVector
  <2> QED BY <1>2, <2>1, <2>2 DEF PacketInv, Inv, Evidence, Recorded
<1>5. Answered'
  <2> SUFFICES ASSUME NEW i \in DOMAIN sent'
               PROVE  /\ sent'[i].step \in 1..cur
                      /\ script[sent'[i].step].op = "respond" =>
                            sent'[i].link \in ReadLinks(taken[script[sent'[i].step].step])
    BY <1>1, <1>3 DEF Answered
  <2>1. CASE i \in DOMAIN sent
    <3>1. sent'[i] = sent[i]
      BY <1>1, <1>2, <2>1
    <3> QED BY <1>1, <2>1, <3>1 DEF PacketInv, Answered
  <2>2. CASE i \notin DOMAIN sent
    <3>1. sent'[i] = [step |-> cur, link |-> l, packet |-> script[cur].packet]
      BY <1>1, <1>2, <2>2
    <3> QED BY <1>1, <1>4, <3>1
  <2> QED BY <2>1, <2>2
<1>6. References' /\ Compared'
  BY <1>1 DEF PacketInv, References, Compared, Compares
<1> QED BY <1>5, <1>6 DEF Packets

\* A packet is read: it is compared with that of the reference, or the rig goes down.
LEMMA MessagePackets == PacketInv /\ MessageStep => Packets'
<1> SUFFICES ASSUME PacketInv, NEW l \in LinkID, NEW p \in Arrival,
                    \/ ReceiveAllMessage(l, p) \/ ReceiveOneMessage(l, p)
                    \/ ReceiveNoneMessage(l, p) \/ CrashOnNullPacket(l, p)
             PROVE  Packets'
  BY DEF MessageStep
<1>1. Inv /\ Executing(ReceiveOp) /\ Reads(l, p)
  BY DEF PacketInv, ReceiveAllMessage, ReceiveOneMessage, ReceiveNoneMessage, CrashOnNullPacket,
         Executing, ReceiveOp
<1>2. /\ TypeInv /\ pc = "step" /\ cur \in 1..Len(script) /\ UNCHANGED <<script, sent>>
      /\ \A k \in 1..Len(script) : k # cur => taken'[k] = taken[k]
  BY <1>1, MessageReads DEF Reads
<1>3. cur' \in {cur, cur + 1}
  BY StepReturnsMoves
     DEF ReceiveAllMessage, ReceiveOneMessage, ReceiveNoneMessage, CrashOnNullPacket
<1>4. References'
  BY <1>2 DEF PacketInv, References
<1>5. Compared'
  <2>1. Compares(cur) => \/ script[script[cur].step].packet # NoPacket
                         \/ pc' = "crashed" /\ cur' = cur
    BY DEF Compares, ReceiveAllMessage, ReceiveOneMessage, ReceiveNoneMessage, CrashOnNullPacket,
           Executing, ReferencePacket
  <2> SUFFICES ASSUME NEW k \in 1..Len(script), taken'[k] # {}, Compares(k),
                      ~(pc' = "crashed" /\ k = cur')
               PROVE  script[script[k].step].packet # NoPacket
    BY <1>2 DEF Compared, Compares
  <2>2. CASE k = cur
    BY <2>1, <2>2
  <2>3. CASE k # cur
    BY <1>2, <2>3 DEF PacketInv, Compared
  <2> QED BY <2>2, <2>3
<1>6. Answered'
  <2>1. cur \in Nat /\ Len(script) \in Nat /\ cur <= Len(script)
    BY <1>2, Indices
  <2> SUFFICES ASSUME NEW i \in DOMAIN sent
               PROVE  /\ sent[i].step \in 1..(cur' - 1)
                      /\ script[sent[i].step].op = "respond" =>
                            sent[i].link \in ReadLinks(taken'[script[sent[i].step].step])
    BY <1>2 DEF Answered
  <2>2. sent[i].step \in 1..(cur - 1) /\ sent[i].step \in 1..Len(script)
    BY <2>1 DEF PacketInv, Answered
  <2>3. ASSUME script[sent[i].step].op = "respond"
        PROVE  taken'[script[sent[i].step].step] = taken[script[sent[i].step].step]
    <3>1. script[sent[i].step].step \in 1..(sent[i].step - 1)
      BY <2>2, <2>3 DEF PacketInv, References
    <3>2. script[sent[i].step].step \in 1..Len(script) /\ script[sent[i].step].step # cur
      BY <2>1, <2>2, <3>1
    <3> QED BY <1>2, <3>2
  <2>4. sent[i].step \in 1..(cur' - 1)
    BY <1>3, <2>1, <2>2
  <2> QED BY <2>3, <2>4 DEF PacketInv, Answered
<1> QED BY <1>4, <1>5, <1>6 DEF Packets

\* Every other step neither reads nor sends.
LEMMA OthersPackets ==
    PacketInv /\ (\/ Execute \/ TimeoutStep \/ LoopReturns \/ CrashOnNullLink \/ ScriptReturns
                  \/ Forwarder \/ UNCHANGED vars) => Packets'
<1> SUFFICES ASSUME PacketInv,
                    \/ Execute \/ TimeoutStep \/ LoopReturns \/ CrashOnNullLink \/ ScriptReturns
                    \/ Forwarder \/ UNCHANGED vars
             PROVE  Packets'
  OBVIOUS
<1>1. UNCHANGED <<script, taken, sent>>
  BY DEF Execute, TimeoutStep, ReceiveAllTimeout, ReceiveOneTimeout, ReceiveNoneTimeout, ReadsNothing,
         LoopReturns, ReceiveAllReturns, ReceiveOneReturns, ReceiveNoneReturns, CrashOnNullLink,
         ScriptReturns, Forwarder, vars, historyVars
<1>2. cur' \in {cur, cur + 1}
  BY StepReturnsMoves
     DEF Execute, TimeoutStep, ReceiveAllTimeout, ReceiveOneTimeout, ReceiveNoneTimeout,
         LoopReturns, ReceiveAllReturns, ReceiveOneReturns, ReceiveNoneReturns, CrashOnNullLink,
         ScriptReturns, Forwarder, vars
<1>3. pc = "crashed" => pc' = "crashed" /\ cur' = cur
  BY DEF Execute, TimeoutStep, ReceiveAllTimeout, ReceiveOneTimeout, ReceiveNoneTimeout, Executing,
         LoopReturns, ReceiveAllReturns, ReceiveOneReturns, ReceiveNoneReturns, CrashOnNullLink,
         ScriptReturns, Forwarder, vars
<1> QED BY <1>1, <1>2, <1>3, NothingReadOrSent

LEMMA InitPackets == Init => PacketInv
<1> SUFFICES ASSUME Init PROVE References /\ Compared /\ Answered
  BY InitEvidence DEF PacketInv
<1>1. Len(script) = 0 /\ DOMAIN sent = {}
  BY DEF Init
<1> QED BY <1>1 DEF References, Compared, Answered

LEMMA PacketInvariant == Spec => []PacketInv
<1>1. PacketInv /\ [Next]_vars => PacketInv'
  <2>1. PacketInv /\ [Next]_vars => Inv'
    BY NextEvidence DEF PacketInv
  <2>2. PacketInv /\ [Next]_vars => Packets'
    BY AddStepPackets, SendPackets, MessagePackets, OthersPackets DEF Next, Rig, PromptStep
  <2> QED BY <2>1, <2>2 DEF PacketInv, Packets
<1> QED BY <1>1, InitPackets, PTL DEF Spec

------------------------------------------------------------------------------
\* A step that is over and has read something accepted all it read.
LEMMA PastReadingsMatch ==
    ASSUME PacketInv, NEW k \in 1..(cur - 1), taken[k] # {}
    PROVE  k \in 1..Len(script) /\ Compares(k) /\ ReadLinksMatch(k)
<1>1. k \in 1..Len(script) /\ script[k] \in Step /\ Satisfied(script, k, taken[k])
  BY Indices DEF PacketInv, Inv, Evidence, Past
<1>2. script[k].op \in ReceiveOp \cup SendOp
  BY <1>1 DEF Step
<1>3. script[k].op \notin SendOp \cup {"receiveNone"}
  BY <1>1 DEF Satisfied, SendOp
<1>4. Compares(k)
  BY <1>2, <1>3 DEF Compares, ReceiveOp
<1>5. ReadLinksMatch(k)
  BY <1>1, <1>3, <1>4 DEF Satisfied, Compares, ReadLinksMatch, SendOp
<1> QED BY <1>1, <1>4, <1>5

\* An Interest that matches the one sent differs from it in the hop it lost and in nothing else.
LEMMA MatchingInterests ==
    ASSUME NEW p \in PacketRecord, NEW q \in PacketRecord, Matches(p, q), q.type = "interest"
    PROVE  q = Forwarded(p)
<1>1. p.type = "interest"
  BY DEF Matches, TypesMatch, MessageType
<1>2. WrongFields(p, q) = {}
  BY <1>1 DEF Matches, ValidPacketPair, ValidInterestPair
<1>3. /\ p.hopLimit = q.hopLimit + 1 /\ p.lifetime = q.lifetime /\ p.name = q.name
      /\ p.keyId = q.keyId /\ p.hash = q.hash
  BY <1>2 DEF WrongFields
<1>4. Forwarded(p) = [p EXCEPT !.hopLimit = p.hopLimit - 1]
  BY <1>1 DEF Forwarded
<1> QED BY <1>1, <1>3, <1>4 DEF PacketRecord, HopLimit

\* An Interest a step accepted is the one it was waiting for, one hop shorter: for scripts of any
\* length and any packets.
THEOREM AcceptedInterests == Spec => []AcceptedInterestsLostOneHop
<1>1. PacketInv => AcceptedInterestsLostOneHop
  <2> SUFFICES ASSUME PacketInv, NEW k \in 1..(cur - 1), NEW r \in taken[k], r[2].type = "interest"
               PROVE  r[2] = Forwarded(script[script[k].step].packet)
    BY DEF AcceptedInterestsLostOneHop
  <2>1. k \in 1..Len(script) /\ Compares(k) /\ ReadLinksMatch(k)
    BY PastReadingsMatch
  <2>2. Matches(script[script[k].step].packet, r[2])
    BY <2>1 DEF ReadLinksMatch
  <2>3. r[2] \in PacketRecord
    <3>1. r \in LinkID \X Arrival
      BY <2>1, Indices DEF PacketInv, Inv
    <3> QED BY <3>1, ScriptStepAssumption, PacketAssumption
  <2>4. script[script[k].step].packet \in PacketRecord
    <3>1. k \in Nat /\ cur \in Nat /\ k # cur
      BY Indices DEF PacketInv, Inv
    <3>2. script[k].step \in 1..Len(script)
      BY <2>1, <3>1, Indices DEF PacketInv, Inv, References, Compares
    <3>3. script[script[k].step].packet # NoPacket
      BY <2>1, <3>1 DEF PacketInv, Compared
    <3>4. script[script[k].step].packet \in Packet \cup {NoPacket}
      BY <3>2, Indices DEF PacketInv, Inv, Step
    <3> QED BY <3>3, <3>4, PacketAssumption
  <2> QED BY <2>2, <2>3, <2>4, MatchingInterests
<1> QED BY <1>1, PacketInvariant, PTL

\* An answer goes only to a link on which the step it answers read a packet it accepted.
THEOREM Responses == Spec => []ResponsesReturnToReceivers
<1>1. PacketInv => ResponsesReturnToReceivers
  <2> SUFFICES ASSUME PacketInv, NEW i \in DOMAIN sent, script[sent[i].step].op = "respond"
               PROVE  /\ \E r \in taken[script[sent[i].step].step] : r[1] = sent[i].link
                      /\ ReadLinksMatch(script[sent[i].step].step)
    BY DEF ResponsesReturnToReceivers
  <2> DEFINE k == sent[i].step
  <2>1. k \in 1..(cur - 1) /\ sent[i].link \in ReadLinks(taken[script[k].step])
    BY DEF PacketInv, Answered
  <2>2. cur \in 1..(Len(script) + 1) /\ Len(script) \in Nat
    BY Indices DEF PacketInv, Inv
  <2>3. script[k].step \in 1..(cur - 1)
    <3>1. k \in 1..Len(script)
      BY <2>1, <2>2
    <3>2. script[k].step \in 1..(k - 1)
      BY <3>1 DEF PacketInv, References
    <3> QED BY <2>1, <2>2, <3>2
  <2>4. \E r \in taken[script[k].step] : r[1] = sent[i].link
    BY <2>1 DEF ReadLinks
  <2>5. ReadLinksMatch(script[k].step)
    BY <2>3, <2>4, PastReadingsMatch
  <2> QED BY <2>4, <2>5
<1> QED BY <1>1, PacketInvariant, PTL

------------------------------------------------------------------------------
(* The reason of a failure. *)

WrongReading(expected, readings) ==
    \E r \in readings : TypesMatch(expected, r[2]) /\ ~Matches(expected, r[2])

\* The readings of the step at index k of plan are a reason of this kind to fail.
BorneOut(plan, k, readings, why) ==
    LET expected == plan[plan[k].step].packet
    IN  \/ why = "timeout"    /\ plan[k].op = "receiveAll" /\ ReadLinks(readings) # plan[k].links
        \/ why = "no message" /\ plan[k].op = "receiveOne" /\ readings = {}
        \/ why = "unexpected" /\ plan[k].op = "receiveNone" /\ readings # {}
        \/ why = "type"       /\ \E r \in readings : ~TypesMatch(expected, r[2])
        \/ why = "field"      /\ WrongReading(expected, readings)

\* A step that has failed and is still polling has read a wrong packet; a script that failed says why.
Reasons ==
    /\ pc = "step" /\ cur \in 1..Len(script) /\ ~result.passed =>
          result.reason = "field" /\ WrongReading(ReferencePacket, taken[cur])
    /\ pc = "returned" /\ ~result.passed => BorneOut(script, cur, taken[cur], result.reason)

\* A step that returns passes, or its readings bear its reason out.
LEMMA StepOverReasons ==
    ASSUME NEW res, StepReturns(res), UNCHANGED script,
           res.passed \/ BorneOut(script, cur, taken'[cur], res.reason)
    PROVE  Reasons'
BY DEF StepReturns, IsFailure, Reasons

LEMMA FailureReason ==
    ASSUME NEW r \in ResultType, NEW why \in Reason
    PROVE  SetFail(r, why).reason = why
BY DEF SetFail, ResultType

LEMMA TimeoutReasons == Inv /\ Reasons /\ TimeoutStep => Reasons'
<1> SUFFICES ASSUME Inv, Reasons, NEW l \in LinkID,
                    ReceiveAllTimeout(l) \/ ReceiveOneTimeout(l) \/ ReceiveNoneTimeout(l)
             PROVE  Reasons'
  BY DEF TimeoutStep
<1>1. /\ TypeInv /\ DataTyped /\ result \in ResultType /\ Executing(ReceiveOp) /\ NextLink(l)
      /\ UNCHANGED <<script, taken>>
  BY TypeParts DEF Inv, ControlTyped, ReceiveAllTimeout, ReceiveOneTimeout, ReceiveNoneTimeout,
                   Executing, ReadsNothing, ReceiveOp, historyVars
<1>2. CASE ReceiveAllTimeout(l)
  <2>1. script[cur].op = "receiveAll" /\ pc = "step" /\ cur \in 1..Len(script)
    BY <1>1, <1>2, ExecutingInScript DEF ReceiveAllTimeout, Executing
  <2>2. ReadLinks(taken[cur]) # script[cur].links
    BY <1>1, <2>1, PollsNextLink DEF Inv, Evidence, RunningLoop
  <2>3. SetFail(result, "timeout").reason = "timeout"
    BY <1>1, FailureReason DEF Reason
  <2>4. BorneOut(script, cur, taken'[cur], SetFail(result, "timeout").reason)
    BY <1>1, <2>1, <2>2, <2>3 DEF BorneOut
  <2> QED BY <1>1, <1>2, <2>4, StepOverReasons DEF ReceiveAllTimeout
<1>3. CASE ReceiveOneTimeout(l) \/ ReceiveNoneTimeout(l)
  BY <1>1, <1>3 DEF ReceiveOneTimeout, ReceiveNoneTimeout, Reasons, ReferencePacket
<1> QED BY <1>2, <1>3

\* A packet of the right type and the wrong contents leaves a failure behind, and a right one none.
LEMMA CheckedReason ==
    ASSUME Reasons, pc = "step", cur \in 1..Len(script), result \in ResultType, NEW l, NEW p,
           TypesMatch(ReferencePacket, p), taken'[cur] = taken[cur] \cup {<<l, p>>},
           result' = Checked(p), ~result'.passed
    PROVE  result'.reason = "field" /\ WrongReading(ReferencePacket, taken'[cur])
<1>1. CASE ValidPacketPair(ReferencePacket, p)
  <2>1. result' = result
    BY <1>1 DEF Checked
  <2>2. result.reason = "field" /\ WrongReading(ReferencePacket, taken[cur])
    BY <2>1 DEF Reasons
  <2> QED BY <2>1, <2>2 DEF WrongReading
<1>2. CASE ~ValidPacketPair(ReferencePacket, p)
  <2>1. result'.reason = "field"
    BY <1>2, FailureReason DEF Checked, Reason
  <2>2. <<l, p>> \in taken'[cur] /\ <<l, p>>[2] = p
    OBVIOUS
  <2> QED BY <1>2, <2>1, <2>2 DEF WrongReading, Matches
<1> QED BY <1>1, <1>2

LEMMA MessageReasons == Inv /\ Reasons /\ MessageStep => Reasons'
<1> SUFFICES ASSUME Inv, Reasons, NEW l \in LinkID, NEW p \in Arrival,
                    \/ ReceiveAllMessage(l, p) \/ ReceiveOneMessage(l, p)
                    \/ ReceiveNoneMessage(l, p) \/ CrashOnNullPacket(l, p)
             PROVE  Reasons'
  BY DEF MessageStep
<1>1. Executing(ReceiveOp) /\ Reads(l, p)
  BY DEF ReceiveAllMessage, ReceiveOneMessage, ReceiveNoneMessage, CrashOnNullPacket,
         Executing, ReceiveOp
<1>2. /\ result \in ResultType /\ pc = "step" /\ cur \in 1..Len(script) /\ UNCHANGED script
      /\ taken'[cur] = taken[cur] \cup {<<l, p>>}
  BY <1>1, MessageReads
<1>3. <<l, p>> \in taken'[cur] /\ <<l, p>>[2] = p
  BY <1>2
<1>4. CASE CrashOnNullPacket(l, p)
  BY <1>4 DEF CrashOnNullPacket, Reasons
<1>5. CASE ReceiveNoneMessage(l, p)
  <2>1. SetFail(result, "unexpected").reason = "unexpected"
    BY <1>2, FailureReason DEF Reason
  <2>2. BorneOut(script, cur, taken'[cur], SetFail(result, "unexpected").reason)
    BY <1>3, <1>5, <2>1 DEF BorneOut, ReceiveNoneMessage, Executing
  <2> QED BY <1>2, <1>5, <2>2, StepOverReasons DEF ReceiveNoneMessage
<1>6. CASE (ReceiveAllMessage(l, p) \/ ReceiveOneMessage(l, p)) /\ ~TypesMatch(ReferencePacket, p)
  <2>1. SetFail(result, "type").reason = "type"
    BY <1>2, FailureReason DEF Reason
  <2>2. BorneOut(script, cur, taken'[cur], SetFail(result, "type").reason)
    BY <1>3, <1>6, <2>1 DEF BorneOut, ReferencePacket
  <2> QED BY <1>2, <1>6, <2>2, StepOverReasons DEF ReceiveAllMessage, ReceiveOneMessage
<1>7. CASE (ReceiveAllMessage(l, p) \/ ReceiveOneMessage(l, p)) /\ TypesMatch(ReferencePacket, p)
  <2>1. result' = Checked(p) /\ UNCHANGED <<pc, cur>>
    BY <1>7 DEF ReceiveAllMessage, ReceiveOneMessage
  <2>2. ~result'.passed => result'.reason = "field" /\ WrongReading(ReferencePacket, taken'[cur])
    BY <1>2, <1>7, <2>1, CheckedReason
  <2> QED BY <1>2, <2>1, <2>2 DEF Reasons, ReferencePacket
<1> QED BY <1>4, <1>5, <1>6, <1>7

LEMMA LoopReturnsReasons == Inv /\ Reasons /\ LoopReturns => Reasons'
<1> SUFFICES ASSUME Inv, Reasons, LoopReturns PROVE Reasons'
  OBVIOUS
<1>1. DataTyped /\ result \in ResultType /\ Executing(ReceiveOp) /\ UNCHANGED <<script, taken>>
  BY TypeParts DEF Inv, ControlTyped, LoopReturns, ReceiveAllReturns, ReceiveOneReturns,
                   ReceiveNoneReturns, Executing, ReceiveOp, historyVars
<1>2. pc = "step" /\ cur \in 1..Len(script)
  BY <1>1, ExecutingInScript DEF Executing
<1>3. CASE StepReturns(result)
  <2>1. result.passed \/ BorneOut(script, cur, taken'[cur], result.reason)
    BY <1>1, <1>2 DEF Reasons, BorneOut, ReferencePacket
  <2> QED BY <1>1, <1>3, <2>1, StepOverReasons
<1>4. CASE ~StepReturns(result)
  <2>1. /\ script[cur].op = "receiveOne" /\ ~succeeded /\ ~failedAfterReceive
        /\ StepReturns(SetFail(result, "no message"))
    BY <1>4 DEF LoopReturns, ReceiveAllReturns, ReceiveOneReturns, ReceiveNoneReturns, Executing
  <2>2. taken[cur] = {}
    BY <1>2, <2>1 DEF Inv, Evidence, RunningLoop
  <2>3. SetFail(result, "no message").reason = "no message"
    BY <1>1, FailureReason DEF Reason
  <2>4. BorneOut(script, cur, taken'[cur], SetFail(result, "no message").reason)
    BY <1>1, <2>1, <2>2, <2>3 DEF BorneOut
  <2> QED BY <1>1, <2>1, <2>4, StepOverReasons
<1> QED BY <1>3, <1>4

\* A send cannot fail.
LEMMA SendReasons == Inv /\ Reasons /\ ExecuteSendStep => Reasons'
<1> SUFFICES ASSUME Inv, Reasons, ExecuteSendStep PROVE Reasons'
  OBVIOUS
<1>1. DataTyped /\ result \in ResultType
  BY TypeParts DEF Inv, ControlTyped
<1>2. pc = "step" /\ cur \in 1..Len(script) /\ script[cur].op \in SendOp
  BY <1>1, ExecutingInScript DEF ExecuteSendStep, Executing
<1>3. result.passed
  BY <1>2 DEF Inv, Evidence, RunningLoop
<1>4. LogPacket(result, script[cur].packet).passed
  BY <1>1, <1>3 DEF LogPacket, ResultType
<1> QED BY <1>4, StepOverReasons DEF ExecuteSendStep

LEMMA OthersReasons ==
    Inv /\ Reasons /\ (\/ AddStep \/ Execute \/ CrashOnNullLink \/ ScriptReturns \/ Forwarder
                       \/ UNCHANGED vars) => Reasons'
<1> SUFFICES ASSUME Inv, Reasons,
                    \/ AddStep \/ Execute \/ CrashOnNullLink \/ ScriptReturns \/ Forwarder
                    \/ UNCHANGED vars
             PROVE  Reasons'
  OBVIOUS
<1>1. CASE AddStep
  BY <1>1 DEF AddStep, AddSendStep, AddRespondStep, AddReceiveStep, AppendStep, Reasons
<1>2. CASE Execute
  BY <1>2 DEF Execute, Create, Reasons
<1>3. CASE CrashOnNullLink
  BY <1>3 DEF CrashOnNullLink, Reasons
<1>4. CASE ScriptReturns
  <2>1. SetPass(result).passed
    BY TypeParts DEF Inv, ControlTyped, SetPass, ResultType
  <2> QED BY <1>4, <2>1 DEF ScriptReturns, Reasons
<1>5. CASE Forwarder \/ UNCHANGED vars
  BY <1>5 DEF Forwarder, vars, historyVars, Reasons, ReferencePacket
<1> QED BY <1>1, <1>2, <1>3, <1>4, <1>5

\* The reason a failed test reports is one that the readings of its last step bear out.
THEOREM ReasonsAreEvidence == Spec => []ReasonIsEvidence
<1>1. Init => Inv /\ Reasons
  BY InitEvidence DEF Init, Reasons
<1>2. Inv /\ Reasons /\ [Next]_vars => Inv' /\ Reasons'
  BY NextEvidence, TimeoutReasons, MessageReasons, LoopReturnsReasons, SendReasons, OthersReasons
     DEF Next, Rig, PromptStep
<1>3. Inv /\ Reasons => ReasonIsEvidence
  <2> SUFFICES ASSUME Reasons, pc = "returned", ~result.passed,
                      BorneOut(script, cur, taken[cur], result.reason)
               PROVE  ReasonIsEvidence
    BY DEF Reasons, ReasonIsEvidence, IsFailure
  <2> QED BY DEF BorneOut, WrongReading, ReasonIsEvidence
<1> QED BY <1>1, <1>2, <1>3, PTL DEF Spec

=============================================================================
