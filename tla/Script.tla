-------------------------------- MODULE Script --------------------------------
(***************************************************************************)
(* Writing and executing a test script (ccnxTestrig_Script.c) against a    *)
(* forwarder that is a black box: it may deliver any packet of Arrival on  *)
(* any link at any time, or nothing at all.                                *)
(*                                                                         *)
(* The rig is one thread.  Between two calls of ReceiveWithTimeout the     *)
(* forwarder can act, so an action of the rig is one iteration of a        *)
(* receive loop, or a send, or the return of the script.                   *)
(***************************************************************************)
EXTENDS ScriptStep, TestResult

CONSTANTS Outgoing,    \* the packets the script's author sends
          Listings,    \* the sets of links the author lists for a receive step
          VaJunk,      \* the bits GetLinkVector may pick up behind its arguments
          MaxSteps     \* bound: the steps of a script

ASSUME ScriptAssumption ==
    /\ Outgoing \subseteq Packet
    /\ Listings \subseteq (SUBSET LinkID) \ {{}}
    /\ VaJunk \subseteq LinkBit
    /\ MaxSteps \in Nat

VARIABLES
    script,              \* the steps, in order
    received,            \* per step, the bits of its receivedLinkVector
    pc,                  \* "build", "step", "returned" or "crashed"
    cur,                 \* the step being executed, counted from 1
    bit,                 \* currentBit of the running receive loop
    succeeded,           \* locals of the receive-one loop
    failedAfterReceive,
    result,              \* the test result
    sent,                \* history: what was handed to a link, by which step
    taken                \* history: per step, the readings it made

loopVars == <<bit, succeeded, failedAfterReceive>>
historyVars == <<sent, taken>>
vars == <<script, received, pc, cur, loopVars, result, inbox, historyVars>>

Transmission == [step : Nat, link : LinkID, packet : Packet]

TypeOK ==
    /\ ChannelTypeOK
    /\ script \in Seq(Step)
    /\ received \in Seq(SUBSET LinkID)
    /\ taken \in Seq(SUBSET (LinkID \X Arrival))
    /\ Len(received) = Len(script) /\ Len(taken) = Len(script)
    /\ pc \in {"build", "step", "returned", "crashed"}
    /\ cur \in 1..(Len(script) + 1)
    /\ bit \in LinkID \cup {-1}
    /\ succeeded \in BOOLEAN /\ failedAfterReceive \in BOOLEAN
    /\ result \in [passed : BOOLEAN, reason : Reason \cup {"none"}, packetList : Seq(Packet)]
    /\ sent \in Seq(Transmission)

------------------------------------------------------------------------------
(* Writing a script: the Add...Step functions. *)

AppendStep(s) ==
    /\ pc = "build" /\ Len(script) < MaxSteps
    /\ script' = Append(script, s)
    /\ received' = Append(received, {})
    /\ taken' = Append(taken, {})
    /\ UNCHANGED <<pc, cur, loopVars, result, inbox, sent>>

AddSendStep(packet, linkId) == AppendStep(CreateSendStep(linkId, packet))

AddRespondStep(reference, packet) == AppendStep(CreateRespondStep(reference, packet))

AddReceiveStep(op, reference, listed, junk) ==
    AppendStep(CreateReceive(op, reference, listed, junk))

AddStep ==
    \/ \E p \in Outgoing, l \in LinkID : AddSendStep(p, l)
    \/ \E s \in DOMAIN script, p \in Outgoing : AddRespondStep(s, p)
    \/ \E op \in ReceiveOp, s \in DOMAIN script, listed \in Listings, junk \in SUBSET VaJunk :
          AddReceiveStep(op, s, listed, junk)

------------------------------------------------------------------------------
(* Executing it. *)

\* The vector a step works on; a respond step holds the one its reference fills in.
LinkVector(k) == IF script[k].op = "respond" THEN received[script[k].step] ELSE script[k].links

\* The lowest bit of v at or above from is b (parcBitVector_NextBitSet).
IsNextBitSet(v, from, b) == b \in v /\ b >= from /\ \A c \in v : c >= from => b <= c

NextLink(b) == IsNextBitSet(LinkVector(cur), bit + 1, b)

LoopDone == \A c \in LinkVector(cur) : c <= bit

Executing(ops) == pc = "step" /\ cur \in DOMAIN script /\ script[cur].op \in ops

ReferencePacket == script[script[cur].step].packet

\* Mutant: the loop over the steps does not look at the result.
StepReturnsGoOn(res) ==
    /\ result' = res
    /\ bit' = -1 /\ succeeded' = FALSE /\ failedAfterReceive' = FALSE
    /\ pc' = "step" /\ cur' = cur + 1

\* A step's function returned res: stop at a failure, otherwise go on to the next step.
StepReturns(res) ==
    /\ result' = res
    /\ bit' = -1 /\ succeeded' = FALSE /\ failedAfterReceive' = FALSE
    /\ IF IsFailure(res) THEN pc' = "returned" /\ cur' = cur
                         ELSE pc' = "step" /\ cur' = cur + 1

Execute ==
    /\ pc = "build"
    /\ pc' = "step" /\ result' = Create
    /\ UNCHANGED <<script, received, cur, loopVars, inbox, historyVars>>

\* Mutant: a respond step answers on any link of the rig.
ExecuteSendStepAnywhere ==
    /\ Executing(SendOp)
    /\ \E l \in LinkID :
          sent' = Append(sent, [step |-> cur, link |-> l, packet |-> script[cur].packet])
    /\ StepReturns(LogPacket(result, script[cur].packet))
    /\ UNCHANGED <<script, received, inbox, taken>>

ExecuteSendStep ==
    /\ Executing(SendOp)
    /\ \E l \in LinkID :
          /\ IsNextBitSet(LinkVector(cur), 0, l)
          /\ sent' = Append(sent, [step |-> cur, link |-> l, packet |-> script[cur].packet])
    /\ StepReturns(LogPacket(result, script[cur].packet))
    /\ UNCHANGED <<script, received, inbox, taken>>

\* Mutant: the receivedLinkVector is not updated.
ReadsUnrecorded(l, p) ==
    /\ NextLink(l) /\ Receives(l, p)
    /\ taken' = [taken EXCEPT ![cur] = @ \cup {<<l, p>>}]
    /\ UNCHANGED <<script, sent, received>>

\* The running step reads packet p from link l and records the link.
Reads(l, p) ==
    /\ NextLink(l) /\ Receives(l, p)
    /\ received' = [received EXCEPT ![cur] = @ \cup {l}]
    /\ taken' = [taken EXCEPT ![cur] = @ \cup {<<l, p>>}]
    /\ UNCHANGED <<script, sent>>

ReadsNothing(l) ==
    /\ NextLink(l) /\ ReceivesNothing(l)
    /\ UNCHANGED <<script, received, historyVars>>

\* The result after packet p was compared with the referenced packet.
Checked(p) == IF ValidPacketPair(ReferencePacket, p) THEN result ELSE SetFail(result, "field")

ReceiveAllTimeout(l) ==
    /\ Executing({"receiveAll"}) /\ ReadsNothing(l)
    /\ StepReturns(SetFail(result, "timeout"))

ReceiveAllMessage(l, p) ==
    /\ Executing({"receiveAll"}) /\ Reads(l, p) /\ ReferencePacket # NoPacket
    /\ IF TypesMatch(ReferencePacket, p)
       THEN /\ result' = Checked(p) /\ bit' = l
            /\ UNCHANGED <<pc, cur, succeeded, failedAfterReceive>>
       ELSE StepReturns(SetFail(result, "type"))

ReceiveAllReturns ==
    /\ Executing({"receiveAll"}) /\ LoopDone
    /\ StepReturns(result)
    /\ UNCHANGED <<script, received, inbox, historyVars>>

\* Mutant: a link that stayed silent is polled again.
ReceiveOneTimeoutRetries(l) ==
    /\ Executing({"receiveOne"}) /\ ReadsNothing(l)
    /\ UNCHANGED <<pc, cur, loopVars, result>>

ReceiveOneTimeout(l) ==
    /\ Executing({"receiveOne"}) /\ ReadsNothing(l)
    /\ bit' = l
    /\ UNCHANGED <<pc, cur, succeeded, failedAfterReceive, result>>

ReceiveOneMessage(l, p) ==
    /\ Executing({"receiveOne"}) /\ Reads(l, p) /\ ReferencePacket # NoPacket
    /\ IF TypesMatch(ReferencePacket, p)
       THEN /\ result' = Checked(p) /\ bit' = l
            /\ succeeded' = (succeeded \/ ~IsFailure(result'))
            /\ failedAfterReceive' = (failedAfterReceive \/ IsFailure(result'))
            /\ UNCHANGED <<pc, cur>>
       ELSE StepReturns(SetFail(result, "type"))

\* Mutant: a step that heard only wrong packets is reported as one that heard nothing.
ReceiveOneReturnsForgets ==
    /\ Executing({"receiveOne"}) /\ LoopDone
    /\ StepReturns(IF ~succeeded THEN SetFail(result, "no message") ELSE result)
    /\ UNCHANGED <<script, received, inbox, historyVars>>

\* Mutant: a receive-one step that heard nothing is left as it is.
ReceiveOneReturnsUnchecked ==
    /\ Executing({"receiveOne"}) /\ LoopDone
    /\ StepReturns(result)
    /\ UNCHANGED <<script, received, inbox, historyVars>>

ReceiveOneReturns ==
    /\ Executing({"receiveOne"}) /\ LoopDone
    /\ StepReturns(IF ~succeeded /\ ~failedAfterReceive THEN SetFail(result, "no message")
                                                        ELSE result)
    /\ UNCHANGED <<script, received, inbox, historyVars>>

ReceiveNoneTimeout(l) ==
    /\ Executing({"receiveNone"}) /\ ReadsNothing(l)
    /\ bit' = l
    /\ UNCHANGED <<pc, cur, succeeded, failedAfterReceive, result>>

ReceiveNoneMessage(l, p) ==
    /\ Executing({"receiveNone"}) /\ Reads(l, p)
    /\ StepReturns(SetFail(result, "unexpected"))

ReceiveNoneReturns ==
    /\ Executing({"receiveNone"}) /\ LoopDone
    /\ StepReturns(result)
    /\ UNCHANGED <<script, received, inbox, historyVars>>

\* A link function is called on NULL: GetLinkByID knows no link for the bit, or there is no bit.
CrashOnNullLink ==
    /\ \/ Executing(SendOp) /\ \A l \in LinkID : ~IsNextBitSet(LinkVector(cur), 0, l)
       \/ Executing(ReceiveOp) /\ ~LoopDone /\ \A l \in LinkID : ~NextLink(l)
    /\ pc' = "crashed"
    /\ UNCHANGED <<script, received, cur, loopVars, result, inbox, historyVars>>

\* A packet is compared with that of a step that has none.
CrashOnNullPacket(l, p) ==
    /\ Executing({"receiveOne", "receiveAll"}) /\ Reads(l, p) /\ ReferencePacket = NoPacket
    /\ pc' = "crashed"
    /\ UNCHANGED <<cur, loopVars, result>>

\* Every step was executed without a failure.
ScriptReturns ==
    /\ pc = "step" /\ cur = Len(script) + 1
    /\ pc' = "returned" /\ result' = SetPass(result)
    /\ UNCHANGED <<script, received, cur, loopVars, inbox, historyVars>>

\* A poll that ends with NULL, one that ends with a packet, and the end of a receive loop.
TimeoutStep == \E l \in LinkID : ReceiveAllTimeout(l) \/ ReceiveOneTimeout(l) \/ ReceiveNoneTimeout(l)

MessageStep ==
    \E l \in LinkID, p \in Arrival :
        \/ ReceiveAllMessage(l, p) \/ ReceiveOneMessage(l, p) \/ ReceiveNoneMessage(l, p)
        \/ CrashOnNullPacket(l, p)

LoopReturns == ReceiveAllReturns \/ ReceiveOneReturns \/ ReceiveNoneReturns

\* Everything the rig does between the first step and the return of the script but wait in vain.
PromptStep == ExecuteSendStep \/ MessageStep \/ LoopReturns \/ CrashOnNullLink \/ ScriptReturns

Rig == Execute \/ PromptStep \/ TimeoutStep

\* Packets that arrive while the script is written are there at its first step just as well.
Forwarder ==
    /\ pc # "build"
    /\ \E l \in LinkID, p \in Arrival : Deliver(l, p)
    /\ UNCHANGED <<script, received, pc, cur, loopVars, result, historyVars>>

Init ==
    /\ ChannelInit
    /\ script = <<>> /\ received = <<>> /\ taken = <<>> /\ sent = <<>>
    /\ pc = "build" /\ cur = 1 /\ result = Create
    /\ bit = -1 /\ succeeded = FALSE /\ failedAfterReceive = FALSE

Next == AddStep \/ Rig \/ Forwarder

Spec == Init /\ [][Next]_vars

\* The rig's thread runs, and every poll ends: after a message or at the latest after its timeout.
FairSpec == Spec /\ WF_vars(Rig)

------------------------------------------------------------------------------
(* What executing a script promises. *)

\* The steps up to which the verdict has been reached.
DecidedSteps == IF pc = "returned" /\ IsFailure(result) THEN cur ELSE cur - 1

ReadLinksMatch(k) ==
    \A r \in taken[k] : Matches(script[script[k].step].packet, r[2])

\* Executing a script, one poll at a time and with the forwarder acting in between, amounts to what
\* ScriptPromise says: every step is decided in order, once, on the packets it read, the first
\* unsatisfied one fails the script, and nothing but a malformed script brings the rig down.
Promise == INSTANCE ScriptPromise WITH
    plan     <- script,
    observed <- SubSeq(taken, 1, DecidedSteps),
    verdict  <- CASE pc = "crashed"  -> "crashed"
                  [] pc = "returned" -> IF result.passed THEN "pass" ELSE "fail"
                  [] OTHER           -> "open"

RefinesPromise == Promise!PromiseSpec

\* A script written the way the suite writes them never makes the rig call a link function or compare
\* a packet on NULL: GetLinkByID knows every link a vector holds, and a respond step finds at least
\* one link in the vector it shares because the step it answers cannot pass without a packet.
NeverCrashes == WellFormed(script) => pc # "crashed"

\* The verdict of a script is that of its steps: it passes if and only if every step was satisfied by
\* the packets it read itself, whatever the forwarder delivered before, between and after.
VerdictIsEvidence ==
    pc = "returned" =>
        (result.passed <=> \A k \in DOMAIN script : Satisfied(script, k, taken[k]))

\* The reason a failed test reports is one the readings of its last step bear out, so "no message"
\* is never said of a link that answered, nor "field" of packets that all match.
ReasonIsEvidence ==
    pc = "returned" /\ IsFailure(result) =>
        LET Expected == script[script[cur].step].packet
        IN  CASE result.reason = "timeout"    -> /\ script[cur].op = "receiveAll"
                                                 /\ ReadLinks(taken[cur]) # script[cur].links
              [] result.reason = "no message" -> script[cur].op = "receiveOne" /\ taken[cur] = {}
              [] result.reason = "unexpected" -> script[cur].op = "receiveNone" /\ taken[cur] # {}
              [] result.reason = "type"       -> \E r \in taken[cur] : ~TypesMatch(Expected, r[2])
              [] result.reason = "field"      -> \E r \in taken[cur] : /\ TypesMatch(Expected, r[2])
                                                                       /\ ~Matches(Expected, r[2])

\* An answer goes out only on a link on which the step it answers read a packet it accepted.
ResponsesReturnToReceivers ==
    \A i \in DOMAIN sent :
        LET s == script[sent[i].step]
        IN  s.op = "respond" => /\ \E r \in taken[s.step] : r[1] = sent[i].link
                                /\ ReadLinksMatch(s.step)

\* An Interest a passed step accepted is the one that was sent with exactly one hop less: nothing
\* else in it changed on its way through the forwarder.
AcceptedInterestsLostOneHop ==
    \A k \in 1..(cur - 1) : \A r \in taken[k] :
        LET sentPacket == script[script[k].step].packet
        IN  r[2].type = "interest" => r[2] = Forwarded(sentPacket)

\* A script that failed says nothing more to the forwarder.
NothingSentAfterFailure == [][IsFailure(result) => UNCHANGED sent]_vars

\* However many packets the forwarder keeps sending, an execution comes to an end.
ExecutionReturns == (pc = "step") ~> (pc \in {"returned", "crashed"})

------------------------------------------------------------------------------
(* What the headers say of the steps and the code does not do. *)

\* ccnxTestrig_Script.h: a respond step sends its packet to the links that received packets in the
\* referenced step; the code sends it to the lowest of them.
RespondReachesAllReceivers ==
    \A k \in 1..(cur - 1) :
        script[k].op = "respond" =>
            \A l \in received[script[k].step] :
                \E i \in DOMAIN sent : sent[i].step = k /\ sent[i].link = l

\* ccnxTestrig_Script.h: a receive-one step verifies that the packet matches the one that was sent, and
\* fails if not; the code looks at nothing but the type of a Content Object.
ReceivedContentIsWhatWasSent ==
    \A k \in 1..(cur - 1) :
        script[k].op = "receiveOne" =>
            \A r \in taken[k] : r[2].name = script[script[k].step].packet.name

\* ccnxTestrig.h: GetLinkVector returns the link masks indicated in the parameter list.
PollsOnlyListedLinks ==
    \A k \in DOMAIN script : ReadLinks(taken[k]) \subseteq script[k].listed

=============================================================================
