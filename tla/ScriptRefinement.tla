-------------------------- MODULE ScriptRefinement --------------------------
(***************************************************************************)
(* Executing a script, poll by poll, implements ScriptPromise, in which    *)
(* every step is decided at once.                                          *)
(***************************************************************************)
EXTENDS ScriptProofs

\* Two sequences that agree up to n have the same first n elements.
LEMMA SameFront ==
    ASSUME NEW S, NEW s \in Seq(S), NEW t \in Seq(S), NEW n \in Nat, n <= Len(s), n <= Len(t),
           \A i \in 1..n : t[i] = s[i]
    PROVE  SubSeq(t, 1, n) = SubSeq(s, 1, n)
OBVIOUS

\* One more element is appended to them.
LEMMA OneMore ==
    ASSUME NEW S, NEW s \in Seq(S), NEW t \in Seq(S), NEW n \in Nat, n < Len(s), n < Len(t),
           \A i \in 1..n : t[i] = s[i]
    PROVE  SubSeq(t, 1, n + 1) = Append(SubSeq(s, 1, n), t[n + 1])
OBVIOUS

\* The promise speaks of the same steps.
LEMMA SameWords ==
    /\ \A plan : Promise!WellFormed(plan) <=> WellFormed(plan)
    /\ \A plan, k, readings : Promise!Satisfied(plan, k, readings) <=> Satisfied(plan, k, readings)
BY DEF Promise!WellFormed, WellFormed, Promise!StepWellFormed, StepWellFormed,
       Promise!Satisfied, Satisfied, Promise!Matches, Matches, Promise!TypesMatch, TypesMatch,
       Promise!ReadLinks, ReadLinks, Promise!SendOp, SendOp,
       Promise!ValidPacketPair, ValidPacketPair

------------------------------------------------------------------------------
(* The ways a step of Script changes what the promise sees. *)

\* The steps other than the running one keep what they read.
OthersKeep == script' = script /\ \A k \in 1..Len(script) : k # cur => taken'[k] = taken[k]

\* The running step is over: it passed, or it failed and ended the script.
StepDecided ==
    /\ pc = "step" /\ cur \in 1..Len(script) /\ OthersKeep
    /\ \/ pc' = "step" /\ cur' = cur + 1
       \/ pc' = "returned" /\ cur' = cur /\ IsFailure(result')

\* It goes on, or nothing happened that the promise knows of.
NothingDecided ==
    /\ OthersKeep
    /\ \/ pc \in {"build", "step"} /\ pc' = "step" /\ cur' = cur
       \/ UNCHANGED <<pc, cur, result, taken>>

CrashesNow == pc = "step" /\ pc' = "crashed" /\ cur' = cur /\ OthersKeep

\* A poll in vain goes on or ends its step.
LEMMA TimeoutShape == Inv /\ TimeoutStep => StepDecided \/ NothingDecided
<1> SUFFICES ASSUME Inv, NEW l \in LinkID,
                    ReceiveAllTimeout(l) \/ ReceiveOneTimeout(l) \/ ReceiveNoneTimeout(l)
             PROVE  StepDecided \/ NothingDecided
  BY DEF TimeoutStep
<1>1. pc = "step" /\ cur \in 1..Len(script) /\ UNCHANGED <<script, taken>>
  BY ExecutingInScript, TypeParts
     DEF Inv, ReceiveAllTimeout, ReceiveOneTimeout, ReceiveNoneTimeout, Executing, ReadsNothing,
         historyVars
<1>2. CASE ReceiveAllTimeout(l)
  BY <1>1, <1>2 DEF ReceiveAllTimeout, StepReturns, StepDecided, OthersKeep
<1>3. CASE ReceiveOneTimeout(l) \/ ReceiveNoneTimeout(l)
  BY <1>1, <1>3 DEF ReceiveOneTimeout, ReceiveNoneTimeout, NothingDecided, OthersKeep
<1> QED BY <1>2, <1>3

\* So does a poll that read a packet, or it crashes.
LEMMA MessageShape == Inv /\ MessageStep => StepDecided \/ NothingDecided \/ CrashesNow
<1> SUFFICES ASSUME Inv, NEW l \in LinkID, NEW p \in Arrival,
                    \/ ReceiveAllMessage(l, p) \/ ReceiveOneMessage(l, p)
                    \/ ReceiveNoneMessage(l, p) \/ CrashOnNullPacket(l, p)
             PROVE  StepDecided \/ NothingDecided \/ CrashesNow
  BY DEF MessageStep
<1>1. pc = "step" /\ cur \in 1..Len(script) /\ Reads(l, p)
  BY ExecutingInScript, TypeParts
     DEF Inv, ReceiveAllMessage, ReceiveOneMessage, ReceiveNoneMessage, CrashOnNullPacket, Executing
<1>2. OthersKeep
  BY <1>1, ReadsEvidence DEF OthersKeep, Reads
<1>3. CASE ReceiveAllMessage(l, p)
  BY <1>1, <1>2, <1>3 DEF ReceiveAllMessage, StepReturns, StepDecided, NothingDecided
<1>4. CASE ReceiveOneMessage(l, p)
  BY <1>1, <1>2, <1>4 DEF ReceiveOneMessage, StepReturns, StepDecided, NothingDecided
<1>5. CASE ReceiveNoneMessage(l, p)
  BY <1>1, <1>2, <1>5 DEF ReceiveNoneMessage, StepReturns, StepDecided
<1>6. CASE CrashOnNullPacket(l, p)
  BY <1>1, <1>2, <1>6 DEF CrashOnNullPacket, CrashesNow
<1> QED BY <1>3, <1>4, <1>5, <1>6

\* The end of a receive loop and a send end their step.
LEMMA ReturnShape == Inv /\ (LoopReturns \/ ExecuteSendStep) => StepDecided
<1> SUFFICES ASSUME Inv, LoopReturns \/ ExecuteSendStep PROVE StepDecided
  OBVIOUS
<1>1. pc = "step" /\ cur \in 1..Len(script) /\ UNCHANGED <<script, taken>>
  BY ExecutingInScript, TypeParts
     DEF Inv, LoopReturns, ReceiveAllReturns, ReceiveOneReturns, ReceiveNoneReturns,
         ExecuteSendStep, Executing, historyVars
<1>2. PICK res : StepReturns(res)
  BY DEF LoopReturns, ReceiveAllReturns, ReceiveOneReturns, ReceiveNoneReturns, ExecuteSendStep
<1> QED BY <1>1, <1>2 DEF StepReturns, StepDecided, OthersKeep

LEMMA OtherShapes ==
    Inv /\ (Execute \/ CrashOnNullLink \/ Forwarder \/ UNCHANGED vars) => NothingDecided \/ CrashesNow
<1> SUFFICES ASSUME Inv, Execute \/ CrashOnNullLink \/ Forwarder \/ UNCHANGED vars
             PROVE  NothingDecided \/ CrashesNow
  OBVIOUS
<1>1. OthersKeep
  BY DEF Execute, CrashOnNullLink, Forwarder, vars, historyVars, OthersKeep
<1>2. CASE Execute
  BY <1>1, <1>2 DEF Execute, NothingDecided
<1>3. CASE CrashOnNullLink
  BY <1>1, <1>3 DEF CrashOnNullLink, Executing, CrashesNow
<1>4. CASE Forwarder \/ UNCHANGED vars
  BY <1>1, <1>4 DEF Forwarder, vars, historyVars, NothingDecided
<1> QED BY <1>2, <1>3, <1>4

------------------------------------------------------------------------------
(* What the promise sees. *)

Observed == SubSeq(taken, 1, DecidedSteps)

Verdict == CASE pc = "crashed"  -> "crashed"
             [] pc = "returned" -> IF result.passed THEN "pass" ELSE "fail"
             [] OTHER           -> "open"

\* The readings observed are those of the steps decided.
LEMMA ObservedLength ==
    ASSUME Inv, DecidedSteps \in 0..Len(script)
    PROVE  Observed \in Seq(SUBSET (LinkID \X Arrival)) /\ Len(Observed) = DecidedSteps
<1>1. taken \in Seq(SUBSET (LinkID \X Arrival)) /\ Len(taken) = Len(script) /\ Len(taken) \in Nat
  BY DEF Inv, TypeInv, TypeOK
<1>2. DecidedSteps \in 0..Len(taken)
  BY <1>1
<1> QED BY <1>1, <1>2, SubSeqProperties DEF Observed

\* While a script runs, the steps before the running one are decided.
LEMMA DecidedInRange ==
    ASSUME Inv PROVE /\ DecidedSteps \in 0..Len(script)
                     /\ pc # "returned" => DecidedSteps = cur - 1
<1>1. cur \in 1..(Len(script) + 1) /\ Len(script) \in Nat
  BY DEF Inv, TypeInv, TypeOK
<1> QED BY <1>1 DEF DecidedSteps, IsFailure, Inv, Evidence, Ended

\* Steps of which nothing changes stay as they were observed.
LEMMA ObservedStays ==
    ASSUME Inv, Inv', script' = script, DecidedSteps' = DecidedSteps,
           \A k \in 1..DecidedSteps : taken'[k] = taken[k]
    PROVE  Observed' = Observed
<1>1. /\ taken \in Seq(SUBSET (LinkID \X Arrival)) /\ Len(taken) = Len(script)
      /\ taken' \in Seq(SUBSET (LinkID \X Arrival)) /\ Len(taken') = Len(script)
      /\ Len(script) \in Nat
  BY DEF Inv, TypeInv, TypeOK
<1>2. DecidedSteps \in Nat /\ DecidedSteps <= Len(script)
  BY <1>1, DecidedInRange
<1>3. SubSeq(taken', 1, DecidedSteps) = SubSeq(taken, 1, DecidedSteps)
  BY <1>1, <1>2, SameFront
<1> QED BY <1>3 DEF Observed

\* The promise's step Decide, in these words.
LEMMA DecideInWords ==
    ASSUME Verdict = "open", Len(Observed) < Len(script), script' = script,
           Len(Observed') = Len(Observed) + 1,
           Observed' = Append(Observed, Observed'[Len(Observed) + 1]),
           Verdict' = IF Satisfied(script, Len(Observed) + 1, Observed'[Len(Observed) + 1])
                      THEN "open" ELSE "fail"
    PROVE  Promise!Decide
<1>1. Promise!Decided = Len(Observed)
  BY DEF Promise!Decided, Observed
<1>2. Promise!Satisfied(script, Len(Observed) + 1, Observed'[Len(Observed) + 1]) <=>
          Satisfied(script, Len(Observed) + 1, Observed'[Len(Observed) + 1])
  BY SameWords
<1>3. Verdict' = IF Promise!Satisfied(script, Len(Observed) + 1, Observed'[Len(Observed) + 1])
                 THEN "open" ELSE "fail"
  BY <1>2
<1> QED BY <1>1, <1>3 DEF Promise!Decide, Observed, Verdict

\* A step that is over is decided by the promise, on the same readings and the same way.
LEMMA DecidedMapsToDecide == Inv /\ Inv' /\ StepDecided => Promise!Decide
<1> SUFFICES ASSUME Inv, Inv', StepDecided PROVE Promise!Decide
  OBVIOUS
<1>1. /\ taken \in Seq(SUBSET (LinkID \X Arrival)) /\ Len(taken) = Len(script)
      /\ taken' \in Seq(SUBSET (LinkID \X Arrival)) /\ Len(taken') = Len(script)
      /\ cur \in 1..Len(script) /\ Len(script) \in Nat /\ script' = script
  BY DEF Inv, TypeInv, TypeOK, StepDecided, OthersKeep
<1>2. DecidedSteps = cur - 1 /\ DecidedSteps' = cur
  BY <1>1 DEF StepDecided, DecidedSteps, IsFailure
<1>3. Observed' = Append(Observed, taken'[cur]) /\ Len(Observed) = cur - 1 /\ Len(Observed') = cur
      /\ Observed'[cur] = taken'[cur]
  <2>1. /\ cur - 1 \in Nat /\ cur - 1 < Len(taken) /\ cur - 1 < Len(taken') /\ (cur - 1) + 1 = cur
        /\ \A k \in 1..(cur - 1) : taken'[k] = taken[k]
    BY <1>1 DEF StepDecided, OthersKeep
  <2>2. SubSeq(taken', 1, cur) = Append(SubSeq(taken, 1, cur - 1), taken'[cur])
    BY <1>1, <2>1, OneMore
  <2>3. Observed \in Seq(SUBSET (LinkID \X Arrival)) /\ Len(Observed) = cur - 1
    BY <1>2, DecidedInRange, ObservedLength
  <2>4. Observed' = Append(Observed, taken'[cur])
    BY <1>2, <2>2 DEF Observed
  <2> QED BY <1>1, <2>3, <2>4
<1>4. Verdict = "open"
  BY DEF StepDecided, Verdict
<1>5. Verdict' = IF Satisfied(script, cur, taken'[cur]) THEN "open" ELSE "fail"
  <2>1. CASE pc' = "step" /\ cur' = cur + 1
    <3>1. Satisfied(script', cur, taken'[cur])
      BY <1>1, <2>1 DEF Inv, Evidence, Past
    <3> QED BY <1>1, <2>1, <3>1 DEF Verdict
  <2>2. CASE pc' = "returned" /\ cur' = cur /\ IsFailure(result')
    <3>1. ~Satisfied(script', cur, taken'[cur])
      BY <2>2 DEF Inv, Evidence, Ended, IsFailure
    <3> QED BY <1>1, <2>2, <3>1 DEF Verdict, IsFailure
  <2> QED BY <2>1, <2>2 DEF StepDecided
<1>6. Len(Observed) + 1 = cur
  BY <1>1, <1>3
<1> QED BY <1>1, <1>3, <1>4, <1>5, <1>6, DecideInWords

\* A poll in between, the start of the execution and the forwarder are nothing to the promise.
LEMMA NothingMapsToStutter ==
    Inv /\ Inv' /\ NothingDecided => UNCHANGED <<script, Observed, Verdict>>
<1> SUFFICES ASSUME Inv, Inv', NothingDecided PROVE UNCHANGED <<script, Observed, Verdict>>
  OBVIOUS
<1>1. DecidedSteps' = DecidedSteps /\ UNCHANGED Verdict /\ script' = script
  BY DEF NothingDecided, OthersKeep, DecidedSteps, Verdict, IsFailure
<1>2. \A k \in 1..DecidedSteps : taken'[k] = taken[k]
  <2>1. CASE UNCHANGED taken
    BY <2>1
  <2>2. CASE pc \in {"build", "step"}
    <3>1. DecidedSteps = cur - 1 /\ DecidedSteps \in 0..Len(script)
      BY <2>2, DecidedInRange
    <3>2. cur \in Nat /\ Len(script) \in Nat
      BY DEF Inv, TypeInv, TypeOK
    <3> QED BY <3>1, <3>2 DEF NothingDecided, OthersKeep
  <2> QED BY <2>1, <2>2 DEF NothingDecided
<1> QED BY <1>1, <1>2, ObservedStays

\* A crash is one of the promise: the script was not well formed.
LEMMA CrashMapsToCrash == Inv /\ Inv' /\ CrashesNow => Promise!Crash
<1> SUFFICES ASSUME Inv, Inv', CrashesNow PROVE Promise!Crash
  OBVIOUS
<1>1. DecidedSteps = cur - 1 /\ DecidedSteps' = cur - 1 /\ script' = script
  BY DEF CrashesNow, OthersKeep, DecidedSteps
<1>2. \A k \in 1..DecidedSteps : taken'[k] = taken[k]
  <2>1. cur \in Nat /\ Len(script) \in Nat /\ DecidedSteps \in 0..Len(script)
    BY DecidedInRange DEF Inv, TypeInv, TypeOK
  <2> QED BY <1>1, <2>1 DEF CrashesNow, OthersKeep
<1>3. Observed' = Observed
  BY <1>1, <1>2, ObservedStays
<1>4. ~Promise!WellFormed(script)
  <2>1. ~WellFormed(script)
    BY <1>1 DEF Inv, Evidence, NeverCrashes, CrashesNow
  <2> QED BY <2>1, SameWords
<1>5. Verdict = "open" /\ Verdict' = "crashed"
  BY DEF CrashesNow, Verdict
<1> QED BY <1>1, <1>3, <1>4, <1>5 DEF Promise!Crash, Observed, Verdict

\* The return of a script all of whose steps are decided is the promise's Pass.
LEMMA ReturnMapsToPass == Inv /\ Inv' /\ ScriptReturns => Promise!Pass
<1> SUFFICES ASSUME Inv, Inv', ScriptReturns PROVE Promise!Pass
  OBVIOUS
<1>1. pc = "step" /\ pc' = "returned" /\ cur = Len(script) + 1 /\ UNCHANGED <<script, cur, taken>>
  BY DEF ScriptReturns, historyVars
<1>2. Len(script) \in Nat /\ result \in ResultType
  BY TypeParts DEF Inv, TypeInv, TypeOK, ControlTyped
<1>3. result'.passed
  BY <1>2 DEF ScriptReturns, SetPass, ResultType
<1>4. DecidedSteps = Len(script) /\ DecidedSteps' = Len(script)
  BY <1>1, <1>2, <1>3 DEF DecidedSteps, IsFailure
<1>5. Observed' = Observed /\ Len(Observed) = Len(script)
  BY <1>1, <1>2, <1>4, DecidedInRange, ObservedLength DEF Observed
<1>6. Verdict = "open" /\ Verdict' = "pass"
  BY <1>1, <1>3 DEF Verdict
<1>7. Promise!Decided = Len(Observed)
  BY DEF Promise!Decided, Observed
<1> QED BY <1>1, <1>5, <1>6, <1>7 DEF Promise!Pass, Observed, Verdict

\* Adding a step is writing one.
LEMMA AddMapsToWrite == Inv /\ Inv' /\ AddStep => Promise!Write
<1> SUFFICES ASSUME Inv, Inv', AddStep PROVE Promise!Write
  OBVIOUS
<1>1. PICK s : AppendStep(s)
  BY DEF AddStep, AddSendStep, AddRespondStep, AddReceiveStep
<1>2. /\ pc = "build" /\ pc' = "build" /\ cur = 1 /\ cur' = 1
      /\ script' = Append(script, s) /\ script \in Seq(Step)
  BY <1>1 DEF AppendStep, Inv, TypeInv, TypeOK, Evidence, Untouched
<1>3. Len(script') = Len(script) + 1 /\ \A k \in 1..Len(script) : script'[k] = script[k]
  BY <1>2
<1>4. DecidedSteps = 0 /\ DecidedSteps' = 0
  BY <1>2 DEF DecidedSteps
<1>5. Observed = <<>> /\ Observed' = <<>>
  <2>1. /\ taken \in Seq(SUBSET (LinkID \X Arrival))
        /\ taken' \in Seq(SUBSET (LinkID \X Arrival))
    BY DEF Inv, TypeInv, TypeOK
  <2> QED BY <1>4, <2>1, SubSeqEmpty DEF Observed
<1>6. Verdict = "open" /\ Verdict' = "open"
  BY <1>2 DEF Verdict
<1> QED BY <1>3, <1>5, <1>6 DEF Promise!Write, Observed, Verdict

LEMMA InitMaps == Init => Promise!PromiseInit
<1> SUFFICES ASSUME Init PROVE Promise!PromiseInit
  OBVIOUS
<1>1. DecidedSteps = 0 /\ taken = <<>> /\ script = <<>>
  BY DEF Init, DecidedSteps
<1>2. Observed = <<>>
  BY <1>1, SubSeqEmpty DEF Observed
<1>3. Verdict = "open"
  BY DEF Init, Verdict
<1> QED BY <1>1, <1>2, <1>3 DEF Promise!PromiseInit, Observed, Verdict

\* Every step of Script is one of the promise, or none.
LEMMA NextMaps == Inv /\ [Next]_vars => [Promise!PromiseNext]_(Promise!promiseVars)
<1> SUFFICES ASSUME Inv, [Next]_vars PROVE [Promise!PromiseNext]_(Promise!promiseVars)
  OBVIOUS
<1>1. Inv'
  BY NextEvidence
<1>2. CASE AddStep
  BY <1>1, <1>2, AddMapsToWrite DEF Promise!PromiseNext
<1>3. CASE ScriptReturns
  BY <1>1, <1>3, ReturnMapsToPass DEF Promise!PromiseNext
<1>4. CASE ~AddStep /\ ~ScriptReturns
  <2>1. StepDecided \/ NothingDecided \/ CrashesNow
    BY <1>4, TimeoutShape, MessageShape, ReturnShape, OtherShapes DEF Next, Rig, PromptStep
  <2>2. CASE StepDecided
    BY <1>1, <2>2, DecidedMapsToDecide DEF Promise!PromiseNext
  <2>3. CASE NothingDecided
    BY <1>1, <2>3, NothingMapsToStutter DEF Promise!promiseVars, Observed, Verdict
  <2>4. CASE CrashesNow
    BY <1>1, <2>4, CrashMapsToCrash DEF Promise!PromiseNext
  <2> QED BY <2>1, <2>2, <2>3, <2>4
<1> QED BY <1>2, <1>3, <1>4

\* Script implements ScriptPromise: poll by poll, with the forwarder in between, every step is
\* decided once and in order, on what it read, and only a malformed script crashes.
THEOREM ScriptKeepsPromise == Spec => RefinesPromise
<1> QED BY InitMaps, NextMaps, Invariant, PTL DEF Spec, RefinesPromise, Promise!PromiseSpec

=============================================================================
