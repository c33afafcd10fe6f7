---------------------------- MODULE EndToEndProofs ----------------------------
(***************************************************************************)
(* Proofs about the suite and the forwarder it tests: a correct one passes *)
(* every test, and a faulty one fails one.  They follow the course of each *)
(* test: which packets are sent, where each comes out of the forwarder,    *)
(* which step reads it there, and who is left in the forwarder's table.    *)
(***************************************************************************)
EXTENDS EndToEnd, SuiteProofs, FiniteSetTheorems

\* What the suite takes for granted of the links: connections that neither fail nor forget their peer.
ReliableTCP == Transport = "TCP" /\ ~ReceiveErrors

------------------------------------------------------------------------------
(* The course of a test: for every packet it sends, the step that sends it, the link, and per link *)
(* the step that reads what comes out there: 0 if nothing does, Nobody if no step waits for it.    *)
(* asks is who has asked for the test's answer and not got it, once the packet was forwarded.      *)

Nobody == 7

Sending(step, link, out, asks) == [step |-> step, link |-> link, out |-> out, asks |-> asks]

\* The tests whose answer comes from the wrong side or does not fit the Interest.
Unanswered(t) ==
    t \in {"ContentObjectErrors_1", "ContentObjectErrors_2",
           "ContentObjectRestrictionErrors_1", "ContentObjectRestrictionErrors_2",
           "ContentObjectRestrictionErrors_3", "ContentObjectRestrictionErrors_4",
           "ContentObjectRestrictionErrors_5", "ContentObjectRestrictionErrors_6"}

\* Where the answer is sent.
AnswersOn(t) ==
    CASE t = "ContentObjectErrors_1" -> LinkA
      [] t \in {"ContentObjectErrors_2", "FIBTest_BasicInterest_1b"} -> LinkC
      [] OTHER -> LinkB

ExchangeCourse(t) ==
    << Sending(1, LinkA, CASE t = "ContentObjectTest_3"      -> <<0, 2, 2>>
                           [] t = "FIBTest_BasicInterest_1b" -> <<0, 0, 2>>
                           [] OTHER                          -> <<0, 2, 0>>, {LinkA}),
       Sending(3, AnswersOn(t), IF Unanswered(t) THEN <<0, 0, 0>> ELSE <<4, 0, 0>>, {}) >>

CorrectCourse(t) ==
    CASE t = "ContentObjectTest_4" ->
            << Sending(1, LinkA, <<0, 2, 0>>, {LinkA}), Sending(4, LinkB, <<5, 0, 0>>, {}) >>
      [] t = "ContentObjectTest_5" ->
            << Sending(1, LinkA, <<0, 0, 3>>, {LinkA}), Sending(2, LinkB, <<0, 0, 0>>, {LinkA, LinkB}),
               Sending(5, LinkC, <<6, 6, 0>>, {}) >>
      [] t = "ContentObjectTest_6" ->
            << Sending(1, LinkA, <<0, 0, 2>>, {LinkA}), Sending(3, LinkA, <<0, 0, 4>>, {LinkA}),
               Sending(5, LinkC, <<6, 0, 0>>, {}) >>
      [] t = "ContentObjectErrors_3" ->
            << Sending(1, LinkA, <<0, 2, 0>>, {LinkA}), Sending(3, LinkB, <<4, 0, 0>>, {}),
               Sending(5, LinkB, <<0, 0, 0>>, {}) >>
      [] OTHER -> ExchangeCourse(t)

\* The test that shows a fault.
Catcher(f) ==
    CASE f = "returnedToSender"      -> "ContentObjectTest_4"
      [] f = "firstRouteOnly"        -> "ContentObjectTest_4"
      [] f = "retransmissionDropped" -> "ContentObjectTest_6"
      [] f = "entryKept"             -> "ContentObjectErrors_3"
      [] f = "anyLinkMayAnswer"      -> "ContentObjectErrors_1"
      [] f = "hashIgnored"           -> "ContentObjectRestrictionErrors_1"
      [] f = "keyIdIgnored"          -> "ContentObjectRestrictionErrors_2"
      [] f = "nameIgnored"           -> "ContentObjectRestrictionErrors_4"
      [] f = "namelessRefused"       -> "ContentObjectRestrictions_4"
      [] f = "firstAskerOnly"        -> "ContentObjectTest_5"
      [] f = "manifestsDropped"      -> "ContentObjectTest_2"

\* Its course up to the step that fails.
CatchingCourse(f) ==
    CASE f = "returnedToSender" -> << Sending(1, LinkA, <<3, 2, 0>>, {LinkA}) >>
      [] f = "firstRouteOnly"   -> << Sending(1, LinkA, <<Nobody, 0, 0>>, {LinkA}) >>
      [] f = "retransmissionDropped" ->
            << Sending(1, LinkA, <<0, 0, 2>>, {LinkA}), Sending(3, LinkA, <<0, 0, 0>>, {LinkA}) >>
      [] f = "entryKept" ->
            << Sending(1, LinkA, <<0, 2, 0>>, {LinkA}), Sending(3, LinkB, <<4, 0, 0>>, {LinkA}),
               Sending(5, LinkB, <<6, 0, 0>>, {LinkA}) >>
      [] f = "anyLinkMayAnswer" ->
            << Sending(1, LinkA, <<0, 2, 0>>, {LinkA}), Sending(3, LinkA, <<4, 0, 0>>, {}) >>
      [] f = "nameIgnored" ->
            << Sending(1, LinkA, <<0, 2, 0>>, {LinkA}), Sending(3, LinkB, <<4, Nobody, Nobody>>, {}) >>
      [] f \in {"hashIgnored", "keyIdIgnored"} ->
            << Sending(1, LinkA, <<0, 2, 0>>, {LinkA}), Sending(3, LinkB, <<4, 0, 0>>, {}) >>
      [] f \in {"namelessRefused", "manifestsDropped"} ->
            << Sending(1, LinkA, <<0, 2, 0>>, {LinkA}), Sending(3, LinkB, <<0, 0, 0>>, {}) >>
      [] f = "firstAskerOnly" ->
            << Sending(1, LinkA, <<0, 0, 3>>, {LinkA}), Sending(2, LinkB, <<0, 0, 0>>, {LinkA, LinkB}),
               Sending(5, LinkC, <<6, 0, 0>>, {}) >>

\* The faults one test shows by what comes out, and those every test shows by the hop limit.
RouteFaults == {"returnedToSender", "firstRouteOnly", "retransmissionDropped", "entryKept",
                "anyLinkMayAnswer", "hashIgnored", "keyIdIgnored", "nameIgnored",
                "namelessRefused", "firstAskerOnly", "manifestsDropped"}
HopFaults == {"hopLimitKept", "hopLimitCleared"}

Tracked(f, t) == f = "none" \/ (f \in RouteFaults /\ t = Catcher(f))

Course(f, t) == IF f = "none" THEN CorrectCourse(t) ELSE CatchingCourse(f)

\* The step that fails, or one behind the last.
Stop(f, t) ==
    CASE f = "none"                            -> Len(TestScript(t, {})) + 1
      [] f = "firstRouteOnly"                  -> 2
      [] f = "returnedToSender"                -> 3
      [] f \in {"entryKept", "firstAskerOnly"} -> 6
      [] OTHER                                 -> 4

------------------------------------------------------------------------------
(* A course fits a script. *)

\* What comes out on link l of one of the packets is for step k; or nothing waits there for k.
Meant(course, k, l) == \E i \in 1..Len(course) : course[i].out[l] = k
Silent(course, k, l) ==
    \A i \in 1..Len(course) : course[i].step < k => course[i].out[l] < k

FitsTyped(plan, course, stop) ==
    /\ plan \in Seq(Step) /\ Len(plan) \in 4..6 /\ stop \in 1..(Len(plan) + 1)
    /\ Len(course) \in 1..3
    /\ \A i \in 1..Len(course) :
          /\ course[i].step \in 1..Len(plan) /\ course[i].step < stop /\ course[i].link \in LinkID
          /\ \A l \in LinkID : /\ course[i].out[l] \in 0..Nobody
                               /\ course[i].out[l] # 0 => course[i].step < course[i].out[l]
    /\ \A i, j \in 1..Len(course) : i < j => course[i].step < course[j].step

FitsSends(plan, course, stop) ==
    /\ \A k \in 1..Len(plan) : k < stop /\ plan[k].op \in SendOp =>
          \E i \in 1..Len(course) : course[i].step = k
    /\ \A i \in 1..Len(course) :
          LET s == plan[course[i].step]
          IN  /\ s.op \in SendOp
              /\ s.op = "send" => s.links = {course[i].link}
              /\ s.op = "respond" =>
                    /\ s.step \in 1..(course[i].step - 1)
                    /\ IsNextBitSet({l \in LinkID : Meant(course, s.step, l)}, 0, course[i].link)

\* No two packets wait on a link at the same time.
FitsApart(course) ==
    \A i, j \in 1..Len(course), l \in LinkID :
        i < j /\ course[i].out[l] # 0 /\ course[j].out[l] # 0 => course[i].out[l] < course[j].step

\* What comes out for a step, it polls for and accepts.
FitsReads(plan, course, stop) ==
    \A i \in 1..Len(course), l \in LinkID :
        LET k == course[i].out[l]
        IN  k \in 1..Len(plan) =>
               /\ k <= stop /\ l \in plan[k].links /\ plan[k].op \in ReceiveOp
               /\ plan[k].op # "receiveNone" =>
                     Matches(plan[plan[k].step].packet, Forwarded(plan[course[i].step].packet))

\* A step in front of stop gets what it asks for, and the one at stop does not.
StepFits(plan, course, stop, k) ==
    LET s == plan[k]
    IN  /\ s.links # {} /\ s.links \subseteq LinkID
        /\ \A l \in s.links : Meant(course, k, l) \/ Silent(course, k, l)
        /\ s.op = "receiveOne" =>
              \A l \in s.links : k < stop <=> Meant(course, k, l)
        /\ s.op = "receiveAll" =>
              (k < stop <=> \A l \in s.links : Meant(course, k, l))
        /\ s.op = "receiveNone" =>
              \A l \in s.links : k < stop <=> ~Meant(course, k, l)

FitsSteps(plan, course, stop) ==
    \A k \in 1..Len(plan) : k <= stop /\ plan[k].op \in ReceiveOp => StepFits(plan, course, stop, k)

\* There is at most one poll for silence, and stop is no step that sends.
FitsSilence(plan, stop) ==
    /\ \A k \in 1..Len(plan) : plan[k].op = "receiveNone" => \E l \in LinkID : plan[k].links = {l}
    /\ \A j, k \in 1..Len(plan) : plan[j].op = "receiveNone" /\ plan[k].op = "receiveNone" => j = k
    /\ stop <= Len(plan) => plan[stop].op \in ReceiveOp

\* No packet of the course is sent behind a poll for silence.
SilenceLast(plan, course) ==
    \A k \in 1..Len(plan) : plan[k].op = "receiveNone" => \A i \in 1..Len(course) : course[i].step < k

Fits(plan, course, stop) ==
    /\ FitsTyped(plan, course, stop)
    /\ FitsSends(plan, course, stop)
    /\ FitsApart(course)
    /\ FitsReads(plan, course, stop)
    /\ FitsSteps(plan, course, stop)
    /\ FitsSilence(plan, stop)

------------------------------------------------------------------------------
(* A test is on its course. *)

\* Step k is through with link l.
Over(k, l) == k < cur \/ (k = cur /\ l <= bit)

CourseSent(course) ==
    /\ Len(sent) <= Len(course)
    /\ \A i \in 1..Len(course) : i <= Len(sent) <=> course[i].step < cur
    /\ \A i \in 1..Len(sent) : sent[i] = [step |-> course[i].step, link |-> course[i].link,
                                          packet |-> script[course[i].step].packet]

\* What became of packet i on link l: it is still to be read by the step it is for, or it is gone.
Due(course, i, l) == course[i].out[l] \in 1..Len(script) /\ ~Over(course[i].out[l], l)
Gone(course, i, l) ==
    course[i].out[l] = 0 \/ (course[i].out[l] \in 1..Len(script) /\ Over(course[i].out[l], l))

CourseMail(course) ==
    /\ forwarded \in 0..Len(sent)
    /\ \A i \in 1..forwarded, l \in LinkID :
          Due(course, i, l) => inbox[l] = <<Forwarded(script[course[i].step].packet)>>
    /\ \A l \in LinkID : (\A i \in 1..forwarded : Gone(course, i, l)) => inbox[l] = <<>>
    /\ \A i \in 1..Len(course), l \in LinkID :
          course[i].out[l] \in 1..Len(script) /\ Over(course[i].out[l], l) => i <= forwarded

CourseReadings(course) ==
    /\ \A k \in 1..Len(script) :
          ReadLinks(taken[k]) = {l \in LinkID : Over(k, l) /\ Meant(course, k, l)}
    /\ bit # -1 => cur <= Len(script) /\ bit \in script[cur].links

\* A poll for silence has ended.
Waited ==
    \E k \in 1..Len(script) : script[k].op = "receiveNone" /\ (k < cur \/ (k = cur /\ bit # -1))

Asks(course, i) == IF i = 0 THEN {} ELSE course[i].asks

Own(t, table) == {e \in table : e.name = InterestOf(t).name}

OwnEntry(f, t, e, asks) ==
    LET p == InterestOf(t)
    IN  /\ e.name = p.name /\ e.keyId = p.keyId /\ e.hash = p.hash /\ e.lifetime = p.lifetime
        /\ e.egress = NextHops(f, Prefix(t), LinkA) /\ e.ingress = asks

\* The table holds one entry of the test, or none if nobody asks.
OwnTable(f, t, table, asks, waited) ==
    IF asks = {} THEN Own(t, table) = {}
    ELSE \E e \in table : /\ Own(t, table) = {e} /\ OwnEntry(f, t, e, asks)
                          /\ e.age \in 0..(IF waited THEN 1000 ELSE 0)

CoursePit(f, t, course) ==
    forwarded < Len(course) => OwnTable(f, t, pit, Asks(course, forwarded), Waited)

OnTrack(course, stop) ==
    /\ result.passed /\ cur <= stop
    /\ CourseSent(course)
    /\ CourseMail(course)
    /\ CourseReadings(course)

OnCourse(f, t, course, stop) == OnTrack(course, stop) /\ CoursePit(f, t, course)

\* The test has failed where it should.
Stopped(stop) == pc = "returned" /\ ~result.passed /\ cur = stop

------------------------------------------------------------------------------
(* The state between and during the tests, whatever the forwarder does wrong. *)

\* main and the script it runs.
Standing ==
    /\ Running /\ flushing \in LinkID
    /\ phase = "running" => \E junk \in SUBSET VaJunk : script = TestScript(tests[test], junk)
    /\ phase = "done" => test = Len(tests)
    /\ addressed = LinkID /\ lost = {}
    /\ fault \in FaultsTried

\* When a flush is through, nothing is on its way and nothing is left.
Quiet ==
    /\ forwarded \in 0..Len(sent)
    /\ phase \in {"idle", "done"} => forwarded = Len(sent) /\ \A l \in LinkID : inbox[l] = <<>>
    /\ phase = "flushing" => \A l \in LinkID : l < flushing => forwarded = Len(sent) /\ inbox[l] = <<>>

\* The forwarder holds Interests of tests that were started, and gets packets of the running one.
Table ==
    \A e \in pit : e \in Entry /\ \E j \in 1..test : SameInterest(e, InterestOf(tests[j]))

Outgoings ==
    \A i \in 1..Len(sent) : test \in 1..Len(tests)
                            /\ sent[i].packet \in {InterestOf(tests[test]), AnswerOf(tests[test])}

E2EInv == Inv /\ Standing /\ Quiet /\ Table /\ Outgoings /\ Listed

\* The forwarder still knows the Interest of the test when it is answered: it keeps it longer than the
\* poll for silence in front of the answer lasts, or there is no such poll.
Patient(f, t) == Grace > 0 \/ (f = "none" /\ t \notin {"ContentObjectTest_4", "ContentObjectTest_5"})

\* Test t runs as it is listed against a forwarder with fault f, and the course of that is known.
Runs(f, t) ==
    /\ phase = "running" /\ fault = f /\ tests[test] = t /\ script = TestScript(t, {})
    /\ Tracked(f, t) /\ Patient(f, t)

CourseInv ==
    \A f \in Faults, t \in Test : Runs(f, t) =>
        OnCourse(f, t, Course(f, t), Stop(f, t)) \/ Stopped(Stop(f, t))

FitsInv == \A f \in Faults, t \in Test : Tracked(f, t) => Fits(TestScript(t, {}), Course(f, t), Stop(f, t))

\* No Interest that lost exactly one hop.
Off(p) == p.type = "interest" => p.hopLimit # 254

MailOff == \A l \in LinkID : \A n \in 1..Len(inbox[l]) : Off(inbox[l][n])
TakenOff == \A k \in 1..Len(taken) : \A r \in taken[k] : Off(r[2])

HopInv == fault \in HopFaults => MailOff /\ TakenOff

VerdictInv ==
    \A j \in 1..Len(resultList) :
        /\ fault \in HopFaults => resultList[j] # <<"PASS">>
        /\ fault \in RouteFaults /\ tests[j] = Catcher(fault) /\ VaJunk = {} /\ Grace > 0 =>
              resultList[j] # <<"PASS">>

------------------------------------------------------------------------------
(* Lemmas about the rig, its packets and what a forwarder makes of them. *)

LEMMA Rigs ==
    /\ LinkID = 1..3 /\ LinkA = 1 /\ LinkB = 2 /\ LinkC = 3
    /\ LinkA \in LinkID /\ LinkB \in LinkID /\ LinkC \in LinkID
<1>1. {1, 2, 3} = 1..3
  OBVIOUS
<1> QED BY <1>1, SuiteRigAssumption DEF LinkA, LinkB, LinkC

\* The packets that leave the forwarder on one link, as a sequence.
LEMMA NoneEmitted == SetToSeq({}) = <<>>
<1>1. Cardinality({}) = 0
  BY FS_EmptySet
<1>2. PICK f \in [1..0 -> {}] : TRUE
  <2>1. [x \in 1..0 |-> x] \in [1..0 -> {}]
    OBVIOUS
  <2> QED BY <2>1
<1>3. IsInjective(f)
  BY DEF IsInjective
<1>4. \E g \in [1..Cardinality({}) -> {}] : IsInjective(g)
  BY <1>1, <1>2, <1>3
<1>5. SetToSeq({}) \in [1..0 -> {}]
  BY <1>1, <1>4 DEF SetToSeq
<1> QED BY <1>5

LEMMA OneEmitted == ASSUME NEW p PROVE SetToSeq({p}) = <<p>>
<1>1. Cardinality({p}) = 1
  BY FS_Singleton
<1>2. <<p>> \in [1..1 -> {p}]
  OBVIOUS
<1>3. IsInjective(<<p>>)
  BY DEF IsInjective
<1>4. \E g \in [1..Cardinality({p}) -> {p}] : IsInjective(g)
  BY <1>1, <1>2, <1>3
<1>5. SetToSeq({p}) \in [1..1 -> {p}]
  BY <1>1, <1>4 DEF SetToSeq
<1> QED BY <1>5

\* Packet p leaves on a set of links.
EmitsOn(done, links, p) == done.emits = {<<m, p>> : m \in links}

\* The queue of link l once more packets left the forwarder.
Delivered(s, emits, l) == s \o SetToSeq({e[2] : e \in {x \in emits : x[1] = l}})

\* One packet q that leaves on the links of some set: each of them gets it once.
LEMMA Emission ==
    ASSUME NEW S, NEW links, NEW q, NEW done, EmitsOn(done, links, q),
           NEW l, NEW s \in Seq(S), q \in S
    PROVE  Delivered(s, done.emits, l) = IF l \in links THEN Append(s, q) ELSE s
<1> DEFINE emits == done.emits
<1>0. emits = {<<m, q>> : m \in links}
  BY DEF EmitsOn
<1> HIDE DEF emits
<1> DEFINE out == {e[2] : e \in {x \in emits : x[1] = l}}
<1>1. CASE l \in links
  <2>1. <<l, q>> \in emits /\ <<l, q>>[1] = l /\ <<l, q>>[2] = q /\ \A x \in emits : x[2] = q
    BY <1>0, <1>1
  <2>2. \A y : y \in out <=> y = q
    BY <2>1
  <2>3. out = {q}
    BY <2>2
  <2>4. SetToSeq(out) = <<q>>
    BY <2>3, OneEmitted
  <2> HIDE DEF out
  <2>5. s \o <<q>> = Append(s, q)
    OBVIOUS
  <2> QED BY <1>1, <2>4, <2>5 DEF out, Delivered, emits
<1>2. CASE l \notin links
  <2>1. out = {}
    BY <1>0, <1>2
  <2>2. SetToSeq(out) = <<>>
    BY <2>1, NoneEmitted
  <2> HIDE DEF out
  <2>3. s \o <<>> = s
    OBVIOUS
  <2> QED BY <1>2, <2>2, <2>3 DEF out, Delivered, emits
<1> QED BY <1>1, <1>2

------------------------------------------------------------------------------
(* The scripts, when the link vectors hold what was listed. *)

Poll(op, k, links) == CreateReceive(op, k, links, {})

FourPlan(t) ==
    CASE t = "FIBTest_BasicInterest_1a" ->
            <<SendsInterest(t, LinkA), Poll("receiveOne", 1, {LinkB}),
              Responds(t, 2), Poll("receiveOne", 3, {LinkA})>>
      [] t = "FIBTest_BasicInterest_1b" ->
            <<SendsInterest(t, LinkA), Poll("receiveOne", 1, {LinkC}),
              SendsAnswer(t, LinkC), Poll("receiveOne", 3, {LinkA})>>
      [] t = "ContentObjectTest_3" ->
            <<SendsInterest(t, LinkA), Poll("receiveOne", 1, {LinkB, LinkC}),
              Responds(t, 2), Poll("receiveOne", 3, {LinkA})>>
      [] t \in {"ContentObjectErrors_1", "ContentObjectErrors_2"} ->
            <<SendsInterest(t, LinkA), Poll("receiveOne", 1, {LinkB}),
              SendsAnswer(t, AnswersOn(t)), Poll("receiveNone", 3, {LinkA})>>
      [] OTHER ->
            <<SendsInterest(t, LinkA), Poll("receiveOne", 1, {LinkB}), SendsAnswer(t, LinkB),
              Poll(IF Unanswered(t) THEN "receiveNone" ELSE "receiveOne", 3, {LinkA})>>

\* The tests that are no exchange of four steps.
Longer == {"ContentObjectTest_4", "ContentObjectTest_5", "ContentObjectTest_6", "ContentObjectErrors_3"}

LongPlan(t) ==
    CASE t = "ContentObjectTest_4" ->
            <<SendsInterest(t, LinkA), Poll("receiveOne", 1, {LinkB}), Poll("receiveNone", 1, {LinkA}),
              Responds(t, 2), Poll("receiveOne", 4, {LinkA})>>
      [] t = "ContentObjectTest_5" ->
            <<SendsInterest(t, LinkA), SendsInterest(t, LinkB), Poll("receiveOne", 1, {LinkC}),
              Poll("receiveNone", 1, {LinkC}), Responds(t, 3), Poll("receiveAll", 5, {LinkA, LinkB})>>
      [] t = "ContentObjectTest_6" ->
            <<SendsInterest(t, LinkA), Poll("receiveOne", 1, {LinkC}), SendsInterest(t, LinkA),
              Poll("receiveOne", 1, {LinkC}), Responds(t, 4), Poll("receiveAll", 5, {LinkA})>>
      [] t = "ContentObjectErrors_3" ->
            <<SendsInterest(t, LinkA), Poll("receiveOne", 1, {LinkB}), SendsAnswer(t, LinkB),
              Poll("receiveOne", 3, {LinkA}), SendsAnswer(t, LinkB), Poll("receiveNone", 5, {LinkA})>>

\* Two sequences, written out, one behind the other.
LEMMA FourAndTwo ==
    ASSUME NEW a, NEW b, NEW c, NEW d, NEW e, NEW f
    PROVE  <<a, b, c, d>> \o <<e, f>> = <<a, b, c, d, e, f>>
<1> DEFINE S == {a, b, c, d, e, f}
           first == <<a, b, c, d>>
           then == <<e, f>>
           both == first \o then
           all == <<a, b, c, d, e, f>>
<1>1. first \in Seq(S) /\ then \in Seq(S) /\ all \in Seq(S)
  OBVIOUS
<1>2. Len(first) = 4 /\ Len(then) = 2 /\ Len(all) = 6
  OBVIOUS
<1>3. first[1] = a /\ first[2] = b /\ first[3] = c /\ first[4] = d /\ then[1] = e /\ then[2] = f
  OBVIOUS
<1>4. all[1] = a /\ all[2] = b /\ all[3] = c /\ all[4] = d /\ all[5] = e /\ all[6] = f
  OBVIOUS
<1> HIDE DEF S, first, then, all
<1>5. /\ both \in Seq(S) /\ Len(both) = Len(first) + Len(then)
      /\ \A i \in 1..(Len(first) + Len(then)) :
            both[i] = IF i <= Len(first) THEN first[i] ELSE then[i - Len(first)]
  <2> HIDE DEF both
  <2>1. first \o then = both
    BY DEF both
  <2> QED BY <1>1, <2>1, ConcatProperties, Zenon
<1> HIDE DEF both
<1>6. Len(both) = 6 /\ \A i \in 1..6 : both[i] = IF i <= 4 THEN first[i] ELSE then[i - 4]
  BY <1>2, <1>5
<1>7. \A i \in 1..6 : i = 1 \/ i = 2 \/ i = 3 \/ i = 4 \/ i = 5 \/ i = 6
  OBVIOUS
<1>8. \A i \in 1..6 : both[i] = all[i]
  BY <1>3, <1>4, <1>6, <1>7
<1>9. both = all
  BY <1>1, <1>2, <1>5, <1>6, <1>8, SeqEqual
<1> QED BY <1>9 DEF both, first, then, all

\* The groups of tests, spelled out.
LEMMA Groups ==
    /\ TestsIn(1, 2) = {"FIBTest_BasicInterest_1a", "FIBTest_BasicInterest_1b"}
    /\ TestsIn(3, 8) = {"ContentObjectTest_1", "ContentObjectTest_2", "ContentObjectTest_3",
                        "ContentObjectTest_4", "ContentObjectTest_5", "ContentObjectTest_6"}
    /\ TestsIn(9, 11) = {"ContentObjectErrors_1", "ContentObjectErrors_2", "ContentObjectErrors_3"}
    /\ TestsIn(12, 15) = {"ContentObjectRestrictions_1", "ContentObjectRestrictions_2",
                          "ContentObjectRestrictions_3", "ContentObjectRestrictions_4"}
    /\ TestsIn(16, 21) = {"ContentObjectRestrictionErrors_1", "ContentObjectRestrictionErrors_2",
                          "ContentObjectRestrictionErrors_3", "ContentObjectRestrictionErrors_4",
                          "ContentObjectRestrictionErrors_5", "ContentObjectRestrictionErrors_6"}
    /\ Test = TestsIn(1, 2) \cup TestsIn(3, 8) \cup TestsIn(9, 11) \cup TestsIn(12, 15) \cup TestsIn(16, 21)
<1>1. TestsIn(1, 2) = {"FIBTest_BasicInterest_1a", "FIBTest_BasicInterest_1b"}
  <2>1. 1..2 = {1, 2}
    OBVIOUS
  <2> QED BY <2>1 DEF TestsIn, SuiteTest
<1>2. TestsIn(3, 8) = {"ContentObjectTest_1", "ContentObjectTest_2", "ContentObjectTest_3",
                        "ContentObjectTest_4", "ContentObjectTest_5", "ContentObjectTest_6"}
  <2>1. 3..8 = {3, 4, 5, 6, 7, 8}
    OBVIOUS
  <2> QED BY <2>1 DEF TestsIn, SuiteTest
<1>3. TestsIn(9, 11) = {"ContentObjectErrors_1", "ContentObjectErrors_2", "ContentObjectErrors_3"}
  <2>1. 9..11 = {9, 10, 11}
    OBVIOUS
  <2> QED BY <2>1 DEF TestsIn, SuiteTest
<1>4. TestsIn(12, 15) = {"ContentObjectRestrictions_1", "ContentObjectRestrictions_2",
                          "ContentObjectRestrictions_3", "ContentObjectRestrictions_4"}
  <2>1. 12..15 = {12, 13, 14, 15}
    OBVIOUS
  <2> QED BY <2>1 DEF TestsIn, SuiteTest
<1>5. TestsIn(16, 21) = {"ContentObjectRestrictionErrors_1", "ContentObjectRestrictionErrors_2",
                          "ContentObjectRestrictionErrors_3", "ContentObjectRestrictionErrors_4",
                          "ContentObjectRestrictionErrors_5", "ContentObjectRestrictionErrors_6"}
  <2>1. 16..21 = {16, 17, 18, 19, 20, 21}
    OBVIOUS
  <2> QED BY <2>1 DEF TestsIn, SuiteTest
<1>6. Test = TestsIn(1, 2) \cup TestsIn(3, 8) \cup TestsIn(9, 11) \cup TestsIn(12, 15) \cup TestsIn(16, 21)
  <2>1. DOMAIN SuiteTest = 1..21
    BY DEF SuiteTest
  <2>2. Test = {SuiteTest[i] : i \in 1..21}
    BY <2>1 DEF Test
  <2> QED BY <2>2 DEF TestsIn
<1> QED BY <1>1, <1>2, <1>3, <1>4, <1>5, <1>6

\* The scripts of the suite.
LEMMA Plans ==
    ASSUME NEW t \in Test
    PROVE  TestScript(t, {}) = IF t \in Longer THEN LongPlan(t) ELSE FourPlan(t)
<1>1. CASE t \in TestsIn(1, 2)
  BY <1>1, Groups DEF TestScript, FIBTest, Poll, Longer, FourPlan
<1>2. CASE t \in TestsIn(3, 8)
  <2>1. TestScript(t, {}) = ContentObjectTest(t, {})
    BY <1>2, Groups DEF TestScript
  <2> QED BY <1>2, <2>1, Groups
        DEF ContentObjectTest, Exchange, Poll, Longer, FourPlan, LongPlan, Unanswered
<1>3. CASE t \in TestsIn(9, 11)
  <2>1. TestScript(t, {}) = ContentObjectErrors(t, {})
    BY <1>3, Groups DEF TestScript
  <2>2. CASE t # "ContentObjectErrors_3"
    BY <1>3, <2>1, <2>2, Groups DEF ContentObjectErrors, Poll, Longer, FourPlan, AnswersOn
  <2>3. CASE t = "ContentObjectErrors_3"
    <3> DEFINE a == SendsInterest(t, LinkA)
               b == Poll("receiveOne", 1, {LinkB})
               c == SendsAnswer(t, LinkB)
               d == Poll("receiveOne", 3, {LinkA})
               f == Poll("receiveNone", 5, {LinkA})
    <3>1. ContentObjectErrors(t, {}) = <<a, b, c, d>> \o <<c, f>>
      BY <2>3 DEF ContentObjectErrors, Exchange, Poll
    <3>2. t \in Longer /\ LongPlan(t) = <<a, b, c, d, c, f>>
      BY <2>3 DEF LongPlan, Longer
    <3> HIDE DEF a, b, c, d, f
    <3>3. <<a, b, c, d>> \o <<c, f>> = <<a, b, c, d, c, f>>
      BY FourAndTwo
    <3> QED BY <2>1, <3>1, <3>2, <3>3
  <2> QED BY <2>2, <2>3
<1>4. CASE t \in TestsIn(12, 15)
  <2>1. TestScript(t, {}) = Exchange(t, "receiveOne", {})
    BY <1>4, Groups DEF TestScript, ContentObjectRestrictions
  <2> QED BY <1>4, <2>1, Groups DEF Exchange, Poll, Longer, FourPlan, Unanswered
<1>5. CASE t \in TestsIn(16, 21)
  <2>1. TestScript(t, {}) = Exchange(t, "receiveNone", {})
    BY <1>5, Groups DEF TestScript, ContentObjectRestrictionErrors
  <2> QED BY <1>5, <2>1, Groups DEF Exchange, Poll, Longer, FourPlan, Unanswered
<1> QED BY <1>1, <1>2, <1>3, <1>4, <1>5, Groups

------------------------------------------------------------------------------
(* The courses fit the scripts. *)

LEMMA SendFields ==
    ASSUME NEW t, NEW l
    PROVE  /\ SendsInterest(t, l).op = "send" /\ SendsInterest(t, l).links = {l}
           /\ SendsInterest(t, l).packet = InterestOf(t)
           /\ SendsAnswer(t, l).op = "send" /\ SendsAnswer(t, l).links = {l}
           /\ SendsAnswer(t, l).packet = AnswerOf(t)
BY DEF SendsInterest, SendsAnswer, CreateSendStep

LEMMA RespondFields ==
    ASSUME NEW t, NEW k
    PROVE  /\ Responds(t, k).op = "respond" /\ Responds(t, k).step = k
           /\ Responds(t, k).packet = AnswerOf(t)
BY DEF Responds, CreateRespondStep

LEMMA PollFields ==
    ASSUME NEW k, NEW op, NEW links
    PROVE  Poll(op, k, links).op = op /\ Poll(op, k, links).step = k /\ Poll(op, k, links).links = links
BY DEF Poll, CreateReceive, GetLinkVector

\* What the suite sends is accepted when it comes out of a forwarder that forwards it.
LEMMA ForwardedMatches ==
    ASSUME NEW t \in Test
    PROVE  /\ Matches(InterestOf(t), Forwarded(InterestOf(t)))
           /\ Matches(AnswerOf(t), Forwarded(AnswerOf(t))) /\ Forwarded(AnswerOf(t)) = AnswerOf(t)
<1>1. /\ InterestOf(t).type = "interest" /\ InterestOf(t).hopLimit = 255
      /\ Forwarded(InterestOf(t)) = [InterestOf(t) EXCEPT !.hopLimit = 254]
  BY DEF InterestOf, Forwarded
<1>2. /\ Forwarded(InterestOf(t)).type = "interest" /\ Forwarded(InterestOf(t)).hopLimit = 254
      /\ Forwarded(InterestOf(t)).lifetime = InterestOf(t).lifetime
      /\ Forwarded(InterestOf(t)).name = InterestOf(t).name
      /\ Forwarded(InterestOf(t)).keyId = InterestOf(t).keyId
      /\ Forwarded(InterestOf(t)).hash = InterestOf(t).hash
  BY <1>1 DEF InterestOf
<1>3. Matches(InterestOf(t), Forwarded(InterestOf(t)))
  <2>1. TypesMatch(InterestOf(t), Forwarded(InterestOf(t)))
    BY <1>1, <1>2 DEF TypesMatch
  <2>2. WrongFields(InterestOf(t), Forwarded(InterestOf(t))) = {}
    <3> DEFINE a == InterestOf(t)
               b == Forwarded(a)
    <3>1. /\ a.hopLimit = b.hopLimit + 1 /\ a.lifetime = b.lifetime /\ a.name = b.name
          /\ a.keyId = b.keyId /\ a.hash = b.hash
      BY <1>1, <1>2
    <3> HIDE DEF a, b
    <3>2. WrongFields(a, b) = {}
      BY <3>1 DEF WrongFields
    <3> QED BY <3>2 DEF a, b
  <2> QED BY <1>1, <2>1, <2>2 DEF Matches, ValidPacketPair, ValidInterestPair
<1>4. AnswerOf(t).type \in {"content", "manifest"} /\ Forwarded(AnswerOf(t)) = AnswerOf(t)
  BY DEF AnswerOf, Forwarded
<1>5. Matches(AnswerOf(t), Forwarded(AnswerOf(t)))
  BY <1>4 DEF Matches, ValidPacketPair, ValidContentPair, ValidManifestPair, TypesMatch
<1> QED BY <1>3, <1>4, <1>5

\* The tests of four steps: an Interest that comes out on the links of waits, an answer from link s, and
\* what becomes of it.
LEMMA FourFits ==
    ASSUME NEW t \in Test, NEW waits \in SUBSET {2, 3}, waits # {}, NEW s \in 1..3,
           NEW c, c = SendsAnswer(t, s) \/ (c = Responds(t, 2) /\ s \in waits /\ \A l \in waits : s <= l),
           NEW last \in {"receiveOne", "receiveNone"}, NEW plan \in Seq(Step),
           plan = <<SendsInterest(t, LinkA), Poll("receiveOne", 1, waits), c, Poll(last, 3, {LinkA})>>,
           NEW course, Len(course) = 2, NEW stop,
           course[1].step = 1, course[1].link = 1, course[2].step = 3, course[2].link = s,
           \A l \in 1..3 : course[1].out[l] = IF l \in waits THEN 2 ELSE 0,
           course[2].out[1] \in {0, 4}, course[2].out[2] \in {0, Nobody}, course[2].out[3] \in {0, Nobody},
           stop = IF (last = "receiveOne" <=> course[2].out[1] = 4) THEN 5 ELSE 4
    PROVE  Fits(plan, course, stop)
<1>1. /\ Len(plan) = 4 /\ plan[1] = SendsInterest(t, 1) /\ plan[2] = Poll("receiveOne", 1, waits)
      /\ plan[3] = c /\ plan[4] = Poll(last, 3, {1}) /\ stop \in {4, 5}
  BY DEF LinkA
<1>2. /\ plan[1].op = "send" /\ plan[1].links = {1} /\ plan[1].packet = InterestOf(t)
      /\ plan[2].op = "receiveOne" /\ plan[2].step = 1 /\ plan[2].links = waits
  BY <1>1, SendFields, RespondFields, PollFields
<1>3. /\ \/ plan[3].op = "send" /\ plan[3].links = {s}
         \/ plan[3].op = "respond" /\ plan[3].step = 2 /\ s \in waits /\ \A l \in waits : s <= l
      /\ plan[3].packet = AnswerOf(t)
  <2>1. CASE c = SendsAnswer(t, s)
    <3>1. /\ SendsAnswer(t, s).op = "send" /\ SendsAnswer(t, s).links = {s}
          /\ SendsAnswer(t, s).packet = AnswerOf(t)
      BY SendFields
    <3> QED BY <1>1, <2>1, <3>1
  <2>2. CASE c # SendsAnswer(t, s)
    <3>1. c = Responds(t, 2) /\ s \in waits /\ \A l \in waits : s <= l
      BY <2>2
    <3>2. Responds(t, 2).op = "respond" /\ Responds(t, 2).step = 2 /\ Responds(t, 2).packet = AnswerOf(t)
      BY SendFields, RespondFields, PollFields
    <3> QED BY <1>1, <3>1, <3>2
  <2> QED BY <2>1, <2>2
<1>4. plan[4].op = last /\ plan[4].step = 3 /\ plan[4].links = {1}
  BY <1>1, SendFields, RespondFields, PollFields
<1>5. /\ Matches(InterestOf(t), Forwarded(InterestOf(t)))
      /\ Matches(AnswerOf(t), Forwarded(AnswerOf(t)))
  BY ForwardedMatches
<1>6. /\ \A i \in 1..Len(course) : i = 1 \/ i = 2
      /\ 1 \in 1..Len(course) /\ 2 \in 1..Len(course)
      /\ \A k \in 1..Len(plan) : k = 1 \/ k = 2 \/ k = 3 \/ k = 4
      /\ 1 \in 1..Len(plan) /\ 2 \in 1..Len(plan) /\ 3 \in 1..Len(plan) /\ 4 \in 1..Len(plan)
      /\ \A l \in LinkID : l = 1 \/ l = 2 \/ l = 3
  BY <1>1, Rigs
<1> USE Rigs DEF SendOp, ReceiveOp
<1>7. FitsTyped(plan, course, stop)
  BY <1>1, <1>6 DEF FitsTyped, Nobody
<1>8. \A l \in 1..3 : Meant(course, 2, l) <=> l \in waits
  BY <1>6 DEF Meant, Nobody
<1>9. Meant(course, 4, 1) <=> course[2].out[1] = 4
  <2>1. course[1].out[1] = 0
    OBVIOUS
  <2> QED BY <1>6, <2>1 DEF Meant
<1>10. Silent(course, 4, 1) \/ Meant(course, 4, 1)
  <2>1. course[1].out[1] = 0
    OBVIOUS
  <2> QED BY <1>6, <1>9, <2>1 DEF Silent
<1>11. FitsSends(plan, course, stop)
  <2>1. ASSUME NEW k \in 1..Len(plan), plan[k].op \in SendOp
        PROVE  \E i \in 1..Len(course) : course[i].step = k
    BY <1>2, <1>4, <1>6, <2>1
  <2>2. ASSUME plan[3].op = "respond"
        PROVE  IsNextBitSet({l \in LinkID : Meant(course, 2, l)}, 0, s)
    <3>1. {l \in LinkID : Meant(course, 2, l)} = waits
      BY <1>8
    <3> QED BY <1>3, <2>2, <3>1 DEF IsNextBitSet
  <2>3. 2 \in 1..(3 - 1)
    OBVIOUS
  <2>4. /\ plan[1].op \in SendOp /\ (plan[1].op = "send" => plan[1].links = {course[1].link})
        /\ plan[1].op # "respond"
    BY <1>2
  <2>5. /\ plan[3].op \in SendOp /\ (plan[3].op = "send" => plan[3].links = {course[2].link})
        /\ plan[3].op = "respond" =>
              /\ plan[3].step \in 1..(3 - 1)
              /\ IsNextBitSet({l \in LinkID : Meant(course, plan[3].step, l)}, 0, course[2].link)
    BY <1>3, <2>2, <2>3
  <2>6. \A i \in 1..Len(course) :
            LET d == plan[course[i].step]
            IN  /\ d.op \in SendOp
                /\ d.op = "send" => d.links = {course[i].link}
                /\ d.op = "respond" =>
                      /\ d.step \in 1..(course[i].step - 1)
                      /\ IsNextBitSet({l \in LinkID : Meant(course, d.step, l)}, 0, course[i].link)
    <3> SUFFICES ASSUME NEW i \in 1..Len(course)
                 PROVE  LET d == plan[course[i].step]
                        IN  /\ d.op \in SendOp
                            /\ d.op = "send" => d.links = {course[i].link}
                            /\ d.op = "respond" =>
                                  /\ d.step \in 1..(course[i].step - 1)
                                  /\ IsNextBitSet({l \in LinkID : Meant(course, d.step, l)}, 0, course[i].link)
      OBVIOUS
    <3>1. CASE i = 1
      BY <2>4, <3>1
    <3>2. CASE i = 2
      BY <2>5, <3>2
    <3> QED BY <1>6, <3>1, <3>2
  <2> QED BY <2>1, <2>6 DEF FitsSends
<1>12. FitsApart(course)
  BY <1>6 DEF FitsApart
<1>13. FitsReads(plan, course, stop)
  BY <1>1, <1>2, <1>3, <1>4, <1>5, <1>6 DEF FitsReads, Nobody
<1>14. FitsSteps(plan, course, stop)
  <2>1. StepFits(plan, course, stop, 2)
    <3>1. waits \subseteq 1..3 /\ 2 < stop
      BY <1>1
    <3>2. \A l \in waits : Meant(course, 2, l)
      BY <1>8, <3>1
    <3> QED BY <1>2, <3>1, <3>2 DEF StepFits
  <2>2. StepFits(plan, course, stop, 4)
    BY <1>1, <1>4, <1>9, <1>10 DEF StepFits
  <2> QED BY <1>2, <1>3, <1>6, <2>1, <2>2 DEF FitsSteps
<1>15. FitsSilence(plan, stop)
  BY <1>1, <1>2, <1>3, <1>4, <1>6 DEF FitsSilence
<1> QED BY <1>7, <1>11, <1>12, <1>13, <1>14, <1>15 DEF Fits

\* The longer scripts, and the courses they take.
LEMMA PlanOfFour ==
    ASSUME NEW t, t = "ContentObjectTest_4"
    PROVE  LET plan == TestScript(t, {})
           IN  /\ t \in Test /\ plan \in Seq(Step) /\ Len(plan) = 5
               /\ plan[1].op = "send" /\ plan[1].links = {1} /\ plan[1].packet = InterestOf(t)
               /\ plan[2].op = "receiveOne" /\ plan[2].step = 1 /\ plan[2].links = {2}
               /\ plan[3].op = "receiveNone" /\ plan[3].step = 1 /\ plan[3].links = {1}
               /\ plan[4].op = "respond" /\ plan[4].step = 2 /\ plan[4].packet = AnswerOf(t)
               /\ plan[5].op = "receiveOne" /\ plan[5].step = 4 /\ plan[5].links = {1}
<1> DEFINE plan == TestScript(t, {})
<1>1. t \in Test
  BY Groups
<1>2. plan \in Seq(Step)
  BY <1>1, TestScripts DEF ScriptOf, SuiteScript
<1>3. plan = <<SendsInterest(t, LinkA), Poll("receiveOne", 1, {LinkB}), Poll("receiveNone", 1, {LinkA}),
               Responds(t, 2), Poll("receiveOne", 4, {LinkA})>>
  BY <1>1, Plans DEF Longer, LongPlan
<1>4. /\ Len(plan) = 5
      /\ plan[1] = SendsInterest(t, 1)
      /\ plan[2] = Poll("receiveOne", 1, {2})
      /\ plan[3] = Poll("receiveNone", 1, {1})
      /\ plan[4] = Responds(t, 2)
      /\ plan[5] = Poll("receiveOne", 4, {1})
  BY <1>3 DEF LinkA, LinkB, LinkC
<1> HIDE DEF plan
<1>5. plan[1].op = "send" /\ plan[1].links = {1} /\ plan[1].packet = InterestOf(t)
  BY <1>4, SendFields
<1>6. plan[2].op = "receiveOne" /\ plan[2].step = 1 /\ plan[2].links = {2}
  BY <1>4, PollFields
<1>7. plan[3].op = "receiveNone" /\ plan[3].step = 1 /\ plan[3].links = {1}
  BY <1>4, PollFields
<1>8. plan[4].op = "respond" /\ plan[4].step = 2 /\ plan[4].packet = AnswerOf(t)
  BY <1>4, RespondFields
<1>9. plan[5].op = "receiveOne" /\ plan[5].step = 4 /\ plan[5].links = {1}
  BY <1>4, PollFields
<1> QED BY <1>1, <1>2, <1>4, <1>5, <1>6, <1>7, <1>8, <1>9 DEF plan

LEMMA PlanOfFive ==
    ASSUME NEW t, t = "ContentObjectTest_5"
    PROVE  LET plan == TestScript(t, {})
           IN  /\ t \in Test /\ plan \in Seq(Step) /\ Len(plan) = 6
               /\ plan[1].op = "send" /\ plan[1].links = {1} /\ plan[1].packet = InterestOf(t)
               /\ plan[2].op = "send" /\ plan[2].links = {2} /\ plan[2].packet = InterestOf(t)
               /\ plan[3].op = "receiveOne" /\ plan[3].step = 1 /\ plan[3].links = {3}
               /\ plan[4].op = "receiveNone" /\ plan[4].step = 1 /\ plan[4].links = {3}
               /\ plan[5].op = "respond" /\ plan[5].step = 3 /\ plan[5].packet = AnswerOf(t)
               /\ plan[6].op = "receiveAll" /\ plan[6].step = 5 /\ plan[6].links = {1, 2}
<1> DEFINE plan == TestScript(t, {})
<1>1. t \in Test
  BY Groups
<1>2. plan \in Seq(Step)
  BY <1>1, TestScripts DEF ScriptOf, SuiteScript
<1>3. plan = <<SendsInterest(t, LinkA), SendsInterest(t, LinkB), Poll("receiveOne", 1, {LinkC}),
               Poll("receiveNone", 1, {LinkC}), Responds(t, 3), Poll("receiveAll", 5, {LinkA, LinkB})>>
  BY <1>1, Plans DEF Longer, LongPlan
<1>4. /\ Len(plan) = 6
      /\ plan[1] = SendsInterest(t, 1)
      /\ plan[2] = SendsInterest(t, 2)
      /\ plan[3] = Poll("receiveOne", 1, {3})
      /\ plan[4] = Poll("receiveNone", 1, {3})
      /\ plan[5] = Responds(t, 3)
      /\ plan[6] = Poll("receiveAll", 5, {1, 2})
  BY <1>3 DEF LinkA, LinkB, LinkC
<1> HIDE DEF plan
<1>5. plan[1].op = "send" /\ plan[1].links = {1} /\ plan[1].packet = InterestOf(t)
  BY <1>4, SendFields
<1>6. plan[2].op = "send" /\ plan[2].links = {2} /\ plan[2].packet = InterestOf(t)
  BY <1>4, SendFields
<1>7. plan[3].op = "receiveOne" /\ plan[3].step = 1 /\ plan[3].links = {3}
  BY <1>4, PollFields
<1>8. plan[4].op = "receiveNone" /\ plan[4].step = 1 /\ plan[4].links = {3}
  BY <1>4, PollFields
<1>9. plan[5].op = "respond" /\ plan[5].step = 3 /\ plan[5].packet = AnswerOf(t)
  BY <1>4, RespondFields
<1>10. plan[6].op = "receiveAll" /\ plan[6].step = 5 /\ plan[6].links = {1, 2}
  BY <1>4, PollFields
<1> QED BY <1>1, <1>2, <1>4, <1>5, <1>6, <1>7, <1>8, <1>9, <1>10 DEF plan

LEMMA PlanOfSix ==
    ASSUME NEW t, t = "ContentObjectTest_6"
    PROVE  LET plan == TestScript(t, {})
           IN  /\ t \in Test /\ plan \in Seq(Step) /\ Len(plan) = 6
               /\ plan[1].op = "send" /\ plan[1].links = {1} /\ plan[1].packet = InterestOf(t)
               /\ plan[2].op = "receiveOne" /\ plan[2].step = 1 /\ plan[2].links = {3}
               /\ plan[3].op = "send" /\ plan[3].links = {1} /\ plan[3].packet = InterestOf(t)
               /\ plan[4].op = "receiveOne" /\ plan[4].step = 1 /\ plan[4].links = {3}
               /\ plan[5].op = "respond" /\ plan[5].step = 4 /\ plan[5].packet = AnswerOf(t)
               /\ plan[6].op = "receiveAll" /\ plan[6].step = 5 /\ plan[6].links = {1}
<1> DEFINE plan == TestScript(t, {})
<1>1. t \in Test
  BY Groups
<1>2. plan \in Seq(Step)
  BY <1>1, TestScripts DEF ScriptOf, SuiteScript
<1>3. plan = <<SendsInterest(t, LinkA), Poll("receiveOne", 1, {LinkC}), SendsInterest(t, LinkA),
               Poll("receiveOne", 1, {LinkC}), Responds(t, 4), Poll("receiveAll", 5, {LinkA})>>
  BY <1>1, Plans DEF Longer, LongPlan
<1>4. /\ Len(plan) = 6
      /\ plan[1] = SendsInterest(t, 1)
      /\ plan[2] = Poll("receiveOne", 1, {3})
      /\ plan[3] = SendsInterest(t, 1)
      /\ plan[4] = Poll("receiveOne", 1, {3})
      /\ plan[5] = Responds(t, 4)
      /\ plan[6] = Poll("receiveAll", 5, {1})
  BY <1>3 DEF LinkA, LinkB, LinkC
<1> HIDE DEF plan
<1>5. plan[1].op = "send" /\ plan[1].links = {1} /\ plan[1].packet = InterestOf(t)
  BY <1>4, SendFields
<1>6. plan[2].op = "receiveOne" /\ plan[2].step = 1 /\ plan[2].links = {3}
  BY <1>4, PollFields
<1>7. plan[3].op = "send" /\ plan[3].links = {1} /\ plan[3].packet = InterestOf(t)
  BY <1>4, SendFields
<1>8. plan[4].op = "receiveOne" /\ plan[4].step = 1 /\ plan[4].links = {3}
  BY <1>4, PollFields
<1>9. plan[5].op = "respond" /\ plan[5].step = 4 /\ plan[5].packet = AnswerOf(t)
  BY <1>4, RespondFields
<1>10. plan[6].op = "receiveAll" /\ plan[6].step = 5 /\ plan[6].links = {1}
  BY <1>4, PollFields
<1> QED BY <1>1, <1>2, <1>4, <1>5, <1>6, <1>7, <1>8, <1>9, <1>10 DEF plan

LEMMA PlanOfAgain ==
    ASSUME NEW t, t = "ContentObjectErrors_3"
    PROVE  LET plan == TestScript(t, {})
           IN  /\ t \in Test /\ plan \in Seq(Step) /\ Len(plan) = 6
               /\ plan[1].op = "send" /\ plan[1].links = {1} /\ plan[1].packet = InterestOf(t)
               /\ plan[2].op = "receiveOne" /\ plan[2].step = 1 /\ plan[2].links = {2}
               /\ plan[3].op = "send" /\ plan[3].links = {2} /\ plan[3].packet = AnswerOf(t)
               /\ plan[4].op = "receiveOne" /\ plan[4].step = 3 /\ plan[4].links = {1}
               /\ plan[5].op = "send" /\ plan[5].links = {2} /\ plan[5].packet = AnswerOf(t)
               /\ plan[6].op = "receiveNone" /\ plan[6].step = 5 /\ plan[6].links = {1}
<1> DEFINE plan == TestScript(t, {})
<1>1. t \in Test
  BY Groups
<1>2. plan \in Seq(Step)
  BY <1>1, TestScripts DEF ScriptOf, SuiteScript
<1>3. plan = <<SendsInterest(t, LinkA), Poll("receiveOne", 1, {LinkB}), SendsAnswer(t, LinkB),
               Poll("receiveOne", 3, {LinkA}), SendsAnswer(t, LinkB), Poll("receiveNone", 5, {LinkA})>>
  BY <1>1, Plans DEF Longer, LongPlan
<1>4. /\ Len(plan) = 6
      /\ plan[1] = SendsInterest(t, 1)
      /\ plan[2] = Poll("receiveOne", 1, {2})
      /\ plan[3] = SendsAnswer(t, 2)
      /\ plan[4] = Poll("receiveOne", 3, {1})
      /\ plan[5] = SendsAnswer(t, 2)
      /\ plan[6] = Poll("receiveNone", 5, {1})
  BY <1>3 DEF LinkA, LinkB, LinkC
<1> HIDE DEF plan
<1>5. plan[1].op = "send" /\ plan[1].links = {1} /\ plan[1].packet = InterestOf(t)
  BY <1>4, SendFields
<1>6. plan[2].op = "receiveOne" /\ plan[2].step = 1 /\ plan[2].links = {2}
  BY <1>4, PollFields
<1>7. plan[3].op = "send" /\ plan[3].links = {2} /\ plan[3].packet = AnswerOf(t)
  BY <1>4, SendFields
<1>8. plan[4].op = "receiveOne" /\ plan[4].step = 3 /\ plan[4].links = {1}
  BY <1>4, PollFields
<1>9. plan[5].op = "send" /\ plan[5].links = {2} /\ plan[5].packet = AnswerOf(t)
  BY <1>4, SendFields
<1>10. plan[6].op = "receiveNone" /\ plan[6].step = 5 /\ plan[6].links = {1}
  BY <1>4, PollFields
<1> QED BY <1>1, <1>2, <1>4, <1>5, <1>6, <1>7, <1>8, <1>9, <1>10 DEF plan

LEMMA FitsFourCorrect ==
    Fits(TestScript("ContentObjectTest_4", {}), Course("none", "ContentObjectTest_4"), 6)
<1> DEFINE t == "ContentObjectTest_4"
           plan == TestScript(t, {})
           course == Course("none", t)
<1>1. /\ t \in Test /\ plan \in Seq(Step) /\ Len(plan) = 5
      /\ plan[1].op = "send" /\ plan[1].links = {1} /\ plan[1].packet = InterestOf(t)
      /\ plan[2].op = "receiveOne" /\ plan[2].step = 1 /\ plan[2].links = {2}
      /\ plan[3].op = "receiveNone" /\ plan[3].step = 1 /\ plan[3].links = {1}
      /\ plan[4].op = "respond" /\ plan[4].step = 2 /\ plan[4].packet = AnswerOf(t)
      /\ plan[5].op = "receiveOne" /\ plan[5].step = 4 /\ plan[5].links = {1}
  BY PlanOfFour
<1>2. /\ Len(course) = 2
      /\ course[1].step = 1 /\ course[1].link = 1
      /\ course[1].out[1] = 0 /\ course[1].out[2] = 2 /\ course[1].out[3] = 0
      /\ course[2].step = 4 /\ course[2].link = 2
      /\ course[2].out[1] = 5 /\ course[2].out[2] = 0 /\ course[2].out[3] = 0
  BY DEF Course, CorrectCourse, Sending, LinkA, LinkB, LinkC, Nobody
<1>3. Matches(InterestOf(t), Forwarded(InterestOf(t))) /\ Matches(AnswerOf(t), Forwarded(AnswerOf(t)))
  BY <1>1, ForwardedMatches
<1> HIDE DEF plan, course
<1> USE Rigs DEF SendOp, ReceiveOp
<1>4. FitsTyped(plan, course, 6)
  BY <1>1, <1>2 DEF FitsTyped, Nobody
<1>5. FitsSends(plan, course, 6)
  BY <1>1, <1>2 DEF FitsSends, IsNextBitSet, Meant
<1>6. FitsApart(course)
  BY <1>2 DEF FitsApart
<1>7. FitsReads(plan, course, 6)
  BY <1>1, <1>2, <1>3 DEF FitsReads
<1>8. FitsSteps(plan, course, 6)
  <2>1. \A k \in 1..5 : k = 1 \/ k = 2 \/ k = 3 \/ k = 4 \/ k = 5
    OBVIOUS
  <2>2. \A i : i \in 1..Len(course) <=> i = 1 \/ i = 2
    BY <1>2
  <2>3. Meant(course, 2, 2) /\ ~Meant(course, 3, 1) /\ Meant(course, 5, 1)
    BY <1>2, <2>2 DEF Meant
  <2>4. Silent(course, 3, 1)
    BY <1>2, <2>2 DEF Silent
  <2>5. StepFits(plan, course, 6, 2)
    BY <1>1, <2>3, <2>4 DEF StepFits
  <2>6. StepFits(plan, course, 6, 3)
    BY <1>1, <2>3, <2>4 DEF StepFits
  <2>7. StepFits(plan, course, 6, 5)
    BY <1>1, <2>3, <2>4 DEF StepFits
  <2> QED BY <1>1, <2>1, <2>5, <2>6, <2>7 DEF FitsSteps
<1>9. FitsSilence(plan, 6)
  BY <1>1 DEF FitsSilence
<1> QED BY <1>4, <1>5, <1>6, <1>7, <1>8, <1>9 DEF Fits, plan, course

LEMMA FitsFourReturnedToSender ==
    Fits(TestScript("ContentObjectTest_4", {}), Course("returnedToSender", "ContentObjectTest_4"), 3)
<1> DEFINE t == "ContentObjectTest_4"
           plan == TestScript(t, {})
           course == Course("returnedToSender", t)
<1>1. /\ t \in Test /\ plan \in Seq(Step) /\ Len(plan) = 5
      /\ plan[1].op = "send" /\ plan[1].links = {1} /\ plan[1].packet = InterestOf(t)
      /\ plan[2].op = "receiveOne" /\ plan[2].step = 1 /\ plan[2].links = {2}
      /\ plan[3].op = "receiveNone" /\ plan[3].step = 1 /\ plan[3].links = {1}
      /\ plan[4].op = "respond" /\ plan[4].step = 2 /\ plan[4].packet = AnswerOf(t)
      /\ plan[5].op = "receiveOne" /\ plan[5].step = 4 /\ plan[5].links = {1}
  BY PlanOfFour
<1>2. /\ Len(course) = 1
      /\ course[1].step = 1 /\ course[1].link = 1
      /\ course[1].out[1] = 3 /\ course[1].out[2] = 2 /\ course[1].out[3] = 0
  BY DEF Course, CatchingCourse, Sending, LinkA, LinkB, LinkC, Nobody
<1>3. Matches(InterestOf(t), Forwarded(InterestOf(t))) /\ Matches(AnswerOf(t), Forwarded(AnswerOf(t)))
  BY <1>1, ForwardedMatches
<1> HIDE DEF plan, course
<1> USE Rigs DEF SendOp, ReceiveOp
<1>4. FitsTyped(plan, course, 3)
  BY <1>1, <1>2 DEF FitsTyped, Nobody
<1>5. FitsSends(plan, course, 3)
  BY <1>1, <1>2 DEF FitsSends, IsNextBitSet, Meant
<1>6. FitsApart(course)
  BY <1>2 DEF FitsApart
<1>7. FitsReads(plan, course, 3)
  BY <1>1, <1>2, <1>3 DEF FitsReads
<1>8. FitsSteps(plan, course, 3)
  <2>1. \A k \in 1..5 : k = 1 \/ k = 2 \/ k = 3 \/ k = 4 \/ k = 5
    OBVIOUS
  <2>2. \A i : i \in 1..Len(course) <=> i = 1
    BY <1>2
  <2>3. Meant(course, 2, 2) /\ Meant(course, 3, 1)
    BY <1>2, <2>2 DEF Meant
  <2>5. StepFits(plan, course, 3, 2)
    BY <1>1, <2>3 DEF StepFits
  <2>6. StepFits(plan, course, 3, 3)
    BY <1>1, <2>3 DEF StepFits
  <2> QED BY <1>1, <2>1, <2>5, <2>6 DEF FitsSteps
<1>9. FitsSilence(plan, 3)
  BY <1>1 DEF FitsSilence
<1> QED BY <1>4, <1>5, <1>6, <1>7, <1>8, <1>9 DEF Fits, plan, course

LEMMA FitsFourFirstRouteOnly ==
    Fits(TestScript("ContentObjectTest_4", {}), Course("firstRouteOnly", "ContentObjectTest_4"), 2)
<1> DEFINE t == "ContentObjectTest_4"
           plan == TestScript(t, {})
           course == Course("firstRouteOnly", t)
<1>1. /\ t \in Test /\ plan \in Seq(Step) /\ Len(plan) = 5
      /\ plan[1].op = "send" /\ plan[1].links = {1} /\ plan[1].packet = InterestOf(t)
      /\ plan[2].op = "receiveOne" /\ plan[2].step = 1 /\ plan[2].links = {2}
      /\ plan[3].op = "receiveNone" /\ plan[3].step = 1 /\ plan[3].links = {1}
      /\ plan[4].op = "respond" /\ plan[4].step = 2 /\ plan[4].packet = AnswerOf(t)
      /\ plan[5].op = "receiveOne" /\ plan[5].step = 4 /\ plan[5].links = {1}
  BY PlanOfFour
<1>2. /\ Len(course) = 1
      /\ course[1].step = 1 /\ course[1].link = 1
      /\ course[1].out[1] = 7 /\ course[1].out[2] = 0 /\ course[1].out[3] = 0
  BY DEF Course, CatchingCourse, Sending, LinkA, LinkB, LinkC, Nobody
<1>3. Matches(InterestOf(t), Forwarded(InterestOf(t))) /\ Matches(AnswerOf(t), Forwarded(AnswerOf(t)))
  BY <1>1, ForwardedMatches
<1> HIDE DEF plan, course
<1> USE Rigs DEF SendOp, ReceiveOp
<1>4. FitsTyped(plan, course, 2)
  BY <1>1, <1>2 DEF FitsTyped, Nobody
<1>5. FitsSends(plan, course, 2)
  BY <1>1, <1>2 DEF FitsSends, IsNextBitSet, Meant
<1>6. FitsApart(course)
  BY <1>2 DEF FitsApart
<1>7. FitsReads(plan, course, 2)
  BY <1>1, <1>2, <1>3 DEF FitsReads
<1>8. FitsSteps(plan, course, 2)
  <2>1. \A k \in 1..5 : k = 1 \/ k = 2 \/ k = 3 \/ k = 4 \/ k = 5
    OBVIOUS
  <2>2. \A i : i \in 1..Len(course) <=> i = 1
    BY <1>2
  <2>3. ~Meant(course, 2, 2)
    BY <1>2, <2>2 DEF Meant
  <2>4. Silent(course, 2, 2)
    BY <1>2, <2>2 DEF Silent
  <2>5. StepFits(plan, course, 2, 2)
    BY <1>1, <2>3, <2>4 DEF StepFits
  <2> QED BY <1>1, <2>1, <2>5 DEF FitsSteps
<1>9. FitsSilence(plan, 2)
  BY <1>1 DEF FitsSilence
<1> QED BY <1>4, <1>5, <1>6, <1>7, <1>8, <1>9 DEF Fits, plan, course

LEMMA FitsFiveCorrect ==
    Fits(TestScript("ContentObjectTest_5", {}), Course("none", "ContentObjectTest_5"), 7)
<1> DEFINE t == "ContentObjectTest_5"
           plan == TestScript(t, {})
           course == Course("none", t)
<1>1. /\ t \in Test /\ plan \in Seq(Step) /\ Len(plan) = 6
      /\ plan[1].op = "send" /\ plan[1].links = {1} /\ plan[1].packet = InterestOf(t)
      /\ plan[2].op = "send" /\ plan[2].links = {2} /\ plan[2].packet = InterestOf(t)
      /\ plan[3].op = "receiveOne" /\ plan[3].step = 1 /\ plan[3].links = {3}
      /\ plan[4].op = "receiveNone" /\ plan[4].step = 1 /\ plan[4].links = {3}
      /\ plan[5].op = "respond" /\ plan[5].step = 3 /\ plan[5].packet = AnswerOf(t)
      /\ plan[6].op = "receiveAll" /\ plan[6].step = 5 /\ plan[6].links = {1, 2}
  BY PlanOfFive
<1>2. /\ Len(course) = 3
      /\ course[1].step = 1 /\ course[1].link = 1
      /\ course[1].out[1] = 0 /\ course[1].out[2] = 0 /\ course[1].out[3] = 3
      /\ course[2].step = 2 /\ course[2].link = 2
      /\ course[2].out[1] = 0 /\ course[2].out[2] = 0 /\ course[2].out[3] = 0
      /\ course[3].step = 5 /\ course[3].link = 3
      /\ course[3].out[1] = 6 /\ course[3].out[2] = 6 /\ course[3].out[3] = 0
  BY DEF Course, CorrectCourse, Sending, LinkA, LinkB, LinkC, Nobody
<1>3. Matches(InterestOf(t), Forwarded(InterestOf(t))) /\ Matches(AnswerOf(t), Forwarded(AnswerOf(t)))
  BY <1>1, ForwardedMatches
<1> HIDE DEF plan, course
<1> USE Rigs DEF SendOp, ReceiveOp
<1>4. FitsTyped(plan, course, 7)
  BY <1>1, <1>2 DEF FitsTyped, Nobody
<1>5. FitsSends(plan, course, 7)
  BY <1>1, <1>2 DEF FitsSends, IsNextBitSet, Meant
<1>6. FitsApart(course)
  BY <1>2 DEF FitsApart
<1>7. FitsReads(plan, course, 7)
  BY <1>1, <1>2, <1>3 DEF FitsReads
<1>8. FitsSteps(plan, course, 7)
  <2>1. \A k \in 1..6 : k = 1 \/ k = 2 \/ k = 3 \/ k = 4 \/ k = 5 \/ k = 6
    OBVIOUS
  <2>2. \A i : i \in 1..Len(course) <=> i = 1 \/ i = 2 \/ i = 3
    BY <1>2
  <2>3. Meant(course, 3, 3) /\ ~Meant(course, 4, 3) /\ Meant(course, 6, 1) /\ Meant(course, 6, 2)
    BY <1>2, <2>2 DEF Meant
  <2>4. Silent(course, 4, 3)
    BY <1>2, <2>2 DEF Silent
  <2>5. StepFits(plan, course, 7, 3)
    BY <1>1, <2>3, <2>4 DEF StepFits
  <2>6. StepFits(plan, course, 7, 4)
    BY <1>1, <2>3, <2>4 DEF StepFits
  <2>7. StepFits(plan, course, 7, 6)
    BY <1>1, <2>3, <2>4 DEF StepFits
  <2> QED BY <1>1, <2>1, <2>5, <2>6, <2>7 DEF FitsSteps
<1>9. FitsSilence(plan, 7)
  BY <1>1 DEF FitsSilence
<1> QED BY <1>4, <1>5, <1>6, <1>7, <1>8, <1>9 DEF Fits, plan, course

LEMMA FitsFiveFirstAskerOnly ==
    Fits(TestScript("ContentObjectTest_5", {}), Course("firstAskerOnly", "ContentObjectTest_5"), 6)
<1> DEFINE t == "ContentObjectTest_5"
           plan == TestScript(t, {})
           course == Course("firstAskerOnly", t)
<1>1. /\ t \in Test /\ plan \in Seq(Step) /\ Len(plan) = 6
      /\ plan[1].op = "send" /\ plan[1].links = {1} /\ plan[1].packet = InterestOf(t)
      /\ plan[2].op = "send" /\ plan[2].links = {2} /\ plan[2].packet = InterestOf(t)
      /\ plan[3].op = "receiveOne" /\ plan[3].step = 1 /\ plan[3].links = {3}
      /\ plan[4].op = "receiveNone" /\ plan[4].step = 1 /\ plan[4].links = {3}
      /\ plan[5].op = "respond" /\ plan[5].step = 3 /\ plan[5].packet = AnswerOf(t)
      /\ plan[6].op = "receiveAll" /\ plan[6].step = 5 /\ plan[6].links = {1, 2}
  BY PlanOfFive
<1>2. /\ Len(course) = 3
      /\ course[1].step = 1 /\ course[1].link = 1
      /\ course[1].out[1] = 0 /\ course[1].out[2] = 0 /\ course[1].out[3] = 3
      /\ course[2].step = 2 /\ course[2].link = 2
      /\ course[2].out[1] = 0 /\ course[2].out[2] = 0 /\ course[2].out[3] = 0
      /\ course[3].step = 5 /\ course[3].link = 3
      /\ course[3].out[1] = 6 /\ course[3].out[2] = 0 /\ course[3].out[3] = 0
  BY DEF Course, CatchingCourse, Sending, LinkA, LinkB, LinkC, Nobody
<1>3. Matches(InterestOf(t), Forwarded(InterestOf(t))) /\ Matches(AnswerOf(t), Forwarded(AnswerOf(t)))
  BY <1>1, ForwardedMatches
<1> HIDE DEF plan, course
<1> USE Rigs DEF SendOp, ReceiveOp
<1>4. FitsTyped(plan, course, 6)
  BY <1>1, <1>2 DEF FitsTyped, Nobody
<1>5. FitsSends(plan, course, 6)
  BY <1>1, <1>2 DEF FitsSends, IsNextBitSet, Meant
<1>6. FitsApart(course)
  BY <1>2 DEF FitsApart
<1>7. FitsReads(plan, course, 6)
  BY <1>1, <1>2, <1>3 DEF FitsReads
<1>8. FitsSteps(plan, course, 6)
  <2>1. \A k \in 1..6 : k = 1 \/ k = 2 \/ k = 3 \/ k = 4 \/ k = 5 \/ k = 6
    OBVIOUS
  <2>2. \A i : i \in 1..Len(course) <=> i = 1 \/ i = 2 \/ i = 3
    BY <1>2
  <2>3. Meant(course, 3, 3) /\ ~Meant(course, 4, 3) /\ Meant(course, 6, 1) /\ ~Meant(course, 6, 2)
    BY <1>2, <2>2 DEF Meant
  <2>4. Silent(course, 4, 3) /\ Silent(course, 6, 2)
    BY <1>2, <2>2 DEF Silent
  <2>5. StepFits(plan, course, 6, 3)
    BY <1>1, <2>3, <2>4 DEF StepFits
  <2>6. StepFits(plan, course, 6, 4)
    BY <1>1, <2>3, <2>4 DEF StepFits
  <2>7. StepFits(plan, course, 6, 6)
    BY <1>1, <2>3, <2>4 DEF StepFits
  <2> QED BY <1>1, <2>1, <2>5, <2>6, <2>7 DEF FitsSteps
<1>9. FitsSilence(plan, 6)
  BY <1>1 DEF FitsSilence
<1> QED BY <1>4, <1>5, <1>6, <1>7, <1>8, <1>9 DEF Fits, plan, course

LEMMA FitsSixCorrect ==
    Fits(TestScript("ContentObjectTest_6", {}), Course("none", "ContentObjectTest_6"), 7)
<1> DEFINE t == "ContentObjectTest_6"
           plan == TestScript(t, {})
           course == Course("none", t)
<1>1. /\ t \in Test /\ plan \in Seq(Step) /\ Len(plan) = 6
      /\ plan[1].op = "send" /\ plan[1].links = {1} /\ plan[1].packet = InterestOf(t)
      /\ plan[2].op = "receiveOne" /\ plan[2].step = 1 /\ plan[2].links = {3}
      /\ plan[3].op = "send" /\ plan[3].links = {1} /\ plan[3].packet = InterestOf(t)
      /\ plan[4].op = "receiveOne" /\ plan[4].step = 1 /\ plan[4].links = {3}
      /\ plan[5].op = "respond" /\ plan[5].step = 4 /\ plan[5].packet = AnswerOf(t)
      /\ plan[6].op = "receiveAll" /\ plan[6].step = 5 /\ plan[6].links = {1}
  BY PlanOfSix
<1>2. /\ Len(course) = 3
      /\ course[1].step = 1 /\ course[1].link = 1
      /\ course[1].out[1] = 0 /\ course[1].out[2] = 0 /\ course[1].out[3] = 2
      /\ course[2].step = 3 /\ course[2].link = 1
      /\ course[2].out[1] = 0 /\ course[2].out[2] = 0 /\ course[2].out[3] = 4
      /\ course[3].step = 5 /\ course[3].link = 3
      /\ course[3].out[1] = 6 /\ course[3].out[2] = 0 /\ course[3].out[3] = 0
  BY DEF Course, CorrectCourse, Sending, LinkA, LinkB, LinkC, Nobody
<1>3. Matches(InterestOf(t), Forwarded(InterestOf(t))) /\ Matches(AnswerOf(t), Forwarded(AnswerOf(t)))
  BY <1>1, ForwardedMatches
<1> HIDE DEF plan, course
<1> USE Rigs DEF SendOp, ReceiveOp
<1>4. FitsTyped(plan, course, 7)
  BY <1>1, <1>2 DEF FitsTyped, Nobody
<1>5. FitsSends(plan, course, 7)
  BY <1>1, <1>2 DEF FitsSends, IsNextBitSet, Meant
<1>6. FitsApart(course)
  BY <1>2 DEF FitsApart
<1>7. FitsReads(plan, course, 7)
  BY <1>1, <1>2, <1>3 DEF FitsReads
<1>8. FitsSteps(plan, course, 7)
  <2>1. \A k \in 1..6 : k = 1 \/ k = 2 \/ k = 3 \/ k = 4 \/ k = 5 \/ k = 6
    OBVIOUS
  <2>2. \A i : i \in 1..Len(course) <=> i = 1 \/ i = 2 \/ i = 3
    BY <1>2
  <2>3. Meant(course, 2, 3) /\ Meant(course, 4, 3) /\ Meant(course, 6, 1)
    BY <1>2, <2>2 DEF Meant
  <2>5. StepFits(plan, course, 7, 2)
    BY <1>1, <2>3 DEF StepFits
  <2>6. StepFits(plan, course, 7, 4)
    BY <1>1, <2>3 DEF StepFits
  <2>7. StepFits(plan, course, 7, 6)
    BY <1>1, <2>3 DEF StepFits
  <2> QED BY <1>1, <2>1, <2>5, <2>6, <2>7 DEF FitsSteps
<1>9. FitsSilence(plan, 7)
  BY <1>1 DEF FitsSilence
<1> QED BY <1>4, <1>5, <1>6, <1>7, <1>8, <1>9 DEF Fits, plan, course

LEMMA FitsSixRetransmissionDropped ==
    Fits(TestScript("ContentObjectTest_6", {}), Course("retransmissionDropped", "ContentObjectTest_6"), 4)
<1> DEFINE t == "ContentObjectTest_6"
           plan == TestScript(t, {})
           course == Course("retransmissionDropped", t)
<1>1. /\ t \in Test /\ plan \in Seq(Step) /\ Len(plan) = 6
      /\ plan[1].op = "send" /\ plan[1].links = {1} /\ plan[1].packet = InterestOf(t)
      /\ plan[2].op = "receiveOne" /\ plan[2].step = 1 /\ plan[2].links = {3}
      /\ plan[3].op = "send" /\ plan[3].links = {1} /\ plan[3].packet = InterestOf(t)
      /\ plan[4].op = "receiveOne" /\ plan[4].step = 1 /\ plan[4].links = {3}
      /\ plan[5].op = "respond" /\ plan[5].step = 4 /\ plan[5].packet = AnswerOf(t)
      /\ plan[6].op = "receiveAll" /\ plan[6].step = 5 /\ plan[6].links = {1}
  BY PlanOfSix
<1>2. /\ Len(course) = 2
      /\ course[1].step = 1 /\ course[1].link = 1
      /\ course[1].out[1] = 0 /\ course[1].out[2] = 0 /\ course[1].out[3] = 2
      /\ course[2].step = 3 /\ course[2].link = 1
      /\ course[2].out[1] = 0 /\ course[2].out[2] = 0 /\ course[2].out[3] = 0
  BY DEF Course, CatchingCourse, Sending, LinkA, LinkB, LinkC, Nobody
<1>3. Matches(InterestOf(t), Forwarded(InterestOf(t))) /\ Matches(AnswerOf(t), Forwarded(AnswerOf(t)))
  BY <1>1, ForwardedMatches
<1> HIDE DEF plan, course
<1> USE Rigs DEF SendOp, ReceiveOp
<1>4. FitsTyped(plan, course, 4)
  BY <1>1, <1>2 DEF FitsTyped, Nobody
<1>5. FitsSends(plan, course, 4)
  BY <1>1, <1>2 DEF FitsSends, IsNextBitSet, Meant
<1>6. FitsApart(course)
  BY <1>2 DEF FitsApart
<1>7. FitsReads(plan, course, 4)
  BY <1>1, <1>2, <1>3 DEF FitsReads
<1>8. FitsSteps(plan, course, 4)
  <2>1. \A k \in 1..6 : k = 1 \/ k = 2 \/ k = 3 \/ k = 4 \/ k = 5 \/ k = 6
    OBVIOUS
  <2>2. \A i : i \in 1..Len(course) <=> i = 1 \/ i = 2
    BY <1>2
  <2>3. Meant(course, 2, 3) /\ ~Meant(course, 4, 3)
    BY <1>2, <2>2 DEF Meant
  <2>4. Silent(course, 4, 3)
    BY <1>2, <2>2 DEF Silent
  <2>5. StepFits(plan, course, 4, 2)
    BY <1>1, <2>3, <2>4 DEF StepFits
  <2>6. StepFits(plan, course, 4, 4)
    BY <1>1, <2>3, <2>4 DEF StepFits
  <2> QED BY <1>1, <2>1, <2>5, <2>6 DEF FitsSteps
<1>9. FitsSilence(plan, 4)
  BY <1>1 DEF FitsSilence
<1> QED BY <1>4, <1>5, <1>6, <1>7, <1>8, <1>9 DEF Fits, plan, course

LEMMA FitsAgainCorrect ==
    Fits(TestScript("ContentObjectErrors_3", {}), Course("none", "ContentObjectErrors_3"), 7)
<1> DEFINE t == "ContentObjectErrors_3"
           plan == TestScript(t, {})
           course == Course("none", t)
<1>1. /\ t \in Test /\ plan \in Seq(Step) /\ Len(plan) = 6
      /\ plan[1].op = "send" /\ plan[1].links = {1} /\ plan[1].packet = InterestOf(t)
      /\ plan[2].op = "receiveOne" /\ plan[2].step = 1 /\ plan[2].links = {2}
      /\ plan[3].op = "send" /\ plan[3].links = {2} /\ plan[3].packet = AnswerOf(t)
      /\ plan[4].op = "receiveOne" /\ plan[4].step = 3 /\ plan[4].links = {1}
      /\ plan[5].op = "send" /\ plan[5].links = {2} /\ plan[5].packet = AnswerOf(t)
      /\ plan[6].op = "receiveNone" /\ plan[6].step = 5 /\ plan[6].links = {1}
  BY PlanOfAgain
<1>2. /\ Len(course) = 3
      /\ course[1].step = 1 /\ course[1].link = 1
      /\ course[1].out[1] = 0 /\ course[1].out[2] = 2 /\ course[1].out[3] = 0
      /\ course[2].step = 3 /\ course[2].link = 2
      /\ course[2].out[1] = 4 /\ course[2].out[2] = 0 /\ course[2].out[3] = 0
      /\ course[3].step = 5 /\ course[3].link = 2
      /\ course[3].out[1] = 0 /\ course[3].out[2] = 0 /\ course[3].out[3] = 0
  BY DEF Course, CorrectCourse, Sending, LinkA, LinkB, LinkC, Nobody
<1>3. Matches(InterestOf(t), Forwarded(InterestOf(t))) /\ Matches(AnswerOf(t), Forwarded(AnswerOf(t)))
  BY <1>1, ForwardedMatches
<1> HIDE DEF plan, course
<1> USE Rigs DEF SendOp, ReceiveOp
<1>4. FitsTyped(plan, course, 7)
  BY <1>1, <1>2 DEF FitsTyped, Nobody
<1>5. FitsSends(plan, course, 7)
  BY <1>1, <1>2 DEF FitsSends, IsNextBitSet, Meant
<1>6. FitsApart(course)
  BY <1>2 DEF FitsApart
<1>7. FitsReads(plan, course, 7)
  BY <1>1, <1>2, <1>3 DEF FitsReads
<1>8. FitsSteps(plan, course, 7)
  <2>1. \A k \in 1..6 : k = 1 \/ k = 2 \/ k = 3 \/ k = 4 \/ k = 5 \/ k = 6
    OBVIOUS
  <2>2. \A i : i \in 1..Len(course) <=> i = 1 \/ i = 2 \/ i = 3
    BY <1>2
  <2>3. Meant(course, 2, 2) /\ Meant(course, 4, 1) /\ ~Meant(course, 6, 1)
    BY <1>2, <2>2 DEF Meant
  <2>4. Silent(course, 6, 1)
    BY <1>2, <2>2 DEF Silent
  <2>5. StepFits(plan, course, 7, 2)
    BY <1>1, <2>3, <2>4 DEF StepFits
  <2>6. StepFits(plan, course, 7, 4)
    BY <1>1, <2>3, <2>4 DEF StepFits
  <2>7. StepFits(plan, course, 7, 6)
    BY <1>1, <2>3, <2>4 DEF StepFits
  <2> QED BY <1>1, <2>1, <2>5, <2>6, <2>7 DEF FitsSteps
<1>9. FitsSilence(plan, 7)
  BY <1>1 DEF FitsSilence
<1> QED BY <1>4, <1>5, <1>6, <1>7, <1>8, <1>9 DEF Fits, plan, course

LEMMA FitsAgainEntryKept ==
    Fits(TestScript("ContentObjectErrors_3", {}), Course("entryKept", "ContentObjectErrors_3"), 6)
<1> DEFINE t == "ContentObjectErrors_3"
           plan == TestScript(t, {})
           course == Course("entryKept", t)
<1>1. /\ t \in Test /\ plan \in Seq(Step) /\ Len(plan) = 6
      /\ plan[1].op = "send" /\ plan[1].links = {1} /\ plan[1].packet = InterestOf(t)
      /\ plan[2].op = "receiveOne" /\ plan[2].step = 1 /\ plan[2].links = {2}
      /\ plan[3].op = "send" /\ plan[3].links = {2} /\ plan[3].packet = AnswerOf(t)
      /\ plan[4].op = "receiveOne" /\ plan[4].step = 3 /\ plan[4].links = {1}
      /\ plan[5].op = "send" /\ plan[5].links = {2} /\ plan[5].packet = AnswerOf(t)
      /\ plan[6].op = "receiveNone" /\ plan[6].step = 5 /\ plan[6].links = {1}
  BY PlanOfAgain
<1>2. /\ Len(course) = 3
      /\ course[1].step = 1 /\ course[1].link = 1
      /\ course[1].out[1] = 0 /\ course[1].out[2] = 2 /\ course[1].out[3] = 0
      /\ course[2].step = 3 /\ course[2].link = 2
      /\ course[2].out[1] = 4 /\ course[2].out[2] = 0 /\ course[2].out[3] = 0
      /\ course[3].step = 5 /\ course[3].link = 2
      /\ course[3].out[1] = 6 /\ course[3].out[2] = 0 /\ course[3].out[3] = 0
  BY DEF Course, CatchingCourse, Sending, LinkA, LinkB, LinkC, Nobody
<1>3. Matches(InterestOf(t), Forwarded(InterestOf(t))) /\ Matches(AnswerOf(t), Forwarded(AnswerOf(t)))
  BY <1>1, ForwardedMatches
<1> HIDE DEF plan, course
<1> USE Rigs DEF SendOp, ReceiveOp
<1>4. FitsTyped(plan, course, 6)
  BY <1>1, <1>2 DEF FitsTyped, Nobody
<1>5. FitsSends(plan, course, 6)
  BY <1>1, <1>2 DEF FitsSends, IsNextBitSet, Meant
<1>6. FitsApart(course)
  BY <1>2 DEF FitsApart
<1>7. FitsReads(plan, course, 6)
  BY <1>1, <1>2, <1>3 DEF FitsReads
<1>8. FitsSteps(plan, course, 6)
  <2>1. \A k \in 1..6 : k = 1 \/ k = 2 \/ k = 3 \/ k = 4 \/ k = 5 \/ k = 6
    OBVIOUS
  <2>2. \A i : i \in 1..Len(course) <=> i = 1 \/ i = 2 \/ i = 3
    BY <1>2
  <2>3. Meant(course, 2, 2) /\ Meant(course, 4, 1) /\ Meant(course, 6, 1)
    BY <1>2, <2>2 DEF Meant
  <2>5. StepFits(plan, course, 6, 2)
    BY <1>1, <2>3 DEF StepFits
  <2>6. StepFits(plan, course, 6, 4)
    BY <1>1, <2>3 DEF StepFits
  <2>7. StepFits(plan, course, 6, 6)
    BY <1>1, <2>3 DEF StepFits
  <2> QED BY <1>1, <2>1, <2>5, <2>6, <2>7 DEF FitsSteps
<1>9. FitsSilence(plan, 6)
  BY <1>1 DEF FitsSilence
<1> QED BY <1>4, <1>5, <1>6, <1>7, <1>8, <1>9 DEF Fits, plan, course

\* The parts of the tests of four steps.
Waits4(t) == CASE t = "FIBTest_BasicInterest_1b" -> {3}
               [] t = "ContentObjectTest_3"      -> {2, 3}
               [] OTHER                          -> {2}

Last4(t) == IF Unanswered(t) THEN "receiveNone" ELSE "receiveOne"

Answer4(t) == IF t \in {"FIBTest_BasicInterest_1a", "ContentObjectTest_3"} THEN Responds(t, 2)
                                                                       ELSE SendsAnswer(t, AnswersOn(t))

LEMMA FourParts ==
    ASSUME NEW t \in Test, t \notin Longer
    PROVE  /\ TestScript(t, {}) = <<SendsInterest(t, LinkA), Poll("receiveOne", 1, Waits4(t)),
                                    Answer4(t), Poll(Last4(t), 3, {LinkA})>>
           /\ TestScript(t, {}) \in Seq(Step) /\ Len(TestScript(t, {})) = 4
           /\ Waits4(t) \in SUBSET {2, 3} /\ Waits4(t) # {}
           /\ AnswersOn(t) \in 1..3
           /\ \/ Answer4(t) = SendsAnswer(t, AnswersOn(t))
              \/ /\ Answer4(t) = Responds(t, 2) /\ AnswersOn(t) \in Waits4(t)
                 /\ \A l \in Waits4(t) : AnswersOn(t) <= l
           /\ Last4(t) \in {"receiveOne", "receiveNone"}
<1>1. TestScript(t, {}) = FourPlan(t)
  BY Plans
<1>2. FourPlan(t) = <<SendsInterest(t, LinkA), Poll("receiveOne", 1, Waits4(t)),
                                    Answer4(t), Poll(Last4(t), 3, {LinkA})>>
  BY DEF FourPlan, Waits4, Answer4, Last4, Unanswered, AnswersOn, LinkB, LinkC
<1>3. TestScript(t, {}) \in Seq(Step)
  BY TestScripts DEF ScriptOf, SuiteScript
<1>4. Len(TestScript(t, {})) = 4
  BY <1>1, <1>2
<1>5. Waits4(t) \in SUBSET {2, 3} /\ Waits4(t) # {} /\ AnswersOn(t) \in 1..3
  BY DEF Waits4, AnswersOn, LinkA, LinkB, LinkC
<1>6. \/ Answer4(t) = SendsAnswer(t, AnswersOn(t))
      \/ /\ Answer4(t) = Responds(t, 2) /\ AnswersOn(t) \in Waits4(t)
         /\ \A l \in Waits4(t) : AnswersOn(t) <= l
  BY DEF Waits4, Answer4, AnswersOn, LinkA, LinkB, LinkC
<1>7. Last4(t) \in {"receiveOne", "receiveNone"}
  BY DEF Last4
<1> QED BY <1>1, <1>2, <1>3, <1>4, <1>5, <1>6, <1>7

\* The course with a correct forwarder, and with each forwarder a test of four steps catches.
FourOut(t) == CASE t = "ContentObjectTest_3"      -> <<0, 2, 2>>
                [] t = "FIBTest_BasicInterest_1b" -> <<0, 0, 2>>
                [] OTHER                          -> <<0, 2, 0>>

LEMMA FourOuts == ASSUME NEW t PROVE \A l \in 1..3 : FourOut(t)[l] = IF l \in Waits4(t) THEN 2 ELSE 0
BY DEF FourOut, Waits4

LEMMA FourCorrect ==
    ASSUME NEW t \in Test, t \notin Longer
    PROVE  Fits(TestScript(t, {}), CorrectCourse(t), 5)
<1> DEFINE course == CorrectCourse(t)
           last == IF Unanswered(t) THEN <<0, 0, 0>> ELSE <<4, 0, 0>>
<1>1. course = << Sending(1, LinkA, FourOut(t), {LinkA}), Sending(3, AnswersOn(t), last, {}) >>
  BY DEF Longer, CorrectCourse, ExchangeCourse, FourOut
<1>2. /\ Len(course) = 2
      /\ course[1].step = 1 /\ course[1].link = 1 /\ course[1].out = FourOut(t)
      /\ course[2].step = 3 /\ course[2].link = AnswersOn(t) /\ course[2].out = last
  BY <1>1 DEF Sending, LinkA
<1>3. last[1] = (IF Unanswered(t) THEN 0 ELSE 4) /\ last[2] = 0 /\ last[3] = 0
  OBVIOUS
<1> HIDE DEF course, last
<1>4. 5 = IF (Last4(t) = "receiveOne" <=> course[2].out[1] = 4) THEN 5 ELSE 4
  BY <1>2, <1>3 DEF Last4
<1>5. \A l \in 1..3 : course[1].out[l] = IF l \in Waits4(t) THEN 2 ELSE 0
  BY <1>2, FourOuts
<1>6. Fits(TestScript(t, {}), course, 5)
  <2> DEFINE waits == Waits4(t)
             s == AnswersOn(t)
             c == Answer4(t)
             last4 == Last4(t)
             plan == TestScript(t, {})
  <2>1. /\ waits \in SUBSET {2, 3} /\ waits # {} /\ s \in 1..3
        /\ c = SendsAnswer(t, s) \/ (c = Responds(t, 2) /\ s \in waits /\ \A l \in waits : s <= l)
        /\ last4 \in {"receiveOne", "receiveNone"} /\ plan \in Seq(Step)
        /\ plan = <<SendsInterest(t, LinkA), Poll("receiveOne", 1, waits), c, Poll(last4, 3, {LinkA})>>
    BY FourParts
  <2>2. /\ course[1].step = 1 /\ course[1].link = 1 /\ course[2].step = 3 /\ course[2].link = s
        /\ \A l \in 1..3 : course[1].out[l] = IF l \in waits THEN 2 ELSE 0
        /\ course[2].out[1] \in {0, 4} /\ course[2].out[2] \in {0, Nobody}
        /\ course[2].out[3] \in {0, Nobody}
        /\ 5 = IF (last4 = "receiveOne" <=> course[2].out[1] = 4) THEN 5 ELSE 4
        /\ Len(course) = 2
    BY <1>2, <1>3, <1>4, <1>5
  <2> HIDE DEF waits, s, c, last4, plan
  <2>3. Fits(plan, course, 5)
    BY <2>1, <2>2, FourFits
  <2> QED BY <2>3 DEF plan
<1> QED BY <1>6 DEF course

FourFaults == {"anyLinkMayAnswer", "hashIgnored", "keyIdIgnored", "nameIgnored",
               "namelessRefused", "manifestsDropped"}

LEMMA FourCaught ==
    ASSUME NEW f \in FourFaults
    PROVE  Fits(TestScript(Catcher(f), {}), CatchingCourse(f), 4)
<1> DEFINE t == Catcher(f)
           course == CatchingCourse(f)
<1>1. t \in Test /\ t \notin Longer /\ Waits4(t) = {2}
  BY Groups DEF FourFaults, Catcher, Longer, Waits4
<1>2. /\ Len(course) = 2
      /\ course[1].step = 1 /\ course[1].link = 1 /\ course[1].out = <<0, 2, 0>>
      /\ course[2].step = 3
      /\ course[2].out \in {<<0, 0, 0>>, <<4, 0, 0>>, <<4, Nobody, Nobody>>}
  BY DEF CatchingCourse, FourFaults, Sending, LinkA, LinkB
<1>3. course[2].link = AnswersOn(t)
  BY DEF CatchingCourse, FourFaults, Sending, AnswersOn, Catcher, LinkA, LinkB, LinkC
<1>4. course[2].out[1] = IF f \in {"namelessRefused", "manifestsDropped"} THEN 0 ELSE 4
  BY DEF CatchingCourse, FourFaults, Sending
<1>5. Unanswered(t) <=> f \notin {"namelessRefused", "manifestsDropped"}
  BY DEF Unanswered, FourFaults, Catcher
<1> HIDE DEF course, t
<1>6. 4 = IF (Last4(t) = "receiveOne" <=> course[2].out[1] = 4) THEN 5 ELSE 4
  <2>1. CASE Unanswered(t)
    <3>1. course[2].out[1] = 4 /\ Last4(t) = "receiveNone"
      BY <1>4, <1>5, <2>1 DEF Last4
    <3> QED BY <3>1
  <2>2. CASE ~Unanswered(t)
    <3>1. course[2].out[1] = 0 /\ Last4(t) = "receiveOne"
      BY <1>4, <1>5, <2>2 DEF Last4
    <3> QED BY <3>1
  <2> QED BY <2>1, <2>2
<1>7. \A l \in 1..3 : course[1].out[l] = IF l \in Waits4(t) THEN 2 ELSE 0
  BY <1>1, <1>2
<1>8. /\ course[2].out[1] \in {0, 4} /\ course[2].out[2] \in {0, Nobody}
      /\ course[2].out[3] \in {0, Nobody}
  BY <1>2
<1>9. Fits(TestScript(t, {}), course, 4)
  <2> DEFINE waits == Waits4(t)
             s == AnswersOn(t)
             c == Answer4(t)
             last4 == Last4(t)
             plan == TestScript(t, {})
  <2>1. /\ waits \in SUBSET {2, 3} /\ waits # {} /\ s \in 1..3
        /\ c = SendsAnswer(t, s) \/ (c = Responds(t, 2) /\ s \in waits /\ \A l \in waits : s <= l)
        /\ last4 \in {"receiveOne", "receiveNone"} /\ plan \in Seq(Step)
        /\ plan = <<SendsInterest(t, LinkA), Poll("receiveOne", 1, waits), c, Poll(last4, 3, {LinkA})>>
    BY <1>1, FourParts
  <2>2. /\ course[1].step = 1 /\ course[1].link = 1 /\ course[2].step = 3 /\ course[2].link = s
        /\ \A l \in 1..3 : course[1].out[l] = IF l \in waits THEN 2 ELSE 0
        /\ course[2].out[1] \in {0, 4} /\ course[2].out[2] \in {0, Nobody}
        /\ course[2].out[3] \in {0, Nobody}
        /\ 4 = IF (last4 = "receiveOne" <=> course[2].out[1] = 4) THEN 5 ELSE 4
        /\ Len(course) = 2
    BY <1>2, <1>3, <1>6, <1>7, <1>8
  <2> HIDE DEF waits, s, c, last4, plan
  <2>3. Fits(plan, course, 4)
    BY <1>1, <2>1, <2>2, FourFits
  <2> QED BY <2>3 DEF plan
<1> QED BY <1>9 DEF course, t

\* Every course that is followed fits its script.
LEMMA CoursesFit == FitsInv
<1> SUFFICES ASSUME NEW f \in Faults, NEW t \in Test, Tracked(f, t)
             PROVE  Fits(TestScript(t, {}), Course(f, t), Stop(f, t))
  BY DEF FitsInv
<1>1. CASE f = "none"
  <2>1. Course(f, t) = CorrectCourse(t) /\ Stop(f, t) = Len(TestScript(t, {})) + 1
    BY <1>1 DEF Course, Stop
  <2>2. CASE t \notin Longer
    <3>1. Len(TestScript(t, {})) = 4
      BY <2>2, FourParts
    <3>2. Stop(f, t) = 5
      <4>1. Stop(f, t) = 4 + 1
        BY <2>1, <3>1, Zenon
      <4> QED BY <4>1
    <3> QED BY <2>1, <2>2, <3>2, FourCorrect
  <2>3. CASE t = "ContentObjectTest_4"
    <3>1. Len(TestScript(t, {})) = 5
      BY <2>3, PlanOfFour
    <3>2. Stop(f, t) = 6
      <4>1. Stop(f, t) = 5 + 1
        BY <2>1, <3>1, Zenon
      <4> QED BY <4>1
    <3> QED BY <1>1, <2>3, <3>2, FitsFourCorrect
  <2>4. CASE t = "ContentObjectTest_5"
    <3>1. Len(TestScript(t, {})) = 6
      BY <2>4, PlanOfFive
    <3>2. Stop(f, t) = 7
      <4>1. Stop(f, t) = 6 + 1
        BY <2>1, <3>1, Zenon
      <4> QED BY <4>1
    <3> QED BY <1>1, <2>4, <3>2, FitsFiveCorrect
  <2>5. CASE t = "ContentObjectTest_6"
    <3>1. Len(TestScript(t, {})) = 6
      BY <2>5, PlanOfSix
    <3>2. Stop(f, t) = 7
      <4>1. Stop(f, t) = 6 + 1
        BY <2>1, <3>1, Zenon
      <4> QED BY <4>1
    <3> QED BY <1>1, <2>5, <3>2, FitsSixCorrect
  <2>6. CASE t = "ContentObjectErrors_3"
    <3>1. Len(TestScript(t, {})) = 6
      BY <2>6, PlanOfAgain
    <3>2. Stop(f, t) = 7
      <4>1. Stop(f, t) = 6 + 1
        BY <2>1, <3>1, Zenon
      <4> QED BY <4>1
    <3> QED BY <1>1, <2>6, <3>2, FitsAgainCorrect
  <2> QED BY <2>2, <2>3, <2>4, <2>5, <2>6 DEF Longer
<1>2. CASE f \in FourFaults
  <2>1. t = Catcher(f) /\ Course(f, t) = CatchingCourse(f) /\ Stop(f, t) = 4
    BY <1>2 DEF FourFaults, Tracked, Course, Stop
  <2> QED BY <1>2, <2>1, FourCaught
<1>3. CASE f = "returnedToSender"
  BY <1>3, FitsFourReturnedToSender DEF Tracked, Catcher, Stop
<1>4. CASE f = "firstRouteOnly"
  BY <1>4, FitsFourFirstRouteOnly DEF Tracked, Catcher, Stop
<1>5. CASE f = "firstAskerOnly"
  BY <1>5, FitsFiveFirstAskerOnly DEF Tracked, Catcher, Stop
<1>6. CASE f = "retransmissionDropped"
  BY <1>6, FitsSixRetransmissionDropped DEF Tracked, Catcher, Stop
<1>7. CASE f = "entryKept"
  BY <1>7, FitsAgainEntryKept DEF Tracked, Catcher, Stop
<1> QED BY <1>1, <1>2, <1>3, <1>4, <1>5, <1>6, <1>7 DEF Tracked, RouteFaults, FourFaults

\* Tests 4 and 5 alone answer an Interest behind a poll for silence.
LEMMA LastSilence ==
    ASSUME NEW t \in Test, t \notin {"ContentObjectTest_4", "ContentObjectTest_5"}
    PROVE  SilenceLast(TestScript(t, {}), CorrectCourse(t))
<1> DEFINE plan == TestScript(t, {})
           course == CorrectCourse(t)
<1>1. Fits(plan, course, Stop("none", t))
  <2>1. "none" \in Faults /\ Tracked("none", t) /\ Course("none", t) = course
    BY DEF Faults, Tracked, Course
  <2> QED BY <2>1, CoursesFit, Zenon DEF FitsInv
<1>2. /\ Len(plan) \in Nat
      /\ \A i \in 1..Len(course) : course[i].step \in 1..Len(plan) /\ plan[course[i].step].op \in SendOp
  <2> DEFINE stop == Stop("none", t)
  <2>1. Fits(plan, course, stop)
    BY <1>1
  <2> HIDE DEF plan, course, stop
  <2>2. FitsTyped(plan, course, stop) /\ FitsSends(plan, course, stop)
    BY <2>1 DEF Fits
  <2>3. Len(plan) \in 4..6 /\ \A i \in 1..Len(course) : course[i].step \in 1..Len(plan)
    BY <2>2 DEF FitsTyped
  <2>4. \A i \in 1..Len(course) : plan[course[i].step].op \in SendOp
    BY <2>2, Zenon DEF FitsSends
  <2> QED BY <2>3, <2>4
<1>3. \A k \in 1..Len(plan) : plan[k].op = "receiveNone" => k = Len(plan)
  <2>1. CASE t \notin Longer
    <3>1. /\ plan = <<SendsInterest(t, LinkA), Poll("receiveOne", 1, Waits4(t)),
                      Answer4(t), Poll(Last4(t), 3, {LinkA})>>
          /\ Len(plan) = 4 /\ (Answer4(t) = SendsAnswer(t, AnswersOn(t)) \/ Answer4(t) = Responds(t, 2))
      BY <2>1, FourParts
    <3> HIDE DEF plan
    <3>2. /\ plan[1] = SendsInterest(t, LinkA) /\ plan[2] = Poll("receiveOne", 1, Waits4(t))
          /\ plan[3] = Answer4(t)
      BY <3>1
    <3>3. plan[1].op = "send" /\ plan[2].op = "receiveOne" /\ plan[3].op \in {"send", "respond"}
      BY <3>1, <3>2, SendFields, RespondFields, PollFields
    <3>4. \A k \in 1..4 : k = 1 \/ k = 2 \/ k = 3 \/ k = 4
      OBVIOUS
    <3> QED BY <3>1, <3>3, <3>4
  <2>2. CASE t \in {"ContentObjectTest_6", "ContentObjectErrors_3"}
    <3>1. /\ Len(plan) = 6
          /\ \A k \in {1, 2, 3, 4, 5} : plan[k].op \in {"send", "respond", "receiveOne"}
      BY <2>2, PlanOfSix, PlanOfAgain
    <3> HIDE DEF plan
    <3>2. \A k \in 1..6 : k \in {1, 2, 3, 4, 5} \/ k = 6
      OBVIOUS
    <3> QED BY <3>1, <3>2
  <2> QED BY <2>1, <2>2 DEF Longer
<1>4. ASSUME NEW k \in 1..Len(plan), plan[k].op = "receiveNone", NEW i \in 1..Len(course)
      PROVE  course[i].step < k
  <2> HIDE DEF plan, course
  <2>1. k = Len(plan) /\ course[i].step \in 1..Len(plan) /\ plan[course[i].step].op \in {"send", "respond"}
    BY <1>2, <1>3, <1>4 DEF SendOp
  <2>2. course[i].step # k
    BY <1>4, <2>1
  <2> QED BY <1>2, <2>1, <2>2
<1> HIDE DEF plan, course
<1>5. SilenceLast(plan, course)
  BY <1>4 DEF SilenceLast
<1> QED BY <1>5 DEF plan, course

------------------------------------------------------------------------------
(* What the forwarder makes of the packets of a test. *)

\* A table whose entries are Interests of the suite.
TestEntries(table) ==
    \A e \in table : e \in Entry /\ \E u \in Test : SameInterest(e, InterestOf(u))

Handled(f, t, l, p, table) ==
    IF p.type = "interest" THEN OnInterest(f, table, l, p, Prefix(t))
                           ELSE OnAnswer(f, table, l, p, Nameless)

\* The faults that leave a forwarded packet and the aggregation of Interests as they should be.
Sane(f) == f \in {"none"} \cup RouteFaults

LEMMA NamesDiffer ==
    ASSUME NEW t \in Test, NEW u \in Test
    PROVE  /\ InterestOf(t).name = InterestOf(u).name => t = u
           /\ InterestOf(t).name # Nameless
           /\ AnswerOf(t).name = IF HasNamelessContent(t) THEN Nameless ELSE InterestOf(t).name
<1>1. InterestOf(t).name = <<Prefix(t), t>> /\ InterestOf(u).name = <<Prefix(u), u>>
  BY DEF InterestOf, RandomName
<1>2. Prefix(t) # ""
  BY DEF Prefix
<1>3. AnswerOf(t).name = IF HasNamelessContent(t) THEN Nameless ELSE InterestOf(t).name
  BY DEF AnswerOf, InterestOf
<1>4. \A a, b, c, d : <<a, b>> = <<c, d>> => a = c /\ b = d
  OBVIOUS
<1>5. InterestOf(t).name = InterestOf(u).name => t = u
  BY <1>1, <1>4
<1>6. InterestOf(t).name # Nameless
  BY <1>1, <1>2, <1>4 DEF Nameless
<1> QED BY <1>3, <1>5, <1>6

LEMMA HopLost ==
    ASSUME NEW f, Sane(f), NEW p
    PROVE  NextHop(f, p) = Forwarded(p)
BY DEF Sane, RouteFaults, NextHop

\* An Interest nobody has asked before goes to the next hops and is remembered.
LEMMA FirstAsk ==
    ASSUME NEW f, Sane(f), NEW t \in Test, NEW table, Own(t, table) = {}, NEW waited
    PROVE  LET done == Handled(f, t, LinkA, InterestOf(t), table)
           IN  /\ done.emits = {<<m, Forwarded(InterestOf(t))>> : m \in NextHops(f, Prefix(t), LinkA)}
               /\ OwnTable(f, t, done.pit, {LinkA}, waited)
<1> DEFINE p == InterestOf(t)
           hops == NextHops(f, Prefix(t), LinkA)
           known == {e \in table : SameInterest(e, p)}
           fresh == [name |-> p.name, keyId |-> p.keyId, hash |-> p.hash, lifetime |-> p.lifetime,
                     age |-> 0, ingress |-> {LinkA}, egress |-> hops]
           done == Handled(f, t, LinkA, p, table)
<1>1. p.type = "interest"
  BY DEF InterestOf
<1>2. known = {}
  BY DEF Own, SameInterest
<1>3. NextHop(f, p) = Forwarded(p)
  BY HopLost
<1>4. [fresh EXCEPT !.ingress = @ \cup UNION {e.ingress : e \in known}] = fresh
  BY <1>2
<1>5. done = [emits |-> {<<m, NextHop(f, p)>> : m \in hops},
              pit   |-> (table \ known)
                            \cup {[fresh EXCEPT !.ingress = @ \cup UNION {e.ingress : e \in known}]}]
  BY <1>1, <1>2 DEF Handled, OnInterest
<1>6. done.emits = {<<m, Forwarded(p)>> : m \in hops} /\ done.pit = table \cup {fresh}
  BY <1>2, <1>3, <1>4, <1>5
<1>7. OwnTable(f, t, done.pit, {LinkA}, waited)
  <2>1. fresh \in done.pit /\ OwnEntry(f, t, fresh, {LinkA}) /\ fresh.age = 0
    BY <1>6 DEF OwnEntry
  <2>2. Own(t, done.pit) = {fresh}
    <3>1. \A e \in table : e.name # p.name
      BY DEF Own
    <3>2. fresh.name = p.name
      OBVIOUS
    <3> HIDE DEF fresh, done, known, p
    <3>3. \A e : e \in done.pit /\ e.name = p.name <=> e = fresh
      BY <1>6, <3>1, <3>2
    <3> QED BY <3>3 DEF Own, p
  <2> HIDE DEF fresh, done
  <2>3. fresh.age \in 0..(IF waited THEN 1000 ELSE 0)
    BY <2>1
  <2> QED BY <2>1, <2>2, <2>3 DEF OwnTable
<1> QED BY <1>6, <1>7

\* Where an Interest goes that somebody has asked before: nowhere unless it is link A that asks again.
Repeats(f, t, l) ==
    IF l = LinkA /\ f # "retransmissionDropped" THEN NextHops(f, Prefix(t), l) ELSE {}

Aggregated(f, t, l, done, waited) ==
    /\ done.emits = {<<m, Forwarded(InterestOf(t))>> : m \in Repeats(f, t, l)}
    /\ OwnTable(f, t, done.pit, {LinkA, l}, waited)

\* One somebody has asked before is remembered for both, and forwarded again for the one who asked.
LEMMA AskAgain ==
    ASSUME NEW f, Sane(f), NEW t \in Test, NEW l \in {LinkA, LinkB}, NEW table, TestEntries(table),
           NEW waited, OwnTable(f, t, table, {LinkA}, waited)
    PROVE  Aggregated(f, t, l, Handled(f, t, l, InterestOf(t), table), waited)
<1> DEFINE p == InterestOf(t)
           known == {e \in table : SameInterest(e, p)}
           again == {e \in known : l \in e.ingress}
           done == Handled(f, t, l, p, table)
<1>1. p.type = "interest"
  BY DEF InterestOf
<1>2. PICK e \in table : /\ Own(t, table) = {e} /\ OwnEntry(f, t, e, {LinkA})
                         /\ e.age \in 0..(IF waited THEN 1000 ELSE 0)
  BY DEF OwnTable
<1>3. known = {e}
  BY <1>2 DEF Own, OwnEntry, SameInterest
<1>4. again = IF l = LinkA THEN {e} ELSE {}
  BY <1>2, <1>3 DEF OwnEntry, LinkA, LinkB
<1>5. NextHop(f, p) = Forwarded(p)
  BY HopLost
<1> DEFINE kept == [e EXCEPT !.ingress = @ \cup {l}]
<1>6. known # {} /\ f # "nothingAggregated"
  BY <1>3 DEF Sane, RouteFaults
<1> DEFINE out == IF again # {} /\ f # "retransmissionDropped"
                  THEN {<<m, NextHop(f, p)>> : m \in NextHops(f, Prefix(t), l)} ELSE {}
           left == (table \ known) \cup {[x EXCEPT !.ingress = @ \cup {l}] : x \in known}
<1>7. done.emits = out /\ done.pit = left
  <2>1. done = [emits |-> out, pit |-> left]
    BY <1>1, <1>6 DEF Handled, OnInterest
  <2> HIDE DEF done, out, left
  <2> QED BY <2>1
<1>8. done.pit = (table \ {e}) \cup {kept}
  <2>1. {[x EXCEPT !.ingress = @ \cup {l}] : x \in known} = {kept}
    <3> HIDE DEF known
    <3> QED BY <1>3
  <2>2. left = (table \ {e}) \cup {kept}
    <3> HIDE DEF known, kept
    <3> QED BY <1>3, <2>1
  <2> QED BY <1>7, <2>2
<1>9. done.emits = {<<m, Forwarded(p)>> : m \in Repeats(f, t, l)}
  <2>1. again # {} <=> l = LinkA
    BY <1>4
  <2> HIDE DEF done, again, p
  <2>2. CASE l = LinkA /\ f # "retransmissionDropped"
    BY <1>5, <1>7, <2>1, <2>2 DEF Repeats
  <2>3. CASE ~(l = LinkA /\ f # "retransmissionDropped")
    BY <1>7, <2>1, <2>3 DEF Repeats
  <2> QED BY <2>2, <2>3
<1>10. OwnTable(f, t, done.pit, {LinkA, l}, waited)
  <2>1. /\ kept.name = e.name /\ kept.keyId = e.keyId /\ kept.hash = e.hash
        /\ kept.lifetime = e.lifetime /\ kept.egress = e.egress /\ kept.age = e.age
        /\ kept.ingress = e.ingress \cup {l}
    BY DEF TestEntries, Entry
  <2> HIDE DEF kept, done
  <2>2. OwnEntry(f, t, kept, {LinkA, l})
    BY <1>2, <2>1 DEF OwnEntry
  <2>3. Own(t, done.pit) = {kept}
    BY <1>2, <1>8, <2>1 DEF Own, OwnEntry
  <2> QED BY <1>2, <1>8, <2>1, <2>2, <2>3 DEF OwnTable
<1> HIDE DEF done
<1> QED BY <1>9, <1>10 DEF Aggregated, done

\* Does the answer of a test answer its Interest?
Accepted(f, t, l) ==
    /\ Answers(f, InterestOf(t), AnswerOf(t), Nameless)
    /\ l \in NextHops(f, Prefix(t), LinkA) \/ f = "anyLinkMayAnswer"

\* The links an accepted answer goes to.
Copies(f, t, asks) == CASE f = "firstAskerOnly" -> Lowest(asks)
                        [] f = "manifestsDropped" /\ AnswerOf(t).type = "manifest" -> {}
                        [] OTHER -> asks

\* An entry is answered when the Interest it stands for is.
LEMMA AnswersLikeInterest ==
    ASSUME NEW f, NEW e, NEW p, NEW q, SameInterest(e, p)
    PROVE  Answers(f, e, q, Nameless) <=> Answers(f, p, q, Nameless)
BY DEF SameInterest, Answers

\* The answer of a test answers no other test.
LEMMA OthersUnanswered ==
    ASSUME NEW f, NEW t \in Test, Tracked(f, t), f # "nameIgnored", NEW u \in Test, u # t
    PROVE  ~Answers(f, InterestOf(u), AnswerOf(t), Nameless)
<1> DEFINE a == AnswerOf(t)
           b == InterestOf(u)
<1>1. CASE ~HasNamelessContent(t)
  <2>1. a.name # b.name /\ a.name # Nameless
    BY <1>1, NamesDiffer
  <2> QED BY <2>1 DEF Answers
<1>2. CASE HasNamelessContent(t)
  <2>1. a.name # b.name
    BY <1>2, NamesDiffer
  <2>2. b.hash = HashRestriction(u) /\ b.keyId = KeyIdRestriction(u)
        /\ a.hash = ContentHash(t) /\ a.keyId = ContentKeyId(t)
    BY DEF InterestOf, AnswerOf
  <2>3. f \notin {"hashIgnored", "keyIdIgnored"}
    BY <1>2 DEF HasNamelessContent, Tracked, Catcher
  <2> HIDE DEF a, b
  <2>4. SUFFICES ASSUME HashRestriction(u) # "none", HashRestriction(u) = ContentHash(t),
                        KeyIdRestriction(u) \in {"none", ContentKeyId(t)}
                 PROVE  FALSE
    BY <2>1, <2>2, <2>3 DEF Answers, a, b
  <2> QED BY <1>2, <2>4 DEF HashRestriction, ContentHash, KeyIdRestriction, ContentKeyId, HasNamelessContent
<1> QED BY <1>1, <1>2

\* The entries an answer answers, and who asked for them.
Matched(f, t, l, table) ==
    {e \in table : /\ Answers(f, e, AnswerOf(t), Nameless)
                   /\ l \in e.egress \/ f = "anyLinkMayAnswer"}
Askers(f, t, l, table) == UNION {e.ingress : e \in Matched(f, t, l, table)}
Left(f, t, l, table) == IF f = "entryKept" THEN table ELSE table \ Matched(f, t, l, table)
CopiesOut(f, t, askers) == {<<m, AnswerOf(t)>> : m \in IF askers = {} THEN {} ELSE Copies(f, t, askers)}

\* What an answer does, in these terms.
LEMMA AnswerHandled ==
    ASSUME NEW f, Sane(f), NEW t, NEW l, NEW table
    PROVE  /\ Handled(f, t, l, AnswerOf(t), table).emits = CopiesOut(f, t, Askers(f, t, l, table))
           /\ Handled(f, t, l, AnswerOf(t), table).pit = Left(f, t, l, table)
<1> DEFINE p == AnswerOf(t)
           matched == Matched(f, t, l, table)
           askers == Askers(f, t, l, table)
           copies == CASE f = "firstAskerOnly"                -> Lowest(askers)
                       [] f = "contentCopiedToEveryLink"    -> {1, 2, 3} \ {l}
                       [] f = "manifestsDropped" /\ p.type = "manifest" -> {}
                       [] OTHER                                     -> askers
           out == IF askers = {} THEN {} ELSE {<<m, p>> : m \in copies}
           left == IF f = "entryKept" THEN table ELSE table \ matched
           done == Handled(f, t, l, p, table)
<1>1. p.type # "interest"
  BY DEF AnswerOf
<1>2. done = OnAnswer(f, table, l, p, Nameless)
  BY <1>1 DEF Handled
<1>3. OnAnswer(f, table, l, p, Nameless) = [emits |-> out, pit |-> left]
  BY Zenon DEF OnAnswer, Matched, Askers
<1>4. done.emits = out /\ done.pit = left
  <2> HIDE DEF done, out, left
  <2> QED BY <1>2, <1>3
<1>5. copies = Copies(f, t, askers)
  <2>1. f # "contentCopiedToEveryLink"
    BY DEF Sane, RouteFaults
  <2> HIDE DEF askers, p
  <2>2. CASE f = "firstAskerOnly"
    BY <2>2 DEF Copies
  <2>3. CASE f = "manifestsDropped" /\ p.type = "manifest"
    BY <2>3 DEF Copies, p
  <2>4. CASE f # "firstAskerOnly" /\ ~(f = "manifestsDropped" /\ p.type = "manifest")
    BY <2>1, <2>4 DEF Copies, p
  <2> QED BY <2>2, <2>3, <2>4
<1> HIDE DEF done, copies, askers, matched, p
<1>6. out = {<<m, p>> : m \in IF askers = {} THEN {} ELSE Copies(f, t, askers)}
  <2>1. CASE askers = {}
    BY <2>1
  <2>2. CASE askers # {}
    BY <1>5, <2>2
  <2> QED BY <2>1, <2>2
<1> QED BY <1>4, <1>6 DEF done, askers, matched, p, CopiesOut, Left

\* While nobody asks for the test, its answer is dropped.
Dropped(done, table) == done.emits = {} /\ done.pit = table

LEMMA AnswerUnasked ==
    ASSUME NEW f, Sane(f), NEW t \in Test, Tracked(f, t), f # "nameIgnored", NEW l,
           NEW table, TestEntries(table), Own(t, table) = {}
    PROVE  Dropped(Handled(f, t, l, AnswerOf(t), table), table)
<1> DEFINE p == AnswerOf(t)
           matched == Matched(f, t, l, table)
           askers == Askers(f, t, l, table)
           done == Handled(f, t, l, p, table)
<1>1. matched = {}
  <2> SUFFICES ASSUME NEW e \in table, Answers(f, e, p, Nameless) PROVE FALSE
    BY DEF Matched
  <2>1. PICK u \in Test : SameInterest(e, InterestOf(u))
    BY DEF TestEntries
  <2>2. u # t
    BY <2>1 DEF Own, SameInterest
  <2> QED BY <2>1, <2>2, AnswersLikeInterest, OthersUnanswered
<1>2. askers = {}
  <2> HIDE DEF matched
  <2> QED BY <1>1 DEF Askers, matched
<1>3. done.emits = CopiesOut(f, t, askers) /\ done.pit = Left(f, t, l, table)
  BY Zenon, AnswerHandled
<1> HIDE DEF done, p, matched, askers
<1>4. done.emits = {} /\ done.pit = table
  BY <1>1, <1>2, <1>3 DEF CopiesOut, Left, matched
<1> QED BY <1>4 DEF done, p, Dropped

\* An accepted answer goes to everybody who asked and takes the entry with it; any other is dropped.
LEMMA AnswerAsked ==
    ASSUME NEW f, Sane(f), NEW t \in Test, Tracked(f, t), f # "nameIgnored", NEW l,
           NEW table, TestEntries(table), NEW asks, asks # {}, NEW waited,
           OwnTable(f, t, table, asks, waited)
    PROVE  LET done == Handled(f, t, l, AnswerOf(t), table)
           IN  /\ done.emits = {<<m, AnswerOf(t)>> : m \in IF Accepted(f, t, l) THEN Copies(f, t, asks)
                                                                              ELSE {}}
               /\ OwnTable(f, t, done.pit, IF Accepted(f, t, l) /\ f # "entryKept" THEN {} ELSE asks,
                           waited)
<1> DEFINE p == AnswerOf(t)
           matched == Matched(f, t, l, table)
           askers == Askers(f, t, l, table)
           done == Handled(f, t, l, p, table)
<1>1. PICK e \in table : /\ Own(t, table) = {e} /\ OwnEntry(f, t, e, asks)
                         /\ e.age \in 0..(IF waited THEN 1000 ELSE 0)
  BY DEF OwnTable
<1>2. SameInterest(e, InterestOf(t)) /\ e.egress = NextHops(f, Prefix(t), LinkA) /\ e.ingress = asks
  BY <1>1 DEF OwnEntry, SameInterest
<1>3. \A x \in table : x # e => ~Answers(f, x, p, Nameless)
  <2> SUFFICES ASSUME NEW x \in table, x # e, Answers(f, x, p, Nameless) PROVE FALSE
    OBVIOUS
  <2>1. PICK u \in Test : SameInterest(x, InterestOf(u))
    BY DEF TestEntries
  <2>2. u # t
    BY <1>1, <2>1 DEF Own, SameInterest
  <2> QED BY <2>1, <2>2, AnswersLikeInterest, OthersUnanswered
<1>4. Answers(f, e, p, Nameless) <=> Answers(f, InterestOf(t), p, Nameless)
  BY <1>2, AnswersLikeInterest
<1>5. matched = IF Accepted(f, t, l) THEN {e} ELSE {}
  BY <1>2, <1>3, <1>4 DEF Accepted, Matched
<1>6. askers = IF Accepted(f, t, l) THEN asks ELSE {}
  <2>1. CASE Accepted(f, t, l)
    <3>1. matched = {e}
      BY <1>5, <2>1
    <3> HIDE DEF matched
    <3> QED BY <1>2, <2>1, <3>1 DEF Askers, matched
  <2>2. CASE ~Accepted(f, t, l)
    <3>1. matched = {}
      BY <1>5, <2>2
    <3> HIDE DEF matched
    <3> QED BY <2>2, <3>1 DEF Askers, matched
  <2> QED BY <2>1, <2>2
<1>7. done.emits = CopiesOut(f, t, askers) /\ done.pit = Left(f, t, l, table)
  BY Zenon, AnswerHandled
<1> HIDE DEF done, p, matched, askers
<1>8. done.emits = {<<m, p>> : m \in IF Accepted(f, t, l) THEN Copies(f, t, asks) ELSE {}}
  BY <1>6, <1>7 DEF CopiesOut, p
<1>9. OwnTable(f, t, done.pit, IF Accepted(f, t, l) /\ f # "entryKept" THEN {} ELSE asks, waited)
  <2>1. CASE Accepted(f, t, l) /\ f # "entryKept"
    <3>1. done.pit = table \ {e}
      BY <1>5, <1>7, <2>1 DEF Left, matched
    <3>2. Own(t, done.pit) = {}
      BY <1>1, <3>1 DEF Own
    <3> QED BY <2>1, <3>2 DEF OwnTable
  <2>2. CASE ~(Accepted(f, t, l) /\ f # "entryKept")
    <3>1. done.pit = table
      BY <1>5, <1>7, <2>2 DEF Left, matched
    <3> QED BY <2>2, <3>1
  <2> QED BY <2>1, <2>2
<1> QED BY <1>8, <1>9 DEF done, p

\* Where an Interest goes that comes from link A.
LEMMA RoutesOf == Routes["b"] = {2} /\ Routes["c"] = {3} /\ Routes["bc"] = {2, 3} /\ Routes["ab"] = {1, 2}
BY DEF Routes

LEMMA LessOne ==
    {2} \ {1} = {2} /\ {3} \ {1} = {3} /\ {2, 3} \ {1} = {2, 3} /\ {1, 2} \ {1} = {2}
<1>1. \A x : x \in {2} \ {1} <=> x \in {2}
  OBVIOUS
<1>2. \A x : x \in {3} \ {1} <=> x \in {3}
  OBVIOUS
<1>3. \A x : x \in {2, 3} \ {1} <=> x \in {2, 3}
  OBVIOUS
<1>4. \A x : x \in {1, 2} \ {1} <=> x \in {2}
  OBVIOUS
<1> QED BY <1>1, <1>2, <1>3, <1>4, Zenon

LEMMA Hops ==
    ASSUME NEW f, f \notin {"returnedToSender", "firstRouteOnly"}
    PROVE  /\ NextHops(f, "b", LinkA) = {2} /\ NextHops(f, "c", LinkA) = {3}
           /\ NextHops(f, "bc", LinkA) = {2, 3} /\ NextHops(f, "ab", LinkA) = {2}
<1>1. \A prefix : NextHops(f, prefix, LinkA) = Routes[prefix] \ {1}
  BY DEF NextHops, LinkA
<1>2. NextHops(f, "b", LinkA) = {2}
  <2>1. NextHops(f, "b", LinkA) = {2} \ {1}
    BY <1>1, RoutesOf, Zenon
  <2> QED BY <2>1, LessOne, Zenon
<1>3. NextHops(f, "c", LinkA) = {3}
  <2>1. NextHops(f, "c", LinkA) = {3} \ {1}
    BY <1>1, RoutesOf, Zenon
  <2> QED BY <2>1, LessOne, Zenon
<1>4. NextHops(f, "bc", LinkA) = {2, 3}
  <2>1. NextHops(f, "bc", LinkA) = {2, 3} \ {1}
    BY <1>1, RoutesOf, Zenon
  <2> QED BY <2>1, LessOne, Zenon
<1>5. NextHops(f, "ab", LinkA) = {2}
  <2>1. NextHops(f, "ab", LinkA) = {1, 2} \ {1}
    BY <1>1, RoutesOf, Zenon
  <2> QED BY <2>1, LessOne, Zenon
<1> QED BY <1>2, <1>3, <1>4, <1>5


\* A name that is not looked at lets an answer through to others, too: to link A in any case.
LEMMA AnswerToAnyName ==
    ASSUME NEW t, t = Catcher("nameIgnored"), NEW table, TestEntries(table), NEW waited,
           OwnTable("nameIgnored", t, table, {LinkA}, waited)
    PROVE  \E links \in SUBSET LinkID :
              LinkA \in links /\ EmitsOn(Handled("nameIgnored", t, LinkB, AnswerOf(t), table), links, AnswerOf(t))
<1> DEFINE f == "nameIgnored"
           askers == Askers(f, t, LinkB, table)
<1>1. t = "ContentObjectRestrictionErrors_4" /\ t \in Test /\ Sane(f)
  BY Groups DEF Catcher, Sane, RouteFaults
<1>2. PICK e \in table : Own(t, table) = {e} /\ OwnEntry(f, t, e, {LinkA})
  BY DEF OwnTable
<1>3. SameInterest(e, InterestOf(t)) /\ e.egress = NextHops(f, Prefix(t), LinkA) /\ e.ingress = {LinkA}
  BY <1>2 DEF OwnEntry, SameInterest
<1>4. Answers(f, InterestOf(t), AnswerOf(t), Nameless)
  <2>1. AnswerOf(t).name = Nameless /\ AnswerOf(t).keyId = "key"
    BY <1>1 DEF AnswerOf, HasNamelessContent, ContentKeyId
  <2>2. InterestOf(t).hash = "none" /\ InterestOf(t).keyId = "key"
    BY <1>1 DEF InterestOf, HashRestriction, KeyIdRestriction
  <2> QED BY <2>1, <2>2 DEF Answers
<1>5. LinkB \in e.egress
  BY <1>1, <1>3, Hops DEF Prefix, LinkB
<1>6. e \in Matched(f, t, LinkB, table)
  BY <1>3, <1>4, <1>5, AnswersLikeInterest DEF Matched
<1>7. LinkA \in askers
  BY <1>3, <1>6 DEF Askers
<1>8. askers \subseteq LinkID
  BY Rigs DEF Askers, Matched, TestEntries, Entry
<1>9. Copies(f, t, askers) = askers
  BY DEF Copies
<1>10. Handled(f, t, LinkB, AnswerOf(t), table).emits = CopiesOut(f, t, Askers(f, t, LinkB, table))
  BY <1>1, AnswerHandled, Zenon
<1> HIDE DEF askers
<1>11. CopiesOut(f, t, askers) = {<<m, AnswerOf(t)>> : m \in askers}
  BY <1>7, <1>9 DEF CopiesOut
<1> QED BY <1>7, <1>8, <1>10, <1>11 DEF askers, EmitsOn

------------------------------------------------------------------------------
(* What the forwarder makes of each packet of a course. *)

\* What comes out of packet p, sent on the link of s, is what s says, and so is who is left waiting.
Serves(f, t, s, p, table, waited, last) ==
    LET done == Handled(f, t, s.link, p, table)
    IN  /\ \E links \in SUBSET LinkID :
              /\ done.emits = {<<m, Forwarded(p)>> : m \in links}
              /\ \A l \in links : s.out[l] # 0
              /\ \A l \in LinkID : s.out[l] \notin {0, Nobody} => l \in links
        /\ last \/ OwnTable(f, t, done.pit, s.asks, waited)

\* On the way of all of them: the links a packet goes to are those the course names.
LEMMA Serving ==
    ASSUME NEW f, NEW t, NEW s, NEW p, NEW table, NEW waited, NEW last,
           NEW links \in SUBSET LinkID,
           Handled(f, t, s.link, p, table).emits = {<<m, Forwarded(p)>> : m \in links},
           \A l \in LinkID : l \in links <=> s.out[l] # 0,
           last \/ OwnTable(f, t, Handled(f, t, s.link, p, table).pit, s.asks, waited)
    PROVE  Serves(f, t, s, p, table, waited, last)
BY Zenon DEF Serves

LEMMA ServesFirst ==
    ASSUME NEW f, Sane(f), NEW t \in Test, NEW s, s.link = LinkA, s.asks = {LinkA},
           \A l \in LinkID : l \in NextHops(f, Prefix(t), LinkA) <=> s.out[l] # 0,
           NextHops(f, Prefix(t), LinkA) \subseteq LinkID,
           NEW table, NEW waited, OwnTable(f, t, table, {}, waited), NEW last
    PROVE  Serves(f, t, s, InterestOf(t), table, waited, last)
<1>1. Own(t, table) = {}
  BY DEF OwnTable
<1> DEFINE done == Handled(f, t, LinkA, InterestOf(t), table)
<1>2. /\ done.emits = {<<m, Forwarded(InterestOf(t))>> : m \in NextHops(f, Prefix(t), LinkA)}
      /\ OwnTable(f, t, done.pit, {LinkA}, waited)
  BY <1>1, FirstAsk, Zenon
<1> QED BY <1>2, Serving, Zenon

LEMMA ServesAgain ==
    ASSUME NEW f, Sane(f), NEW t \in Test, NEW s, s.link \in {LinkA, LinkB}, s.asks = {LinkA, s.link},
           Repeats(f, t, s.link) \subseteq LinkID,
           \A l \in LinkID : l \in Repeats(f, t, s.link) <=> s.out[l] # 0,
           NEW table, TestEntries(table), NEW waited, OwnTable(f, t, table, {LinkA}, waited), NEW last
    PROVE  Serves(f, t, s, InterestOf(t), table, waited, last)
<1> DEFINE done == Handled(f, t, s.link, InterestOf(t), table)
<1>0. Aggregated(f, t, s.link, done, waited)
  BY AskAgain, Zenon
<1> HIDE DEF done
<1>1. done.emits = {<<m, Forwarded(InterestOf(t))>> : m \in Repeats(f, t, s.link)}
  BY <1>0 DEF Aggregated
<1>2. OwnTable(f, t, done.pit, s.asks, waited)
  BY <1>0 DEF Aggregated
<1> QED BY <1>1, <1>2, Serving, Zenon DEF done

LEMMA ServesAnswer ==
    ASSUME NEW f, Sane(f), NEW t \in Test, Tracked(f, t), f # "nameIgnored", NEW s,
           NEW asks, asks # {}, NEW copies, copies = (IF Accepted(f, t, s.link) THEN Copies(f, t, asks) ELSE {}),
           copies \subseteq LinkID, \A l \in LinkID : l \in copies <=> s.out[l] # 0,
           NEW last, last \/ s.asks = IF Accepted(f, t, s.link) /\ f # "entryKept" THEN {} ELSE asks,
           NEW table, TestEntries(table), NEW waited, OwnTable(f, t, table, asks, waited)
    PROVE  Serves(f, t, s, AnswerOf(t), table, waited, last)
<1> DEFINE done == Handled(f, t, s.link, AnswerOf(t), table)
<1>1. /\ done.emits = {<<m, AnswerOf(t)>> : m \in IF Accepted(f, t, s.link) THEN Copies(f, t, asks) ELSE {}}
      /\ OwnTable(f, t, done.pit, IF Accepted(f, t, s.link) /\ f # "entryKept" THEN {} ELSE asks, waited)
  BY AnswerAsked, Zenon
<1>2. done.emits = {<<m, Forwarded(AnswerOf(t))>> : m \in copies}
  BY <1>1, ForwardedMatches
<1>3. last \/ OwnTable(f, t, done.pit, s.asks, waited)
  BY <1>1
<1> HIDE DEF done
<1> QED BY <1>2, <1>3, Serving, Zenon DEF done

LEMMA ServesUnasked ==
    ASSUME NEW f, Sane(f), NEW t \in Test, Tracked(f, t), f # "nameIgnored", NEW s, s.asks = {},
           \A l \in LinkID : s.out[l] = 0,
           NEW table, TestEntries(table), NEW waited, OwnTable(f, t, table, {}, waited), NEW last
    PROVE  Serves(f, t, s, AnswerOf(t), table, waited, last)
<1> DEFINE done == Handled(f, t, s.link, AnswerOf(t), table)
<1>1. Own(t, table) = {}
  BY DEF OwnTable
<1>2. Dropped(done, table)
  BY <1>1, AnswerUnasked, Zenon
<1> HIDE DEF done
<1>3. done.emits = {<<m, Forwarded(AnswerOf(t))>> : m \in {}}
  BY <1>2 DEF Dropped
<1>4. OwnTable(f, t, done.pit, s.asks, waited)
  BY <1>2 DEF Dropped
<1> QED BY <1>3, <1>4, Serving, Zenon DEF done

LEMMA ServesAnyName ==
    ASSUME NEW t, t = Catcher("nameIgnored"), NEW s, s.link = LinkB,
           \A l \in LinkID : s.out[l] # 0 /\ (s.out[l] # Nobody => l = LinkA),
           NEW table, TestEntries(table), NEW waited, OwnTable("nameIgnored", t, table, {LinkA}, waited)
    PROVE  Serves("nameIgnored", t, s, AnswerOf(t), table, waited, TRUE)
<1>1. t \in Test
  BY Groups DEF Catcher
<1>2. PICK links \in SUBSET LinkID :
              LinkA \in links /\ EmitsOn(Handled("nameIgnored", t, LinkB, AnswerOf(t), table), links, AnswerOf(t))
  BY AnswerToAnyName, Zenon
<1>3. Forwarded(AnswerOf(t)) = AnswerOf(t)
  BY <1>1, ForwardedMatches
<1> DEFINE done == Handled("nameIgnored", t, LinkB, AnswerOf(t), table)
<1>4. done.emits = {<<m, Forwarded(AnswerOf(t))>> : m \in links}
  BY <1>2, <1>3 DEF EmitsOn
<1>5. /\ \A l \in links : s.out[l] # 0
      /\ \A l \in LinkID : s.out[l] \notin {0, Nobody} => l \in links
  BY <1>2
<1> QED BY <1>4, <1>5, Zenon DEF Serves

------------------------------------------------------------------------------
(* Every packet of every course is served as the course says. *)

Served(f, t, i, table, waited) ==
    Serves(f, t, Course(f, t)[i], TestScript(t, {})[Course(f, t)[i].step].packet, table, waited,
           i = Len(Course(f, t)))

\* A test without restrictions is answered by its own name.
LEMMA PlainAnswers ==
    ASSUME NEW f, NEW t \in Test, HashRestriction(t) = "none", KeyIdRestriction(t) = "none",
           ~HasNamelessContent(t)
    PROVE  Answers(f, InterestOf(t), AnswerOf(t), Nameless)
<1>1. InterestOf(t).hash = "none" /\ InterestOf(t).keyId = "none"
  BY DEF InterestOf
<1>2. AnswerOf(t).name = InterestOf(t).name
  BY NamesDiffer
<1> QED BY <1>1, <1>2 DEF Answers

LEMMA LowestOfTwo == Lowest({1, 2}) = {1}
<1> DEFINE l == CHOOSE l \in {1, 2} : \A m \in {1, 2} : l <= m
<1>1. l \in {1, 2} /\ \A m \in {1, 2} : l <= m
  <2>1. \E x \in {1, 2} : \A m \in {1, 2} : x <= m
    OBVIOUS
  <2> QED BY <2>1
<1>2. l = 1
  <2> HIDE DEF l
  <2> QED BY <1>1
<1> QED BY <1>2 DEF Lowest

LEMMA ServedFourCorrect ==
    ASSUME NEW f, f = "none", NEW t, t = "ContentObjectTest_4", NEW table, TestEntries(table), NEW waited,
           NEW i \in 1..Len(Course(f, t)), OwnTable(f, t, table, Asks(Course(f, t), i - 1), waited)
    PROVE  Served(f, t, i, table, waited)
<1> DEFINE plan == TestScript(t, {})
           course == Course(f, t)
<1>1. t \in Test /\ plan[1].packet = InterestOf(t) /\ plan[4].packet = AnswerOf(t)
  BY PlanOfFour
<1>2. Len(course) = 2
      /\ course[1].step = 1 /\ course[1].link = 1 /\ course[1].asks = {1}
      /\ course[1].out[1] = 0 /\ course[1].out[2] = 2 /\ course[1].out[3] = 0
      /\ course[2].step = 4 /\ course[2].link = 2 /\ course[2].asks = {}
      /\ course[2].out[1] = 5 /\ course[2].out[2] = 0 /\ course[2].out[3] = 0
  BY DEF Course, CorrectCourse, Sending, LinkA, LinkB, LinkC, Nobody
<1>3. Sane(f) /\ Tracked(f, t) /\ f # "nameIgnored"
  BY DEF Sane, Tracked, RouteFaults, Catcher
<1>4. NextHops(f, Prefix(t), LinkA) = {2}
  BY Hops DEF Prefix
<1>5. Asks(course, 0) = {}
  BY DEF Asks
<1>51. Asks(course, 1) = {1}
  BY <1>2 DEF Asks
<1>6. Answers(f, InterestOf(t), AnswerOf(t), Nameless)
  BY <1>1, PlainAnswers DEF HashRestriction, KeyIdRestriction, HasNamelessContent
<1>7. Accepted(f, t, 2)
  BY <1>4, <1>6 DEF Accepted
<1>9. i \in 1..Len(course) /\ OwnTable(f, t, table, Asks(course, i - 1), waited)
  OBVIOUS
<1> HIDE DEF plan, course
<1> USE Rigs
<1>11. ASSUME i = 1
       PROVE  Served(f, t, i, table, waited)
  <2> DEFINE s == course[1]
  <2>1. OwnTable(f, t, table, {}, waited)
    <3>1. i - 1 = 0
      BY <1>11
    <3> QED BY <1>9, <3>1, <1>5, Zenon
  <2>2. \A l \in LinkID : l = 1 \/ l = 2 \/ l = 3
    OBVIOUS
  <2>3. \A l \in LinkID : l \in NextHops(f, Prefix(t), LinkA) <=> s.out[l] # 0
    BY <1>2, <1>4, <2>2
  <2>4. NextHops(f, Prefix(t), LinkA) \subseteq LinkID
    BY <1>4
  <2> HIDE DEF s
  <2>5. Serves(f, t, s, InterestOf(t), table, waited, i = Len(course))
    BY <1>1, <1>2, <1>3, <2>1, <2>3, <2>4, ServesFirst DEF s
  <2> QED BY <1>1, <1>2, <1>11, <2>5, Zenon DEF Served, plan, course, s
<1>12. ASSUME i = 2
       PROVE  Served(f, t, i, table, waited)
  <2> DEFINE s == course[2]
  <2>1. OwnTable(f, t, table, {1}, waited)
    <3>1. i - 1 = 1
      BY <1>12
    <3> QED BY <1>9, <3>1, <1>51, Zenon
  <2>2. \A l \in LinkID : l = 1 \/ l = 2 \/ l = 3
    OBVIOUS
  <2>3. Copies(f, t, {1}) = {1}
    BY Zenon DEF Copies
  <2>4. Accepted(f, t, s.link)
    BY <1>2, <1>7
  <2> DEFINE copies == IF Accepted(f, t, s.link) THEN Copies(f, t, {1}) ELSE {}
  <2>41. copies = {1}
    BY <2>3, <2>4
  <2> HIDE DEF copies
  <2>42. copies \subseteq LinkID /\ \A l \in LinkID : l \in copies <=> s.out[l] # 0
    BY <1>2, <2>2, <2>41
  <2>43. s.asks = IF Accepted(f, t, s.link) /\ f # "entryKept" THEN {} ELSE {1}
    BY <1>2, <2>4
  <2> HIDE DEF s
  <2>5. Serves(f, t, s, AnswerOf(t), table, waited, i = Len(course))
    BY <1>1, <1>3, <2>1, <2>42, <2>43, ServesAnswer DEF copies
  <2> QED BY <1>1, <1>2, <1>12, <2>5, Zenon DEF Served, plan, course, s
<1>20. i = 1 \/ i = 2
  BY <1>2, <1>9
<1> QED BY <1>11, <1>12, <1>20

LEMMA ServedFourReturnedToSender ==
    ASSUME NEW f, f = "returnedToSender", NEW t, t = "ContentObjectTest_4", NEW table, TestEntries(table), NEW waited,
           NEW i \in 1..Len(Course(f, t)), OwnTable(f, t, table, Asks(Course(f, t), i - 1), waited)
    PROVE  Served(f, t, i, table, waited)
<1> DEFINE plan == TestScript(t, {})
           course == Course(f, t)
<1>1. t \in Test /\ plan[1].packet = InterestOf(t)
  BY PlanOfFour
<1>2. Len(course) = 1
      /\ course[1].step = 1 /\ course[1].link = 1 /\ course[1].asks = {1}
      /\ course[1].out[1] = 3 /\ course[1].out[2] = 2 /\ course[1].out[3] = 0
  BY DEF Course, CatchingCourse, Sending, LinkA, LinkB, LinkC, Nobody
<1>3. Sane(f) /\ Tracked(f, t) /\ f # "nameIgnored"
  BY DEF Sane, Tracked, RouteFaults, Catcher
<1>4. NextHops(f, Prefix(t), LinkA) = {1, 2}
  <2>1. NextHops(f, Prefix(t), LinkA) = Routes["ab"] \cup {1}
    BY DEF NextHops, Prefix, LinkA
  <2>2. {1, 2} \cup {1} = {1, 2}
    OBVIOUS
  <2> QED BY <2>1, <2>2, RoutesOf, Zenon
<1>5. Asks(course, 0) = {}
  BY DEF Asks
<1>9. i \in 1..Len(course) /\ OwnTable(f, t, table, Asks(course, i - 1), waited)
  OBVIOUS
<1> HIDE DEF plan, course
<1> USE Rigs
<1>11. ASSUME i = 1
       PROVE  Served(f, t, i, table, waited)
  <2> DEFINE s == course[1]
  <2>1. OwnTable(f, t, table, {}, waited)
    <3>1. i - 1 = 0
      BY <1>11
    <3> QED BY <1>9, <3>1, <1>5, Zenon
  <2>2. \A l \in LinkID : l = 1 \/ l = 2 \/ l = 3
    OBVIOUS
  <2>3. \A l \in LinkID : l \in NextHops(f, Prefix(t), LinkA) <=> s.out[l] # 0
    BY <1>2, <1>4, <2>2
  <2>4. NextHops(f, Prefix(t), LinkA) \subseteq LinkID
    BY <1>4
  <2> HIDE DEF s
  <2>5. Serves(f, t, s, InterestOf(t), table, waited, i = Len(course))
    BY <1>1, <1>2, <1>3, <2>1, <2>3, <2>4, ServesFirst DEF s
  <2> QED BY <1>1, <1>2, <1>11, <2>5, Zenon DEF Served, plan, course, s
<1>20. i = 1
  BY <1>2, <1>9
<1> QED BY <1>11, <1>20

LEMMA ServedFourFirstRouteOnly ==
    ASSUME NEW f, f = "firstRouteOnly", NEW t, t = "ContentObjectTest_4", NEW table, TestEntries(table), NEW waited,
           NEW i \in 1..Len(Course(f, t)), OwnTable(f, t, table, Asks(Course(f, t), i - 1), waited)
    PROVE  Served(f, t, i, table, waited)
<1> DEFINE plan == TestScript(t, {})
           course == Course(f, t)
<1>1. t \in Test /\ plan[1].packet = InterestOf(t)
  BY PlanOfFour
<1>2. Len(course) = 1
      /\ course[1].step = 1 /\ course[1].link = 1 /\ course[1].asks = {1}
      /\ course[1].out[1] = 7 /\ course[1].out[2] = 0 /\ course[1].out[3] = 0
  BY DEF Course, CatchingCourse, Sending, LinkA, LinkB, LinkC, Nobody
<1>3. Sane(f) /\ Tracked(f, t) /\ f # "nameIgnored"
  BY DEF Sane, Tracked, RouteFaults, Catcher
<1>4. NextHops(f, Prefix(t), LinkA) = {1}
  <2>1. Prefix(t) = "ab" /\ Routes["ab"] = {1, 2} /\ {1, 2} # {}
    BY RoutesOf DEF Prefix
  <2>2. NextHops(f, "ab", LinkA) = Lowest(Routes["ab"])
    BY <2>1, Zenon DEF NextHops
  <2> QED BY <2>1, <2>2, LowestOfTwo, Zenon
<1>5. Asks(course, 0) = {}
  BY DEF Asks
<1>9. i \in 1..Len(course) /\ OwnTable(f, t, table, Asks(course, i - 1), waited)
  OBVIOUS
<1> HIDE DEF plan, course
<1> USE Rigs
<1>11. ASSUME i = 1
       PROVE  Served(f, t, i, table, waited)
  <2> DEFINE s == course[1]
  <2>1. OwnTable(f, t, table, {}, waited)
    <3>1. i - 1 = 0
      BY <1>11
    <3> QED BY <1>9, <3>1, <1>5, Zenon
  <2>2. \A l \in LinkID : l = 1 \/ l = 2 \/ l = 3
    OBVIOUS
  <2>3. \A l \in LinkID : l \in NextHops(f, Prefix(t), LinkA) <=> s.out[l] # 0
    BY <1>2, <1>4, <2>2
  <2>4. NextHops(f, Prefix(t), LinkA) \subseteq LinkID
    BY <1>4
  <2> HIDE DEF s
  <2>5. Serves(f, t, s, InterestOf(t), table, waited, i = Len(course))
    BY <1>1, <1>2, <1>3, <2>1, <2>3, <2>4, ServesFirst DEF s
  <2> QED BY <1>1, <1>2, <1>11, <2>5, Zenon DEF Served, plan, course, s
<1>20. i = 1
  BY <1>2, <1>9
<1> QED BY <1>11, <1>20

LEMMA ServedFiveCorrect ==
    ASSUME NEW f, f = "none", NEW t, t = "ContentObjectTest_5", NEW table, TestEntries(table), NEW waited,
           NEW i \in 1..Len(Course(f, t)), OwnTable(f, t, table, Asks(Course(f, t), i - 1), waited)
    PROVE  Served(f, t, i, table, waited)
<1> DEFINE plan == TestScript(t, {})
           course == Course(f, t)
<1>1. t \in Test /\ plan[1].packet = InterestOf(t) /\ plan[2].packet = InterestOf(t) /\ plan[5].packet = AnswerOf(t)
  BY PlanOfFive
<1>2. Len(course) = 3
      /\ course[1].step = 1 /\ course[1].link = 1 /\ course[1].asks = {1}
      /\ course[1].out[1] = 0 /\ course[1].out[2] = 0 /\ course[1].out[3] = 3
      /\ course[2].step = 2 /\ course[2].link = 2 /\ course[2].asks = {1, 2}
      /\ course[2].out[1] = 0 /\ course[2].out[2] = 0 /\ course[2].out[3] = 0
      /\ course[3].step = 5 /\ course[3].link = 3 /\ course[3].asks = {}
      /\ course[3].out[1] = 6 /\ course[3].out[2] = 6 /\ course[3].out[3] = 0
  BY DEF Course, CorrectCourse, Sending, LinkA, LinkB, LinkC, Nobody
<1>3. Sane(f) /\ Tracked(f, t) /\ f # "nameIgnored"
  BY DEF Sane, Tracked, RouteFaults, Catcher
<1>4. NextHops(f, Prefix(t), LinkA) = {3}
  BY Hops DEF Prefix
<1>5. Asks(course, 0) = {}
  BY DEF Asks
<1>51. Asks(course, 1) = {1}
  BY <1>2 DEF Asks
<1>52. Asks(course, 2) = {1, 2}
  BY <1>2 DEF Asks
<1>6. Answers(f, InterestOf(t), AnswerOf(t), Nameless)
  BY <1>1, PlainAnswers DEF HashRestriction, KeyIdRestriction, HasNamelessContent
<1>7. Accepted(f, t, 3)
  BY <1>4, <1>6 DEF Accepted
<1>9. i \in 1..Len(course) /\ OwnTable(f, t, table, Asks(course, i - 1), waited)
  OBVIOUS
<1> HIDE DEF plan, course
<1> USE Rigs
<1>11. ASSUME i = 1
       PROVE  Served(f, t, i, table, waited)
  <2> DEFINE s == course[1]
  <2>1. OwnTable(f, t, table, {}, waited)
    <3>1. i - 1 = 0
      BY <1>11
    <3> QED BY <1>9, <3>1, <1>5, Zenon
  <2>2. \A l \in LinkID : l = 1 \/ l = 2 \/ l = 3
    OBVIOUS
  <2>3. \A l \in LinkID : l \in NextHops(f, Prefix(t), LinkA) <=> s.out[l] # 0
    BY <1>2, <1>4, <2>2
  <2>4. NextHops(f, Prefix(t), LinkA) \subseteq LinkID
    BY <1>4
  <2> HIDE DEF s
  <2>5. Serves(f, t, s, InterestOf(t), table, waited, i = Len(course))
    BY <1>1, <1>2, <1>3, <2>1, <2>3, <2>4, ServesFirst DEF s
  <2> QED BY <1>1, <1>2, <1>11, <2>5, Zenon DEF Served, plan, course, s
<1>12. ASSUME i = 2
       PROVE  Served(f, t, i, table, waited)
  <2> DEFINE s == course[2]
  <2>1. OwnTable(f, t, table, {1}, waited)
    <3>1. i - 1 = 1
      BY <1>12
    <3> QED BY <1>9, <3>1, <1>51, Zenon
  <2>2. \A l \in LinkID : l = 1 \/ l = 2 \/ l = 3
    OBVIOUS
  <2>3. Repeats(f, t, s.link) = {}
    BY <1>2, <1>4 DEF Repeats
  <2>31. \A l \in LinkID : l \in Repeats(f, t, s.link) <=> s.out[l] # 0
    BY <1>2, <2>2, <2>3
  <2>32. Repeats(f, t, s.link) \subseteq LinkID
    BY <2>3
  <2>4. s.link \in {LinkA, LinkB} /\ s.asks = {LinkA, s.link}
    BY <1>2
  <2> HIDE DEF s
  <2>5. Serves(f, t, s, InterestOf(t), table, waited, i = Len(course))
    BY <1>1, <1>3, <2>1, <2>31, <2>32, <2>4, ServesAgain
  <2> QED BY <1>1, <1>2, <1>12, <2>5, Zenon DEF Served, plan, course, s
<1>13. ASSUME i = 3
       PROVE  Served(f, t, i, table, waited)
  <2> DEFINE s == course[3]
  <2>1. OwnTable(f, t, table, {1, 2}, waited)
    <3>1. i - 1 = 2
      BY <1>13
    <3> QED BY <1>9, <3>1, <1>52, Zenon
  <2>2. \A l \in LinkID : l = 1 \/ l = 2 \/ l = 3
    OBVIOUS
  <2>3. Copies(f, t, {1, 2}) = {1, 2}
    BY Zenon DEF Copies
  <2>4. Accepted(f, t, s.link)
    BY <1>2, <1>7
  <2> DEFINE copies == IF Accepted(f, t, s.link) THEN Copies(f, t, {1, 2}) ELSE {}
  <2>41. copies = {1, 2}
    BY <2>3, <2>4
  <2> HIDE DEF copies
  <2>42. copies \subseteq LinkID /\ \A l \in LinkID : l \in copies <=> s.out[l] # 0
    BY <1>2, <2>2, <2>41
  <2>43. s.asks = IF Accepted(f, t, s.link) /\ f # "entryKept" THEN {} ELSE {1, 2}
    BY <1>2, <2>4
  <2> HIDE DEF s
  <2>5. Serves(f, t, s, AnswerOf(t), table, waited, i = Len(course))
    BY <1>1, <1>3, <2>1, <2>42, <2>43, ServesAnswer DEF copies
  <2> QED BY <1>1, <1>2, <1>13, <2>5, Zenon DEF Served, plan, course, s
<1>20. i = 1 \/ i = 2 \/ i = 3
  BY <1>2, <1>9
<1> QED BY <1>11, <1>12, <1>13, <1>20

LEMMA ServedFiveFirstAskerOnly ==
    ASSUME NEW f, f = "firstAskerOnly", NEW t, t = "ContentObjectTest_5", NEW table, TestEntries(table), NEW waited,
           NEW i \in 1..Len(Course(f, t)), OwnTable(f, t, table, Asks(Course(f, t), i - 1), waited)
    PROVE  Served(f, t, i, table, waited)
<1> DEFINE plan == TestScript(t, {})
           course == Course(f, t)
<1>1. t \in Test /\ plan[1].packet = InterestOf(t) /\ plan[2].packet = InterestOf(t) /\ plan[5].packet = AnswerOf(t)
  BY PlanOfFive
<1>2. Len(course) = 3
      /\ course[1].step = 1 /\ course[1].link = 1 /\ course[1].asks = {1}
      /\ course[1].out[1] = 0 /\ course[1].out[2] = 0 /\ course[1].out[3] = 3
      /\ course[2].step = 2 /\ course[2].link = 2 /\ course[2].asks = {1, 2}
      /\ course[2].out[1] = 0 /\ course[2].out[2] = 0 /\ course[2].out[3] = 0
      /\ course[3].step = 5 /\ course[3].link = 3 /\ course[3].asks = {}
      /\ course[3].out[1] = 6 /\ course[3].out[2] = 0 /\ course[3].out[3] = 0
  BY DEF Course, CatchingCourse, Sending, LinkA, LinkB, LinkC, Nobody
<1>3. Sane(f) /\ Tracked(f, t) /\ f # "nameIgnored"
  BY DEF Sane, Tracked, RouteFaults, Catcher
<1>4. NextHops(f, Prefix(t), LinkA) = {3}
  BY Hops DEF Prefix
<1>5. Asks(course, 0) = {}
  BY DEF Asks
<1>51. Asks(course, 1) = {1}
  BY <1>2 DEF Asks
<1>52. Asks(course, 2) = {1, 2}
  BY <1>2 DEF Asks
<1>6. Answers(f, InterestOf(t), AnswerOf(t), Nameless)
  BY <1>1, PlainAnswers DEF HashRestriction, KeyIdRestriction, HasNamelessContent
<1>7. Accepted(f, t, 3)
  BY <1>4, <1>6 DEF Accepted
<1>9. i \in 1..Len(course) /\ OwnTable(f, t, table, Asks(course, i - 1), waited)
  OBVIOUS
<1> HIDE DEF plan, course
<1> USE Rigs
<1>11. ASSUME i = 1
       PROVE  Served(f, t, i, table, waited)
  <2> DEFINE s == course[1]
  <2>1. OwnTable(f, t, table, {}, waited)
    <3>1. i - 1 = 0
      BY <1>11
    <3> QED BY <1>9, <3>1, <1>5, Zenon
  <2>2. \A l \in LinkID : l = 1 \/ l = 2 \/ l = 3
    OBVIOUS
  <2>3. \A l \in LinkID : l \in NextHops(f, Prefix(t), LinkA) <=> s.out[l] # 0
    BY <1>2, <1>4, <2>2
  <2>4. NextHops(f, Prefix(t), LinkA) \subseteq LinkID
    BY <1>4
  <2> HIDE DEF s
  <2>5. Serves(f, t, s, InterestOf(t), table, waited, i = Len(course))
    BY <1>1, <1>2, <1>3, <2>1, <2>3, <2>4, ServesFirst DEF s
  <2> QED BY <1>1, <1>2, <1>11, <2>5, Zenon DEF Served, plan, course, s
<1>12. ASSUME i = 2
       PROVE  Served(f, t, i, table, waited)
  <2> DEFINE s == course[2]
  <2>1. OwnTable(f, t, table, {1}, waited)
    <3>1. i - 1 = 1
      BY <1>12
    <3> QED BY <1>9, <3>1, <1>51, Zenon
  <2>2. \A l \in LinkID : l = 1 \/ l = 2 \/ l = 3
    OBVIOUS
  <2>3. Repeats(f, t, s.link) = {}
    BY <1>2, <1>4 DEF Repeats
  <2>31. \A l \in LinkID : l \in Repeats(f, t, s.link) <=> s.out[l] # 0
    BY <1>2, <2>2, <2>3
  <2>32. Repeats(f, t, s.link) \subseteq LinkID
    BY <2>3
  <2>4. s.link \in {LinkA, LinkB} /\ s.asks = {LinkA, s.link}
    BY <1>2
  <2> HIDE DEF s
  <2>5. Serves(f, t, s, InterestOf(t), table, waited, i = Len(course))
    BY <1>1, <1>3, <2>1, <2>31, <2>32, <2>4, ServesAgain
  <2> QED BY <1>1, <1>2, <1>12, <2>5, Zenon DEF Served, plan, course, s
<1>13. ASSUME i = 3
       PROVE  Served(f, t, i, table, waited)
  <2> DEFINE s == course[3]
  <2>1. OwnTable(f, t, table, {1, 2}, waited)
    <3>1. i - 1 = 2
      BY <1>13
    <3> QED BY <1>9, <3>1, <1>52, Zenon
  <2>2. \A l \in LinkID : l = 1 \/ l = 2 \/ l = 3
    OBVIOUS
  <2>3. Copies(f, t, {1, 2}) = {1}
    BY Zenon, LowestOfTwo DEF Copies
  <2>4. Accepted(f, t, s.link)
    BY <1>2, <1>7
  <2> DEFINE copies == IF Accepted(f, t, s.link) THEN Copies(f, t, {1, 2}) ELSE {}
  <2>41. copies = {1}
    BY <2>3, <2>4
  <2> HIDE DEF copies
  <2>42. copies \subseteq LinkID /\ \A l \in LinkID : l \in copies <=> s.out[l] # 0
    BY <1>2, <2>2, <2>41
  <2>43. s.asks = IF Accepted(f, t, s.link) /\ f # "entryKept" THEN {} ELSE {1, 2}
    BY <1>2, <2>4
  <2> HIDE DEF s
  <2>5. Serves(f, t, s, AnswerOf(t), table, waited, i = Len(course))
    BY <1>1, <1>3, <2>1, <2>42, <2>43, ServesAnswer DEF copies
  <2> QED BY <1>1, <1>2, <1>13, <2>5, Zenon DEF Served, plan, course, s
<1>20. i = 1 \/ i = 2 \/ i = 3
  BY <1>2, <1>9
<1> QED BY <1>11, <1>12, <1>13, <1>20

LEMMA ServedSixCorrect ==
    ASSUME NEW f, f = "none", NEW t, t = "ContentObjectTest_6", NEW table, TestEntries(table), NEW waited,
           NEW i \in 1..Len(Course(f, t)), OwnTable(f, t, table, Asks(Course(f, t), i - 1), waited)
    PROVE  Served(f, t, i, table, waited)
<1> DEFINE plan == TestScript(t, {})
           course == Course(f, t)
<1>1. t \in Test /\ plan[1].packet = InterestOf(t) /\ plan[3].packet = InterestOf(t) /\ plan[5].packet = AnswerOf(t)
  BY PlanOfSix
<1>2. Len(course) = 3
      /\ course[1].step = 1 /\ course[1].link = 1 /\ course[1].asks = {1}
      /\ course[1].out[1] = 0 /\ course[1].out[2] = 0 /\ course[1].out[3] = 2
      /\ course[2].step = 3 /\ course[2].link = 1 /\ course[2].asks = {1}
      /\ course[2].out[1] = 0 /\ course[2].out[2] = 0 /\ course[2].out[3] = 4
      /\ course[3].step = 5 /\ course[3].link = 3 /\ course[3].asks = {}
      /\ course[3].out[1] = 6 /\ course[3].out[2] = 0 /\ course[3].out[3] = 0
  BY DEF Course, CorrectCourse, Sending, LinkA, LinkB, LinkC, Nobody
<1>3. Sane(f) /\ Tracked(f, t) /\ f # "nameIgnored"
  BY DEF Sane, Tracked, RouteFaults, Catcher
<1>4. NextHops(f, Prefix(t), LinkA) = {3}
  BY Hops DEF Prefix
<1>5. Asks(course, 0) = {}
  BY DEF Asks
<1>51. Asks(course, 1) = {1}
  BY <1>2 DEF Asks
<1>52. Asks(course, 2) = {1}
  BY <1>2 DEF Asks
<1>6. Answers(f, InterestOf(t), AnswerOf(t), Nameless)
  BY <1>1, PlainAnswers DEF HashRestriction, KeyIdRestriction, HasNamelessContent
<1>7. Accepted(f, t, 3)
  BY <1>4, <1>6 DEF Accepted
<1>9. i \in 1..Len(course) /\ OwnTable(f, t, table, Asks(course, i - 1), waited)
  OBVIOUS
<1> HIDE DEF plan, course
<1> USE Rigs
<1>11. ASSUME i = 1
       PROVE  Served(f, t, i, table, waited)
  <2> DEFINE s == course[1]
  <2>1. OwnTable(f, t, table, {}, waited)
    <3>1. i - 1 = 0
      BY <1>11
    <3> QED BY <1>9, <3>1, <1>5, Zenon
  <2>2. \A l \in LinkID : l = 1 \/ l = 2 \/ l = 3
    OBVIOUS
  <2>3. \A l \in LinkID : l \in NextHops(f, Prefix(t), LinkA) <=> s.out[l] # 0
    BY <1>2, <1>4, <2>2
  <2>4. NextHops(f, Prefix(t), LinkA) \subseteq LinkID
    BY <1>4
  <2> HIDE DEF s
  <2>5. Serves(f, t, s, InterestOf(t), table, waited, i = Len(course))
    BY <1>1, <1>2, <1>3, <2>1, <2>3, <2>4, ServesFirst DEF s
  <2> QED BY <1>1, <1>2, <1>11, <2>5, Zenon DEF Served, plan, course, s
<1>12. ASSUME i = 2
       PROVE  Served(f, t, i, table, waited)
  <2> DEFINE s == course[2]
  <2>1. OwnTable(f, t, table, {1}, waited)
    <3>1. i - 1 = 1
      BY <1>12
    <3> QED BY <1>9, <3>1, <1>51, Zenon
  <2>2. \A l \in LinkID : l = 1 \/ l = 2 \/ l = 3
    OBVIOUS
  <2>3. Repeats(f, t, s.link) = {3}
    BY <1>2, <1>4 DEF Repeats
  <2>31. \A l \in LinkID : l \in Repeats(f, t, s.link) <=> s.out[l] # 0
    BY <1>2, <2>2, <2>3
  <2>32. Repeats(f, t, s.link) \subseteq LinkID
    BY <2>3
  <2>4. s.link \in {LinkA, LinkB} /\ s.asks = {LinkA, s.link}
    BY <1>2
  <2> HIDE DEF s
  <2>5. Serves(f, t, s, InterestOf(t), table, waited, i = Len(course))
    BY <1>1, <1>3, <2>1, <2>31, <2>32, <2>4, ServesAgain
  <2> QED BY <1>1, <1>2, <1>12, <2>5, Zenon DEF Served, plan, course, s
<1>13. ASSUME i = 3
       PROVE  Served(f, t, i, table, waited)
  <2> DEFINE s == course[3]
  <2>1. OwnTable(f, t, table, {1}, waited)
    <3>1. i - 1 = 2
      BY <1>13
    <3> QED BY <1>9, <3>1, <1>52, Zenon
  <2>2. \A l \in LinkID : l = 1 \/ l = 2 \/ l = 3
    OBVIOUS
  <2>3. Copies(f, t, {1}) = {1}
    BY Zenon DEF Copies
  <2>4. Accepted(f, t, s.link)
    BY <1>2, <1>7
  <2> DEFINE copies == IF Accepted(f, t, s.link) THEN Copies(f, t, {1}) ELSE {}
  <2>41. copies = {1}
    BY <2>3, <2>4
  <2> HIDE DEF copies
  <2>42. copies \subseteq LinkID /\ \A l \in LinkID : l \in copies <=> s.out[l] # 0
    BY <1>2, <2>2, <2>41
  <2>43. s.asks = IF Accepted(f, t, s.link) /\ f # "entryKept" THEN {} ELSE {1}
    BY <1>2, <2>4
  <2> HIDE DEF s
  <2>5. Serves(f, t, s, AnswerOf(t), table, waited, i = Len(course))
    BY <1>1, <1>3, <2>1, <2>42, <2>43, ServesAnswer DEF copies
  <2> QED BY <1>1, <1>2, <1>13, <2>5, Zenon DEF Served, plan, course, s
<1>20. i = 1 \/ i = 2 \/ i = 3
  BY <1>2, <1>9
<1> QED BY <1>11, <1>12, <1>13, <1>20

LEMMA ServedSixRetransmissionDropped ==
    ASSUME NEW f, f = "retransmissionDropped", NEW t, t = "ContentObjectTest_6", NEW table, TestEntries(table), NEW waited,
           NEW i \in 1..Len(Course(f, t)), OwnTable(f, t, table, Asks(Course(f, t), i - 1), waited)
    PROVE  Served(f, t, i, table, waited)
<1> DEFINE plan == TestScript(t, {})
           course == Course(f, t)
<1>1. t \in Test /\ plan[1].packet = InterestOf(t) /\ plan[3].packet = InterestOf(t)
  BY PlanOfSix
<1>2. Len(course) = 2
      /\ course[1].step = 1 /\ course[1].link = 1 /\ course[1].asks = {1}
      /\ course[1].out[1] = 0 /\ course[1].out[2] = 0 /\ course[1].out[3] = 2
      /\ course[2].step = 3 /\ course[2].link = 1 /\ course[2].asks = {1}
      /\ course[2].out[1] = 0 /\ course[2].out[2] = 0 /\ course[2].out[3] = 0
  BY DEF Course, CatchingCourse, Sending, LinkA, LinkB, LinkC, Nobody
<1>3. Sane(f) /\ Tracked(f, t) /\ f # "nameIgnored"
  BY DEF Sane, Tracked, RouteFaults, Catcher
<1>4. NextHops(f, Prefix(t), LinkA) = {3}
  BY Hops DEF Prefix
<1>5. Asks(course, 0) = {}
  BY DEF Asks
<1>51. Asks(course, 1) = {1}
  BY <1>2 DEF Asks
<1>9. i \in 1..Len(course) /\ OwnTable(f, t, table, Asks(course, i - 1), waited)
  OBVIOUS
<1> HIDE DEF plan, course
<1> USE Rigs
<1>11. ASSUME i = 1
       PROVE  Served(f, t, i, table, waited)
  <2> DEFINE s == course[1]
  <2>1. OwnTable(f, t, table, {}, waited)
    <3>1. i - 1 = 0
      BY <1>11
    <3> QED BY <1>9, <3>1, <1>5, Zenon
  <2>2. \A l \in LinkID : l = 1 \/ l = 2 \/ l = 3
    OBVIOUS
  <2>3. \A l \in LinkID : l \in NextHops(f, Prefix(t), LinkA) <=> s.out[l] # 0
    BY <1>2, <1>4, <2>2
  <2>4. NextHops(f, Prefix(t), LinkA) \subseteq LinkID
    BY <1>4
  <2> HIDE DEF s
  <2>5. Serves(f, t, s, InterestOf(t), table, waited, i = Len(course))
    BY <1>1, <1>2, <1>3, <2>1, <2>3, <2>4, ServesFirst DEF s
  <2> QED BY <1>1, <1>2, <1>11, <2>5, Zenon DEF Served, plan, course, s
<1>12. ASSUME i = 2
       PROVE  Served(f, t, i, table, waited)
  <2> DEFINE s == course[2]
  <2>1. OwnTable(f, t, table, {1}, waited)
    <3>1. i - 1 = 1
      BY <1>12
    <3> QED BY <1>9, <3>1, <1>51, Zenon
  <2>2. \A l \in LinkID : l = 1 \/ l = 2 \/ l = 3
    OBVIOUS
  <2>3. Repeats(f, t, s.link) = {}
    BY <1>2, <1>4 DEF Repeats
  <2>31. \A l \in LinkID : l \in Repeats(f, t, s.link) <=> s.out[l] # 0
    BY <1>2, <2>2, <2>3
  <2>32. Repeats(f, t, s.link) \subseteq LinkID
    BY <2>3
  <2>4. s.link \in {LinkA, LinkB} /\ s.asks = {LinkA, s.link}
    BY <1>2
  <2> HIDE DEF s
  <2>5. Serves(f, t, s, InterestOf(t), table, waited, i = Len(course))
    BY <1>1, <1>3, <2>1, <2>31, <2>32, <2>4, ServesAgain
  <2> QED BY <1>1, <1>2, <1>12, <2>5, Zenon DEF Served, plan, course, s
<1>20. i = 1 \/ i = 2
  BY <1>2, <1>9
<1> QED BY <1>11, <1>12, <1>20

LEMMA ServedAgainCorrect ==
    ASSUME NEW f, f = "none", NEW t, t = "ContentObjectErrors_3", NEW table, TestEntries(table), NEW waited,
           NEW i \in 1..Len(Course(f, t)), OwnTable(f, t, table, Asks(Course(f, t), i - 1), waited)
    PROVE  Served(f, t, i, table, waited)
<1> DEFINE plan == TestScript(t, {})
           course == Course(f, t)
<1>1. t \in Test /\ plan[1].packet = InterestOf(t) /\ plan[3].packet = AnswerOf(t) /\ plan[5].packet = AnswerOf(t)
  BY PlanOfAgain
<1>2. Len(course) = 3
      /\ course[1].step = 1 /\ course[1].link = 1 /\ course[1].asks = {1}
      /\ course[1].out[1] = 0 /\ course[1].out[2] = 2 /\ course[1].out[3] = 0
      /\ course[2].step = 3 /\ course[2].link = 2 /\ course[2].asks = {}
      /\ course[2].out[1] = 4 /\ course[2].out[2] = 0 /\ course[2].out[3] = 0
      /\ course[3].step = 5 /\ course[3].link = 2 /\ course[3].asks = {}
      /\ course[3].out[1] = 0 /\ course[3].out[2] = 0 /\ course[3].out[3] = 0
  BY DEF Course, CorrectCourse, Sending, LinkA, LinkB, LinkC, Nobody
<1>3. Sane(f) /\ Tracked(f, t) /\ f # "nameIgnored"
  BY DEF Sane, Tracked, RouteFaults, Catcher
<1>4. NextHops(f, Prefix(t), LinkA) = {2}
  BY Hops DEF Prefix
<1>5. Asks(course, 0) = {}
  BY DEF Asks
<1>51. Asks(course, 1) = {1}
  BY <1>2 DEF Asks
<1>52. Asks(course, 2) = {}
  BY <1>2 DEF Asks
<1>6. Answers(f, InterestOf(t), AnswerOf(t), Nameless)
  BY <1>1, PlainAnswers DEF HashRestriction, KeyIdRestriction, HasNamelessContent
<1>7. Accepted(f, t, 2)
  BY <1>4, <1>6 DEF Accepted
<1>9. i \in 1..Len(course) /\ OwnTable(f, t, table, Asks(course, i - 1), waited)
  OBVIOUS
<1> HIDE DEF plan, course
<1> USE Rigs
<1>11. ASSUME i = 1
       PROVE  Served(f, t, i, table, waited)
  <2> DEFINE s == course[1]
  <2>1. OwnTable(f, t, table, {}, waited)
    <3>1. i - 1 = 0
      BY <1>11
    <3> QED BY <1>9, <3>1, <1>5, Zenon
  <2>2. \A l \in LinkID : l = 1 \/ l = 2 \/ l = 3
    OBVIOUS
  <2>3. \A l \in LinkID : l \in NextHops(f, Prefix(t), LinkA) <=> s.out[l] # 0
    BY <1>2, <1>4, <2>2
  <2>4. NextHops(f, Prefix(t), LinkA) \subseteq LinkID
    BY <1>4
  <2> HIDE DEF s
  <2>5. Serves(f, t, s, InterestOf(t), table, waited, i = Len(course))
    BY <1>1, <1>2, <1>3, <2>1, <2>3, <2>4, ServesFirst DEF s
  <2> QED BY <1>1, <1>2, <1>11, <2>5, Zenon DEF Served, plan, course, s
<1>12. ASSUME i = 2
       PROVE  Served(f, t, i, table, waited)
  <2> DEFINE s == course[2]
  <2>1. OwnTable(f, t, table, {1}, waited)
    <3>1. i - 1 = 1
      BY <1>12
    <3> QED BY <1>9, <3>1, <1>51, Zenon
  <2>2. \A l \in LinkID : l = 1 \/ l = 2 \/ l = 3
    OBVIOUS
  <2>3. Copies(f, t, {1}) = {1}
    BY Zenon DEF Copies
  <2>4. Accepted(f, t, s.link)
    BY <1>2, <1>7
  <2> DEFINE copies == IF Accepted(f, t, s.link) THEN Copies(f, t, {1}) ELSE {}
  <2>41. copies = {1}
    BY <2>3, <2>4
  <2> HIDE DEF copies
  <2>42. copies \subseteq LinkID /\ \A l \in LinkID : l \in copies <=> s.out[l] # 0
    BY <1>2, <2>2, <2>41
  <2>43. s.asks = IF Accepted(f, t, s.link) /\ f # "entryKept" THEN {} ELSE {1}
    BY <1>2, <2>4
  <2> HIDE DEF s
  <2>5. Serves(f, t, s, AnswerOf(t), table, waited, i = Len(course))
    BY <1>1, <1>3, <2>1, <2>42, <2>43, ServesAnswer DEF copies
  <2> QED BY <1>1, <1>2, <1>12, <2>5, Zenon DEF Served, plan, course, s
<1>13. ASSUME i = 3
       PROVE  Served(f, t, i, table, waited)
  <2> DEFINE s == course[3]
  <2>1. OwnTable(f, t, table, {}, waited)
    <3>1. i - 1 = 2
      BY <1>13
    <3> QED BY <1>9, <3>1, <1>52, Zenon
  <2>2. \A l \in LinkID : l = 1 \/ l = 2 \/ l = 3
    OBVIOUS
  <2>3. s.asks = {} /\ \A l \in LinkID : s.out[l] = 0
    BY <1>2, <2>2
  <2> HIDE DEF s
  <2>5. Serves(f, t, s, AnswerOf(t), table, waited, i = Len(course))
    BY <1>1, <1>3, <2>1, <2>3, ServesUnasked
  <2> QED BY <1>1, <1>2, <1>13, <2>5, Zenon DEF Served, plan, course, s
<1>20. i = 1 \/ i = 2 \/ i = 3
  BY <1>2, <1>9
<1> QED BY <1>11, <1>12, <1>13, <1>20

LEMMA ServedAgainEntryKept ==
    ASSUME NEW f, f = "entryKept", NEW t, t = "ContentObjectErrors_3", NEW table, TestEntries(table), NEW waited,
           NEW i \in 1..Len(Course(f, t)), OwnTable(f, t, table, Asks(Course(f, t), i - 1), waited)
    PROVE  Served(f, t, i, table, waited)
<1> DEFINE plan == TestScript(t, {})
           course == Course(f, t)
<1>1. t \in Test /\ plan[1].packet = InterestOf(t) /\ plan[3].packet = AnswerOf(t) /\ plan[5].packet = AnswerOf(t)
  BY PlanOfAgain
<1>2. Len(course) = 3
      /\ course[1].step = 1 /\ course[1].link = 1 /\ course[1].asks = {1}
      /\ course[1].out[1] = 0 /\ course[1].out[2] = 2 /\ course[1].out[3] = 0
      /\ course[2].step = 3 /\ course[2].link = 2 /\ course[2].asks = {1}
      /\ course[2].out[1] = 4 /\ course[2].out[2] = 0 /\ course[2].out[3] = 0
      /\ course[3].step = 5 /\ course[3].link = 2 /\ course[3].asks = {1}
      /\ course[3].out[1] = 6 /\ course[3].out[2] = 0 /\ course[3].out[3] = 0
  BY DEF Course, CatchingCourse, Sending, LinkA, LinkB, LinkC, Nobody
<1>3. Sane(f) /\ Tracked(f, t) /\ f # "nameIgnored"
  BY DEF Sane, Tracked, RouteFaults, Catcher
<1>4. NextHops(f, Prefix(t), LinkA) = {2}
  BY Hops DEF Prefix
<1>5. Asks(course, 0) = {}
  BY DEF Asks
<1>51. Asks(course, 1) = {1}
  BY <1>2 DEF Asks
<1>52. Asks(course, 2) = {1}
  BY <1>2 DEF Asks
<1>6. Answers(f, InterestOf(t), AnswerOf(t), Nameless)
  BY <1>1, PlainAnswers DEF HashRestriction, KeyIdRestriction, HasNamelessContent
<1>7. Accepted(f, t, 2)
  BY <1>4, <1>6 DEF Accepted
<1>9. i \in 1..Len(course) /\ OwnTable(f, t, table, Asks(course, i - 1), waited)
  OBVIOUS
<1> HIDE DEF plan, course
<1> USE Rigs
<1>11. ASSUME i = 1
       PROVE  Served(f, t, i, table, waited)
  <2> DEFINE s == course[1]
  <2>1. OwnTable(f, t, table, {}, waited)
    <3>1. i - 1 = 0
      BY <1>11
    <3> QED BY <1>9, <3>1, <1>5, Zenon
  <2>2. \A l \in LinkID : l = 1 \/ l = 2 \/ l = 3
    OBVIOUS
  <2>3. \A l \in LinkID : l \in NextHops(f, Prefix(t), LinkA) <=> s.out[l] # 0
    BY <1>2, <1>4, <2>2
  <2>4. NextHops(f, Prefix(t), LinkA) \subseteq LinkID
    BY <1>4
  <2> HIDE DEF s
  <2>5. Serves(f, t, s, InterestOf(t), table, waited, i = Len(course))
    BY <1>1, <1>2, <1>3, <2>1, <2>3, <2>4, ServesFirst DEF s
  <2> QED BY <1>1, <1>2, <1>11, <2>5, Zenon DEF Served, plan, course, s
<1>12. ASSUME i = 2
       PROVE  Served(f, t, i, table, waited)
  <2> DEFINE s == course[2]
  <2>1. OwnTable(f, t, table, {1}, waited)
    <3>1. i - 1 = 1
      BY <1>12
    <3> QED BY <1>9, <3>1, <1>51, Zenon
  <2>2. \A l \in LinkID : l = 1 \/ l = 2 \/ l = 3
    OBVIOUS
  <2>3. Copies(f, t, {1}) = {1}
    BY Zenon DEF Copies
  <2>4. Accepted(f, t, s.link)
    BY <1>2, <1>7
  <2> DEFINE copies == IF Accepted(f, t, s.link) THEN Copies(f, t, {1}) ELSE {}
  <2>41. copies = {1}
    BY <2>3, <2>4
  <2> HIDE DEF copies
  <2>42. copies \subseteq LinkID /\ \A l \in LinkID : l \in copies <=> s.out[l] # 0
    BY <1>2, <2>2, <2>41
  <2>43. s.asks = IF Accepted(f, t, s.link) /\ f # "entryKept" THEN {} ELSE {1}
    BY <1>2, <2>4
  <2> HIDE DEF s
  <2>5. Serves(f, t, s, AnswerOf(t), table, waited, i = Len(course))
    BY <1>1, <1>3, <2>1, <2>42, <2>43, ServesAnswer DEF copies
  <2> QED BY <1>1, <1>2, <1>12, <2>5, Zenon DEF Served, plan, course, s
<1>13. ASSUME i = 3
       PROVE  Served(f, t, i, table, waited)
  <2> DEFINE s == course[3]
  <2>1. OwnTable(f, t, table, {1}, waited)
    <3>1. i - 1 = 2
      BY <1>13
    <3> QED BY <1>9, <3>1, <1>52, Zenon
  <2>2. \A l \in LinkID : l = 1 \/ l = 2 \/ l = 3
    OBVIOUS
  <2>3. Copies(f, t, {1}) = {1}
    BY Zenon DEF Copies
  <2>4. Accepted(f, t, s.link)
    BY <1>2, <1>7
  <2> DEFINE copies == IF Accepted(f, t, s.link) THEN Copies(f, t, {1}) ELSE {}
  <2>41. copies = {1}
    BY <2>3, <2>4
  <2> HIDE DEF copies
  <2>42. copies \subseteq LinkID /\ \A l \in LinkID : l \in copies <=> s.out[l] # 0
    BY <1>2, <2>2, <2>41
  <2>43. s.asks = IF Accepted(f, t, s.link) /\ f # "entryKept" THEN {} ELSE {1}
    BY <1>2, <2>4
  <2> HIDE DEF s
  <2>5. Serves(f, t, s, AnswerOf(t), table, waited, i = Len(course))
    BY <1>1, <1>3, <2>1, <2>42, <2>43, ServesAnswer DEF copies
  <2> QED BY <1>1, <1>2, <1>13, <2>5, Zenon DEF Served, plan, course, s
<1>20. i = 1 \/ i = 2 \/ i = 3
  BY <1>2, <1>9
<1> QED BY <1>11, <1>12, <1>13, <1>20


\* When the answer of a test answers its Interest.
LEMMA AnswersFields ==
    ASSUME NEW f, NEW t \in Test
    PROVE  Answers(f, InterestOf(t), AnswerOf(t), Nameless) <=>
              /\ \/ ~HasNamelessContent(t)
                 \/ f # "namelessRefused" /\ (HashRestriction(t) # "none" \/ f = "nameIgnored")
              /\ HashRestriction(t) \in {"none", ContentHash(t)} \/ f = "hashIgnored"
              /\ KeyIdRestriction(t) \in {"none", ContentKeyId(t)} \/ f = "keyIdIgnored"
<1>1. InterestOf(t).hash = HashRestriction(t) /\ InterestOf(t).keyId = KeyIdRestriction(t)
  BY DEF InterestOf
<1>2. AnswerOf(t).hash = ContentHash(t) /\ AnswerOf(t).keyId = ContentKeyId(t)
  BY DEF AnswerOf
<1>3. /\ HasNamelessContent(t) => AnswerOf(t).name = Nameless /\ AnswerOf(t).name # InterestOf(t).name
      /\ ~HasNamelessContent(t) => AnswerOf(t).name = InterestOf(t).name
  BY NamesDiffer
<1> QED BY <1>1, <1>2, <1>3 DEF Answers

\* A correct forwarder lets those answers through that the tests expect.
LEMMA CorrectAnswers ==
    ASSUME NEW t \in Test
    PROVE  Answers("none", InterestOf(t), AnswerOf(t), Nameless) <=> t \notin TestsIn(16, 21)
<1>1. CASE t \in TestsIn(16, 21)
  <2>1. /\ HasNamelessContent(t) => HashRestriction(t) = "none" \/ HashRestriction(t) # "none"
        /\ \/ HasNamelessContent(t) /\ HashRestriction(t) = "none"
           \/ HashRestriction(t) \notin {"none", ContentHash(t)}
           \/ KeyIdRestriction(t) \notin {"none", ContentKeyId(t)}
    BY <1>1, Groups DEF HasNamelessContent, HashRestriction, ContentHash, KeyIdRestriction, ContentKeyId
  <2> QED BY <1>1, <2>1, AnswersFields
<1>2. CASE t \in TestsIn(12, 15)
  <2>1. /\ HasNamelessContent(t) => HashRestriction(t) # "none"
        /\ HashRestriction(t) \in {"none", ContentHash(t)}
        /\ KeyIdRestriction(t) \in {"none", ContentKeyId(t)}
        /\ t \notin TestsIn(16, 21)
    BY <1>2, Groups DEF HasNamelessContent, HashRestriction, ContentHash, KeyIdRestriction, ContentKeyId
  <2> QED BY <2>1, AnswersFields
<1>3. CASE t \notin TestsIn(12, 15) /\ t \notin TestsIn(16, 21)
  <2>1. HashRestriction(t) = "none" /\ KeyIdRestriction(t) = "none" /\ ~HasNamelessContent(t)
    BY <1>3, Groups DEF HasNamelessContent, HashRestriction, KeyIdRestriction
  <2> QED BY <1>3, <2>1, PlainAnswers
<1> QED BY <1>1, <1>2, <1>3

LEMMA FourHops ==
    ASSUME NEW f, f \notin {"returnedToSender", "firstRouteOnly"}, NEW t \in Test, t \notin Longer
    PROVE  NextHops(f, Prefix(t), LinkA) = Waits4(t)
<1>1. CASE t = "FIBTest_BasicInterest_1b"
  BY <1>1, Hops DEF Prefix, Waits4
<1>2. CASE t = "ContentObjectTest_3"
  BY <1>2, Hops DEF Prefix, Waits4
<1>3. CASE t \notin {"FIBTest_BasicInterest_1b", "ContentObjectTest_3"}
  <2>1. Prefix(t) = "b" /\ Waits4(t) = {2}
    BY <1>3 DEF Prefix, Waits4, Longer
  <2> QED BY <2>1, Hops
<1> QED BY <1>1, <1>2, <1>3

LEMMA CorrectAccepts ==
    ASSUME NEW t \in Test, t \notin Longer
    PROVE  Accepted("none", t, AnswersOn(t)) <=> ~Unanswered(t)
<1>1. Accepted("none", t, AnswersOn(t)) <=> t \notin TestsIn(16, 21) /\ AnswersOn(t) \in Waits4(t)
  BY CorrectAnswers, FourHops DEF Accepted
<1>2. AnswersOn(t) \notin Waits4(t) <=> t \in {"ContentObjectErrors_1", "ContentObjectErrors_2"}
  BY DEF AnswersOn, Waits4, LinkA, LinkB, LinkC
<1>3. Unanswered(t) <=> t \in TestsIn(16, 21) \/ t \in {"ContentObjectErrors_1", "ContentObjectErrors_2"}
  BY Groups DEF Unanswered
<1> QED BY <1>1, <1>2, <1>3

\* The packets of the tests of four steps.
LEMMA FourPackets ==
    ASSUME NEW t \in Test, t \notin Longer
    PROVE  TestScript(t, {})[1].packet = InterestOf(t) /\ TestScript(t, {})[3].packet = AnswerOf(t)
<1>1. TestScript(t, {})[1] = SendsInterest(t, LinkA) /\ TestScript(t, {})[3] = Answer4(t)
  BY FourParts
<1>2. Answer4(t).packet = AnswerOf(t)
  BY FourParts, SendFields, RespondFields
<1> QED BY <1>1, <1>2, SendFields

\* Their first packet is served the same way whatever the fault.
LEMMA FourFirst ==
    ASSUME NEW f, Sane(f), f \notin {"returnedToSender", "firstRouteOnly"},
           NEW t \in Test, t \notin Longer, NEW s, s.link = LinkA, s.asks = {LinkA},
           \A l \in 1..3 : s.out[l] = IF l \in Waits4(t) THEN 2 ELSE 0,
           NEW table, NEW waited, OwnTable(f, t, table, {}, waited), NEW last
    PROVE  Serves(f, t, s, InterestOf(t), table, waited, last)
<1>1. NextHops(f, Prefix(t), LinkA) = Waits4(t) /\ Waits4(t) \subseteq LinkID
  BY FourHops, FourParts, Rigs
<1>2. \A l \in LinkID : l \in NextHops(f, Prefix(t), LinkA) <=> s.out[l] # 0
  BY <1>1, Rigs
<1> QED BY <1>1, <1>2, ServesFirst

LEMMA ServedFourSteps ==
    ASSUME NEW f, f = "none", NEW t \in Test, t \notin Longer, NEW table, TestEntries(table), NEW waited,
           NEW i \in 1..Len(Course(f, t)), OwnTable(f, t, table, Asks(Course(f, t), i - 1), waited)
    PROVE  Served(f, t, i, table, waited)
<1> DEFINE plan == TestScript(t, {})
           course == Course(f, t)
           last == IF Unanswered(t) THEN <<0, 0, 0>> ELSE <<4, 0, 0>>
<1>1. plan[1].packet = InterestOf(t) /\ plan[3].packet = AnswerOf(t)
  BY FourPackets
<1>2. course = << Sending(1, LinkA, FourOut(t), {LinkA}), Sending(3, AnswersOn(t), last, {}) >>
  BY DEF Course, Longer, CorrectCourse, ExchangeCourse, FourOut
<1>3. /\ Len(course) = 2
      /\ course[1].step = 1 /\ course[1].link = LinkA /\ course[1].out = FourOut(t) /\ course[1].asks = {LinkA}
      /\ course[2].step = 3 /\ course[2].link = AnswersOn(t) /\ course[2].out = last /\ course[2].asks = {}
  BY <1>2 DEF Sending
<1>4. last[1] = (IF Unanswered(t) THEN 0 ELSE 4) /\ last[2] = 0 /\ last[3] = 0
  OBVIOUS
<1>5. Sane(f) /\ Tracked(f, t) /\ f # "nameIgnored" /\ f \notin {"returnedToSender", "firstRouteOnly"}
  BY DEF Sane, Tracked
<1>6. Asks(course, 0) = {}
  BY DEF Asks
<1>7. Asks(course, 1) = {1}
  BY <1>3, Rigs DEF Asks
<1>9. i \in 1..Len(course) /\ OwnTable(f, t, table, Asks(course, i - 1), waited)
  OBVIOUS
<1> HIDE DEF plan, course, last
<1>11. ASSUME i = 1
       PROVE  Served(f, t, i, table, waited)
  <2> DEFINE s == course[1]
  <2>1. OwnTable(f, t, table, {}, waited)
    <3>1. i - 1 = 0
      BY <1>11
    <3> QED BY <1>9, <3>1, <1>6, Zenon
  <2>2. \A l \in 1..3 : s.out[l] = IF l \in Waits4(t) THEN 2 ELSE 0
    BY <1>3, FourOuts
  <2>3. s.link = LinkA /\ s.asks = {LinkA}
    BY <1>3
  <2> HIDE DEF s
  <2>5. Serves(f, t, s, InterestOf(t), table, waited, i = Len(course))
    BY <1>5, <2>1, <2>2, <2>3, FourFirst
  <2> QED BY <1>1, <1>3, <1>11, <2>5, Zenon DEF Served, plan, course, s
<1>12. ASSUME i = 2
       PROVE  Served(f, t, i, table, waited)
  <2> DEFINE s == course[2]
  <2>1. OwnTable(f, t, table, {1}, waited)
    <3>1. i - 1 = 1
      BY <1>12
    <3> QED BY <1>9, <3>1, <1>7, Zenon
  <2>2. \A l \in LinkID : l = 1 \/ l = 2 \/ l = 3
    BY Rigs
  <2>3. Copies(f, t, {1}) = {1}
    BY Zenon DEF Copies
  <2>4. Accepted(f, t, s.link) <=> ~Unanswered(t)
    BY <1>3, CorrectAccepts
  <2> DEFINE copies == IF Accepted(f, t, s.link) THEN Copies(f, t, {1}) ELSE {}
  <2>41. copies = IF Unanswered(t) THEN {} ELSE {1}
    BY <2>3, <2>4
  <2> HIDE DEF copies
  <2>42. copies \subseteq LinkID /\ \A l \in LinkID : l \in copies <=> s.out[l] # 0
    <3>1. s.out[1] = (IF Unanswered(t) THEN 0 ELSE 4) /\ s.out[2] = 0 /\ s.out[3] = 0
      BY <1>3, <1>4
    <3> QED BY <2>2, <2>41, <3>1, Rigs
  <2>43. i = Len(course)
    BY <1>3, <1>12
  <2> HIDE DEF s
  <2>5. Serves(f, t, s, AnswerOf(t), table, waited, i = Len(course))
    BY <1>5, <2>1, <2>42, <2>43, ServesAnswer DEF copies
  <2> QED BY <1>1, <1>3, <1>12, <2>5, Zenon DEF Served, plan, course, s
<1>20. i = 1 \/ i = 2
  BY <1>3, <1>9
<1> QED BY <1>11, <1>12, <1>20

\* The faults a test of four steps shows.
LEMMA CaughtAccepts ==
    ASSUME NEW f \in FourFaults, f # "nameIgnored"
    PROVE  LET t == Catcher(f)
           IN  /\ Accepted(f, t, AnswersOn(t)) <=> f # "namelessRefused"
               /\ Copies(f, t, {1}) = IF f = "manifestsDropped" THEN {} ELSE {1}
<1> DEFINE t == Catcher(f)
<1>0. t \in Test /\ t \notin Longer /\ Waits4(t) = {2}
  BY Groups DEF FourFaults, Catcher, Longer, Waits4
<1>1. NextHops(f, Prefix(t), LinkA) = {2}
  BY <1>0, FourHops DEF FourFaults
<1>2. CASE f = "anyLinkMayAnswer"
  <2>1. t = "ContentObjectErrors_1"
    BY <1>2 DEF Catcher
  <2>2. Answers(f, InterestOf(t), AnswerOf(t), Nameless)
    BY <1>0, <2>1, PlainAnswers DEF HashRestriction, KeyIdRestriction, HasNamelessContent
  <2> QED BY <1>2, <2>2 DEF Accepted, Copies
<1>3. CASE f = "hashIgnored"
  <2>1. t = "ContentObjectRestrictionErrors_1"
    BY <1>3 DEF Catcher
  <2>2. ~HasNamelessContent(t) /\ KeyIdRestriction(t) = "none" /\ AnswersOn(t) = 2
    BY <2>1 DEF HasNamelessContent, KeyIdRestriction, AnswersOn, LinkB
  <2>3. Answers(f, InterestOf(t), AnswerOf(t), Nameless)
    BY <1>0, <1>3, <2>2, AnswersFields
  <2> QED BY <1>1, <1>3, <2>2, <2>3 DEF Accepted, Copies
<1>4. CASE f = "keyIdIgnored"
  <2>1. t = "ContentObjectRestrictionErrors_2"
    BY <1>4 DEF Catcher
  <2>2. ~HasNamelessContent(t) /\ HashRestriction(t) = "none" /\ AnswersOn(t) = 2
    BY <2>1 DEF HasNamelessContent, HashRestriction, AnswersOn, LinkB
  <2>3. Answers(f, InterestOf(t), AnswerOf(t), Nameless)
    BY <1>0, <1>4, <2>2, AnswersFields
  <2> QED BY <1>1, <1>4, <2>2, <2>3 DEF Accepted, Copies
<1>5. CASE f = "namelessRefused"
  <2>1. t = "ContentObjectRestrictions_4"
    BY <1>5 DEF Catcher
  <2>2. HasNamelessContent(t)
    BY <2>1 DEF HasNamelessContent
  <2>3. ~Answers(f, InterestOf(t), AnswerOf(t), Nameless)
    BY <1>0, <1>5, <2>2, AnswersFields
  <2> QED BY <1>5, <2>3 DEF Accepted, Copies
<1>6. CASE f = "manifestsDropped"
  <2>1. t = "ContentObjectTest_2"
    BY <1>6 DEF Catcher
  <2>2. Answers(f, InterestOf(t), AnswerOf(t), Nameless)
    BY <1>0, <2>1, PlainAnswers DEF HashRestriction, KeyIdRestriction, HasNamelessContent
  <2>3. AnswersOn(t) = 2 /\ AnswerOf(t).type = "manifest"
    BY <2>1 DEF AnswersOn, AnswerOf, LinkB
  <2> QED BY <1>1, <1>6, <2>2, <2>3 DEF Accepted, Copies
<1> QED BY <1>2, <1>3, <1>4, <1>5, <1>6 DEF FourFaults

LEMMA ServedCaught ==
    ASSUME NEW f \in FourFaults, NEW t, t = Catcher(f), NEW table, TestEntries(table), NEW waited,
           NEW i \in 1..Len(Course(f, t)), OwnTable(f, t, table, Asks(Course(f, t), i - 1), waited)
    PROVE  Served(f, t, i, table, waited)
<1> DEFINE plan == TestScript(t, {})
           course == Course(f, t)
<1>0. t \in Test /\ t \notin Longer /\ Waits4(t) = {2}
  BY Groups DEF FourFaults, Catcher, Longer, Waits4
<1>1. plan[1].packet = InterestOf(t) /\ plan[3].packet = AnswerOf(t)
  BY <1>0, FourPackets
<1>2. course = CatchingCourse(f)
  BY DEF Course, FourFaults
<1>31. LET c == CatchingCourse(f)
       IN  /\ Len(c) = 2
           /\ c[1].step = 1 /\ c[1].link = LinkA /\ c[1].out = <<0, 2, 0>> /\ c[1].asks = {LinkA}
           /\ c[2].step = 3
  BY DEF CatchingCourse, FourFaults, Sending
<1>3. /\ Len(course) = 2
      /\ course[1].step = 1 /\ course[1].link = LinkA /\ course[1].out = <<0, 2, 0>> /\ course[1].asks = {LinkA}
      /\ course[2].step = 3
  BY <1>2, <1>31, Zenon
<1>40. CatchingCourse(f)[2].link = AnswersOn(t)
  BY DEF CatchingCourse, FourFaults, Sending, AnswersOn, Catcher, LinkA, LinkB, LinkC
<1>4. course[2].link = AnswersOn(t)
  BY <1>2, <1>40, Zenon
<1>41. course[2].out = CASE f = "nameIgnored"                               -> <<4, Nobody, Nobody>>
                         [] f \in {"namelessRefused", "manifestsDropped"} -> <<0, 0, 0>>
                         [] OTHER                                         -> <<4, 0, 0>>
  BY <1>2 DEF CatchingCourse, FourFaults, Sending
<1>5. Sane(f) /\ Tracked(f, t) /\ f \notin {"returnedToSender", "firstRouteOnly"}
  BY DEF Sane, Tracked, RouteFaults, FourFaults
<1>6. Asks(course, 0) = {}
  BY DEF Asks
<1>7. Asks(course, 1) = {1}
  BY <1>3, Rigs DEF Asks
<1>9. i \in 1..Len(course) /\ OwnTable(f, t, table, Asks(course, i - 1), waited)
  OBVIOUS
<1> HIDE DEF plan, course
<1>11. ASSUME i = 1
       PROVE  Served(f, t, i, table, waited)
  <2> DEFINE s == course[1]
  <2>1. OwnTable(f, t, table, {}, waited)
    <3>1. i - 1 = 0
      BY <1>11
    <3> QED BY <1>9, <3>1, <1>6, Zenon
  <2>2. \A l \in 1..3 : s.out[l] = IF l \in Waits4(t) THEN 2 ELSE 0
    BY <1>0, <1>3
  <2>3. s.link = LinkA /\ s.asks = {LinkA}
    BY <1>3
  <2> HIDE DEF s
  <2>5. Serves(f, t, s, InterestOf(t), table, waited, i = Len(course))
    BY <1>0, <1>5, <2>1, <2>2, <2>3, FourFirst
  <2> QED BY <1>1, <1>3, <1>11, <2>5, Zenon DEF Served, plan, course, s
<1>12. ASSUME i = 2
       PROVE  Served(f, t, i, table, waited)
  <2> DEFINE s == course[2]
  <2>1. OwnTable(f, t, table, {1}, waited)
    <3>1. i - 1 = 1
      BY <1>12
    <3> QED BY <1>9, <3>1, <1>7, Zenon
  <2>2. \A l \in LinkID : l = 1 \/ l = 2 \/ l = 3
    BY Rigs
  <2>43. (i = Len(course)) <=> TRUE
    BY <1>3, <1>12
  <2>44. s.link = AnswersOn(t)
    BY <1>4
  <2>3. CASE f = "nameIgnored"
    <3>1. s.out[1] = 4 /\ s.out[2] = Nobody /\ s.out[3] = Nobody
      BY <1>41, <2>3
    <3>2. s.link = LinkB
      BY <1>4, <2>3 DEF AnswersOn, Catcher
    <3>3. \A l \in LinkID : s.out[l] # 0 /\ (s.out[l] # Nobody => l = LinkA)
      BY <2>2, <3>1, Rigs DEF Nobody
    <3> HIDE DEF s
    <3>4. Serves("nameIgnored", t, s, AnswerOf(t), table, waited, TRUE)
      <4>1. t = Catcher("nameIgnored") /\ OwnTable("nameIgnored", t, table, {LinkA}, waited)
        BY <2>1, <2>3, Rigs
      <4> QED BY <3>2, <3>3, <4>1, ServesAnyName
    <3>5. Serves(f, t, s, AnswerOf(t), table, waited, i = Len(course))
      BY <2>3, <2>43, <3>4 DEF Serves
    <3> QED BY <1>1, <1>3, <1>12, <3>5, Zenon DEF Served, plan, course, s
  <2>4. CASE f # "nameIgnored"
    <3> DEFINE copies == IF Accepted(f, t, s.link) THEN Copies(f, t, {1}) ELSE {}
    <3>1. /\ Accepted(f, t, AnswersOn(t)) <=> f # "namelessRefused"
          /\ Copies(f, t, {1}) = IF f = "manifestsDropped" THEN {} ELSE {1}
      BY <2>4, CaughtAccepts
    <3>2. copies = IF f \in {"namelessRefused", "manifestsDropped"} THEN {} ELSE {1}
      BY <2>44, <3>1
    <3>3. s.out = IF f \in {"namelessRefused", "manifestsDropped"} THEN <<0, 0, 0>> ELSE <<4, 0, 0>>
      BY <1>41, <2>4
    <3>4. /\ s.out[1] = (IF f \in {"namelessRefused", "manifestsDropped"} THEN 0 ELSE 4)
          /\ s.out[2] = 0 /\ s.out[3] = 0
      BY <3>3
    <3> HIDE DEF copies
    <3>5. copies \subseteq LinkID /\ \A l \in LinkID : l \in copies <=> s.out[l] # 0
      BY <2>2, <3>2, <3>4, Rigs
    <3> HIDE DEF s
    <3>6. Serves(f, t, s, AnswerOf(t), table, waited, i = Len(course))
      BY <1>0, <1>5, <2>1, <2>4, <2>43, <3>5, ServesAnswer DEF copies
    <3> QED BY <1>1, <1>3, <1>12, <3>6, Zenon DEF Served, plan, course, s
  <2> QED BY <2>3, <2>4
<1>20. i = 1 \/ i = 2
  BY <1>3, <1>9
<1> QED BY <1>11, <1>12, <1>20

\* On every course, the forwarder makes of each packet what the course says.
LEMMA CoursesServed ==
    ASSUME NEW f, NEW t \in Test, Tracked(f, t), NEW table, TestEntries(table), NEW waited,
           NEW i \in 1..Len(Course(f, t)), OwnTable(f, t, table, Asks(Course(f, t), i - 1), waited)
    PROVE  Served(f, t, i, table, waited)
<1>1. CASE f = "none"
  <2>1. CASE t \notin Longer
    BY <1>1, <2>1, ServedFourSteps
  <2>2. CASE t = "ContentObjectTest_4"
    BY <1>1, <2>2, ServedFourCorrect
  <2>3. CASE t = "ContentObjectTest_5"
    BY <1>1, <2>3, ServedFiveCorrect
  <2>4. CASE t = "ContentObjectTest_6"
    BY <1>1, <2>4, ServedSixCorrect
  <2>5. CASE t = "ContentObjectErrors_3"
    BY <1>1, <2>5, ServedAgainCorrect
  <2> QED BY <2>1, <2>2, <2>3, <2>4, <2>5 DEF Longer
<1>2. CASE f \in FourFaults
  <2>1. t = Catcher(f)
    BY <1>2 DEF FourFaults, Tracked
  <2> QED BY <1>2, <2>1, ServedCaught
<1>3. CASE f = "returnedToSender"
  <2>1. t = "ContentObjectTest_4"
    BY <1>3 DEF Tracked, Catcher
  <2> QED BY <1>3, <2>1, ServedFourReturnedToSender
<1>4. CASE f = "firstRouteOnly"
  <2>1. t = "ContentObjectTest_4"
    BY <1>4 DEF Tracked, Catcher
  <2> QED BY <1>4, <2>1, ServedFourFirstRouteOnly
<1>5. CASE f = "firstAskerOnly"
  <2>1. t = "ContentObjectTest_5"
    BY <1>5 DEF Tracked, Catcher
  <2> QED BY <1>5, <2>1, ServedFiveFirstAskerOnly
<1>6. CASE f = "retransmissionDropped"
  <2>1. t = "ContentObjectTest_6"
    BY <1>6 DEF Tracked, Catcher
  <2> QED BY <1>6, <2>1, ServedSixRetransmissionDropped
<1>7. CASE f = "entryKept"
  <2>1. t = "ContentObjectErrors_3"
    BY <1>7 DEF Tracked, Catcher
  <2> QED BY <1>7, <2>1, ServedAgainEntryKept
<1> QED BY <1>1, <1>2, <1>3, <1>4, <1>5, <1>6, <1>7 DEF Tracked, RouteFaults, FourFaults

------------------------------------------------------------------------------
(* Whatever the forwarder does wrong: one packet leaves it for each it gets, on some of the links, *)
(* and its table holds Interests it was sent.                                                      *)

\* What becomes of packet p on its way through the forwarder.
Passed(f, p) == IF p.type = "interest" THEN NextHop(f, p) ELSE p

EmitsSome(done, q) == \E links \in SUBSET LinkID : EmitsOn(done, links, q)

Remembers(done, table, p) ==
    \A e \in done.pit :
        e \in Entry /\ ((p.type = "interest" /\ SameInterest(e, p)) \/ \E x \in table : SameInterest(e, x))

LEMMA LowestIn == ASSUME NEW S \in SUBSET (1..3), S # {} PROVE Lowest(S) \subseteq S
<1> DEFINE l == CHOOSE l \in S : \A m \in S : l <= m
<1>1. \E x \in S : \A m \in S : x <= m
  <2>1. CASE 1 \in S
    BY <2>1
  <2>2. CASE 1 \notin S /\ 2 \in S
    BY <2>2
  <2>3. CASE 1 \notin S /\ 2 \notin S
    <3>1. \A m \in S : m = 3
      BY <2>3
    <3>2. 3 \in S
      BY <3>1
    <3>3. \A m \in S : 3 <= m
      BY <3>1
    <3> QED BY <3>2, <3>3
  <2> QED BY <2>1, <2>2, <2>3
<1>2. l \in S
  BY <1>1
<1> HIDE DEF l
<1>3. Lowest(S) = {l}
  BY Zenon DEF Lowest, l
<1> QED BY <1>2, <1>3

LEMMA HopsTyped ==
    ASSUME NEW f, NEW t \in Test, NEW l \in LinkID
    PROVE  NextHops(f, Prefix(t), l) \subseteq LinkID
<1> DEFINE routes == Routes[Prefix(t)]
<1>1. routes \in SUBSET (1..3) /\ routes # {}
  <2>1. Prefix(t) \in {"b", "c", "bc", "ab"}
    BY DEF Prefix
  <2>2. CASE Prefix(t) = "b"
    BY <2>2, RoutesOf
  <2>3. CASE Prefix(t) = "c"
    BY <2>3, RoutesOf
  <2>4. CASE Prefix(t) = "bc"
    BY <2>4, RoutesOf
  <2>5. CASE Prefix(t) = "ab"
    BY <2>5, RoutesOf
  <2> QED BY <2>1, <2>2, <2>3, <2>4, <2>5
<1>2. CASE f = "firstRouteOnly"
  <2>1. NextHops(f, Prefix(t), l) = Lowest(routes)
    BY <1>1, <1>2, Zenon DEF NextHops
  <2> HIDE DEF routes
  <2> QED BY <1>1, <2>1, LowestIn, Rigs
<1>3. CASE f # "firstRouteOnly" /\ f = "returnedToSender"
  <2>1. NextHops(f, Prefix(t), l) = routes \cup {l}
    BY <1>3, Zenon DEF NextHops
  <2> HIDE DEF routes
  <2> QED BY <1>1, <2>1, Rigs
<1>4. CASE f # "firstRouteOnly" /\ f # "returnedToSender"
  <2>1. NextHops(f, Prefix(t), l) = routes \ {l}
    BY <1>4, Zenon DEF NextHops
  <2> HIDE DEF routes
  <2> QED BY <1>1, <2>1, Rigs
<1> QED BY <1>2, <1>3, <1>4

LEMMA InterestHandled ==
    ASSUME NEW f \in Faults, NEW t \in Test, NEW l \in LinkID, NEW table \in SUBSET Entry,
           NEW p, p = InterestOf(t)
    PROVE  EmitsSome(Handled(f, t, l, p, table), Passed(f, p)) /\ Remembers(Handled(f, t, l, p, table), table, p)
<1> DEFINE known == {e \in table : SameInterest(e, p)}
           hops  == NextHops(f, Prefix(t), l)
           fresh == [name |-> p.name, keyId |-> p.keyId, hash |-> p.hash, lifetime |-> p.lifetime,
                     age |-> 0, ingress |-> {l}, egress |-> hops]
           again == {e \in known : l \in e.ingress}
           emit  == {<<m, NextHop(f, p)>> : m \in hops}
           new   == [fresh EXCEPT !.ingress = @ \cup UNION {e.ingress : e \in known}]
           one   == (table \ known) \cup {new}
           out   == IF again # {} /\ f # "retransmissionDropped" THEN emit ELSE {}
           more  == (table \ known) \cup {[e EXCEPT !.ingress = @ \cup {l}] : e \in known}
           first == known = {} \/ f = "nothingAggregated"
           done  == Handled(f, t, l, p, table)
<1>1. p.type = "interest" /\ p \in PacketRecord
  <2>1. p.type = "interest"
    BY DEF InterestOf
  <2>2. p \in Packet
    BY SuiteRigAssumption
  <2> QED BY <2>1, <2>2, PacketAssumption
<1>2. done = IF first THEN [emits |-> emit, pit |-> one] ELSE [emits |-> out, pit |-> more]
  BY <1>1, Zenon DEF Handled, OnInterest
<1>3. hops \subseteq LinkID /\ Passed(f, p) = NextHop(f, p)
  BY <1>1, HopsTyped DEF Passed
<1>4. new \in Entry /\ SameInterest(new, p)
  <2>1. UNION {e.ingress : e \in known} \subseteq 1..3
    BY DEF Entry
  <2> DEFINE others == UNION {e.ingress : e \in known}
  <2> HIDE DEF others
  <2>2. [fresh EXCEPT !.ingress = @ \cup others] \in Entry
    <3>1. hops \in SUBSET (1..3) /\ {l} \cup others \in SUBSET (1..3)
      BY <1>3, <2>1, Rigs DEF others
    <3>2. p.name \in Name /\ p.keyId \in KeyId /\ p.hash \in Hash /\ p.lifetime \in Lifetime
      BY <1>1 DEF PacketRecord
    <3> HIDE DEF hops
    <3>3. [fresh EXCEPT !.ingress = @ \cup others] =
            [name |-> p.name, keyId |-> p.keyId, hash |-> p.hash, lifetime |-> p.lifetime,
             age |-> 0, ingress |-> {l} \cup others, egress |-> hops]
      OBVIOUS
    <3> QED BY <3>1, <3>2, <3>3 DEF Entry
  <2>3. SameInterest([fresh EXCEPT !.ingress = @ \cup others], p)
    BY DEF SameInterest
  <2> QED BY <2>2, <2>3 DEF others
<1>5. \A e \in known : LET x == [e EXCEPT !.ingress = @ \cup {l}]
                       IN  x \in Entry /\ SameInterest(x, p)
  BY Rigs DEF Entry, SameInterest
<1>6. CASE first
  <2>1. done.emits = emit /\ done.pit = one
    <3> HIDE DEF done, emit, one
    <3> QED BY <1>2, <1>6
  <2>2. EmitsSome(done, Passed(f, p))
    <3> HIDE DEF done, hops
    <3>1. done.emits = {<<m, Passed(f, p)>> : m \in hops} /\ hops \in SUBSET LinkID
      BY <1>3, <2>1
    <3> QED BY <3>1, Zenon DEF EmitsSome, EmitsOn
  <2>3. \A e \in done.pit : e = new \/ e \in table
    <3> HIDE DEF done, new, known
    <3> QED BY <2>1
  <2> HIDE DEF done, new
  <2>4. \A e \in table : SameInterest(e, e)
    BY DEF SameInterest
  <2>5. Remembers(done, table, p)
    BY <1>1, <1>4, <2>3, <2>4 DEF Remembers
  <2> QED BY <2>2, <2>5 DEF done
<1>7. CASE ~first
  <2>1. done.emits = out /\ done.pit = more
    <3> HIDE DEF done, out, more, first
    <3> QED BY <1>2, <1>7
  <2>2. EmitsSome(done, Passed(f, p))
    <3>1. CASE again # {} /\ f # "retransmissionDropped"
      <4> HIDE DEF done, hops, again
      <4>1. done.emits = {<<m, Passed(f, p)>> : m \in hops} /\ hops \in SUBSET LinkID
        BY <1>3, <2>1, <3>1
      <4> QED BY <4>1, Zenon DEF EmitsSome, EmitsOn
    <3>2. CASE ~(again # {} /\ f # "retransmissionDropped")
      <4>1. done.emits = {<<m, Passed(f, p)>> : m \in {}}
        <5> HIDE DEF done, again
        <5> QED BY <2>1, <3>2
      <4>2. {} \in SUBSET LinkID
        OBVIOUS
      <4> HIDE DEF done
      <4> QED BY <4>1, <4>2, Zenon DEF EmitsSome, EmitsOn
    <3> QED BY <3>1, <3>2
  <2>3. \A e \in done.pit : e \in table \/ \E x \in known : e = [x EXCEPT !.ingress = @ \cup {l}]
    <3> HIDE DEF done, known
    <3> QED BY <2>1
  <2> HIDE DEF done, known
  <2>4. \A e \in table : SameInterest(e, e)
    BY DEF SameInterest
  <2>5. Remembers(done, table, p)
    BY <1>1, <1>5, <2>3, <2>4 DEF Remembers
  <2> QED BY <2>2, <2>5 DEF done
<1> QED BY <1>6, <1>7

LEMMA AnswerPasses ==
    ASSUME NEW f \in Faults, NEW t \in Test, NEW l \in LinkID, NEW table \in SUBSET Entry,
           NEW p, p = AnswerOf(t)
    PROVE  EmitsSome(Handled(f, t, l, p, table), Passed(f, p)) /\ Remembers(Handled(f, t, l, p, table), table, p)
<1> DEFINE matched == {e \in table : /\ Answers(f, e, p, Nameless)
                                     /\ l \in e.egress \/ f = "anyLinkMayAnswer"}
           askers == UNION {e.ingress : e \in matched}
           copies == CASE f = "firstAskerOnly"          -> Lowest(askers)
                       [] f = "contentCopiedToEveryLink" -> {1, 2, 3} \ {l}
                       [] f = "manifestsDropped" /\ p.type = "manifest" -> {}
                       [] OTHER                          -> askers
           out  == IF askers = {} THEN {} ELSE {<<m, p>> : m \in copies}
           left == IF f = "entryKept" THEN table ELSE table \ matched
           done == Handled(f, t, l, p, table)
<1>1. p.type # "interest" /\ Passed(f, p) = p
  BY DEF AnswerOf, Passed
<1>2. done = [emits |-> out, pit |-> left]
  BY <1>1, Zenon DEF Handled, OnAnswer
<1>3. done.emits = out /\ done.pit = left
  <2> HIDE DEF done, out, left
  <2> QED BY <1>2
<1>4. askers \in SUBSET (1..3)
  BY DEF Entry
<1>5. askers # {} => copies \subseteq LinkID
  <2> HIDE DEF askers
  <2>1. CASE f = "firstAskerOnly"
    BY <1>4, <2>1, LowestIn, Rigs
  <2>2. CASE f = "contentCopiedToEveryLink"
    BY <1>4, <2>2, Rigs
  <2>3. CASE f = "manifestsDropped" /\ p.type = "manifest"
    BY <1>4, <2>3, Rigs
  <2>4. CASE /\ f \notin {"firstAskerOnly", "contentCopiedToEveryLink"}
             /\ ~(f = "manifestsDropped" /\ p.type = "manifest")
    BY <1>4, <2>4, Rigs
  <2> QED BY <2>1, <2>2, <2>3, <2>4
<1> HIDE DEF done, askers, copies, matched
<1>6. EmitsSome(done, Passed(f, p))
  <2>1. CASE askers = {}
    <3>1. done.emits = {<<m, p>> : m \in {}} /\ {} \in SUBSET LinkID
      BY <1>3, <2>1
    <3> QED BY <1>1, <3>1, Zenon DEF EmitsSome, EmitsOn
  <2>2. CASE askers # {}
    <3>1. done.emits = {<<m, p>> : m \in copies} /\ copies \in SUBSET LinkID
      BY <1>3, <1>5, <2>2
    <3> QED BY <1>1, <3>1, Zenon DEF EmitsSome, EmitsOn
  <2> QED BY <2>1, <2>2
<1>7. Remembers(done, table, p)
  <2>1. \A e \in done.pit : e \in table
    BY <1>3
  <2>2. \A e \in table : SameInterest(e, e)
    BY DEF SameInterest
  <2> QED BY <2>1, <2>2 DEF Remembers
<1> QED BY <1>6, <1>7 DEF done

LEMMA PacketsHandled ==
    ASSUME NEW f \in Faults, NEW t \in Test, NEW l \in LinkID, NEW table \in SUBSET Entry,
           NEW p \in {InterestOf(t), AnswerOf(t)}
    PROVE  /\ EmitsSome(Handled(f, t, l, p, table), Passed(f, p))
           /\ Remembers(Handled(f, t, l, p, table), table, p)
           /\ Passed(f, p) \in Arrival
<1>1. CASE p = InterestOf(t)
  <2>1. p.type = "interest"
    BY <1>1 DEF InterestOf
  <2>2. Passed(f, p) \in Arrival
    BY <1>1, <2>1, EndToEndAssumption DEF Passed
  <2> QED BY <1>1, <2>2, InterestHandled, Zenon
<1>2. CASE p = AnswerOf(t)
  <2>1. p.type # "interest"
    BY <1>2 DEF AnswerOf
  <2>2. Passed(f, p) \in Arrival
    BY <1>2, <2>1, EndToEndAssumption DEF Passed
  <2> QED BY <1>2, <2>2, AnswerPasses, Zenon
<1> QED BY <1>1, <1>2

------------------------------------------------------------------------------
(* The state between and during the tests. *)

\* A test sends its Interest and its answer and nothing else.
\* The types the invariant gives its variables.
LEMMA StandingTypes ==
    ASSUME E2EInv
    PROVE  /\ tests \in Seq(Test) /\ Len(tests) \in Nat /\ test \in 0..Len(tests) /\ tests \in Lists
           /\ phase # "idle" => test \in 1..Len(tests) /\ tests[test] \in Test
           /\ inbox \in [LinkID -> Seq(Arrival)]
           /\ script \in Seq(Step) /\ taken \in Seq(SUBSET (LinkID \X Arrival)) /\ Len(taken) = Len(script)
           /\ cur \in 1..(Len(script) + 1) /\ Len(script) \in Nat
           /\ bit \in LinkID \cup {-1} /\ result \in ResultType
           /\ sent \in Seq(Transmission) /\ Len(sent) \in Nat /\ forwarded \in 0..Len(sent)
           /\ fault \in Faults
<1>1. ChannelTypeOK /\ ControlTyped /\ DataTyped
  BY TypeParts DEF E2EInv, Inv
<1>2. tests \in Seq(Test) /\ Len(tests) \in Nat /\ test \in 0..Len(tests) /\ tests \in Lists
  BY ListsTyped DEF E2EInv, Standing, Running
<1>3. phase # "idle" => test \in 1..Len(tests) /\ tests[test] \in Test
  BY <1>2 DEF E2EInv, Standing, Running
<1>4. fault \in Faults
  BY EndToEndAssumption DEF E2EInv, Standing
<1>5. forwarded \in 0..Len(sent)
  BY DEF E2EInv, Quiet
<1>6. Len(script) \in Nat /\ Len(sent) \in Nat
  BY <1>1 DEF DataTyped
<1> QED BY <1>1, <1>2, <1>3, <1>4, <1>5, <1>6 DEF ChannelTypeOK, ControlTyped, DataTyped

\* What the rig sends reaches the forwarder.
LEMMA NothingLost ==
    ASSUME ReliableTCP, E2EInv, RigSteps, sent' \in Seq(Transmission)
    PROVE  addressed' = LinkID /\ lost' = {}
<1>1. addressed = LinkID /\ lost = {}
  BY DEF E2EInv, Standing
<1>2. SentToNobody = {}
  <2> SUFFICES ASSUME NEW i \in DOMAIN sent', sent'[i].link \notin LinkID PROVE FALSE
    BY <1>1 DEF SentToNobody
  <2>1. sent'[i] \in Transmission
    OBVIOUS
  <2> QED BY <2>1 DEF Transmission
<1> QED BY <1>1, <1>2 DEF RigSteps

LEMMA E2EInitInv == ASSUME ReliableTCP, E2EInit PROVE E2EInv
<1>1. Inv
  BY InitEvidence DEF E2EInit, SuiteInit
<1>2. /\ script = <<>> /\ Len(script) = 0 /\ sent = <<>> /\ Len(sent) = 0 /\ phase = "idle" /\ test = 0
      /\ forwarded = 0 /\ pit = {} /\ \A l \in LinkID : inbox[l] = <<>>
  BY DEF E2EInit, SuiteInit, Init, ChannelInit
<1>3. Running
  BY <1>2, ListsTyped DEF E2EInit, SuiteInit, Running
<1>4. Standing
  BY <1>2, <1>3, Rigs DEF E2EInit, SuiteInit, Standing, ReliableTCP
<1>5. Quiet /\ Table /\ Outgoings
  BY <1>2 DEF Quiet, Table, Outgoings
<1>6. Listed
  BY DEF E2EInit, SuiteInit, Listed
<1> QED BY <1>1, <1>4, <1>5, <1>6 DEF E2EInv

LEMMA RunTestStanding == ASSUME ReliableTCP, E2EInv, RigSteps, RunTest PROVE E2EInv'
<1>1. /\ tests \in Seq(Test) /\ Len(tests) \in Nat /\ test \in Nat /\ test' = test + 1
      /\ phase = "idle" /\ phase' = "running" /\ UNCHANGED <<tests, flushing, resultList, old, inbox>>
      /\ test + 1 \in 1..Len(tests) /\ UNCHANGED <<fault, pit>>
  BY StandingTypes DEF RunTest, RigSteps
<1>2. PICK junk \in SUBSET VaJunk : script' = TestScript(tests[test + 1], junk)
  BY DEF RunTest
<1>3. ScriptOf(tests[test + 1], script')
  BY <1>1, <1>2, TestScripts
<1>4. Inv'
  <2>1. ChannelTypeOK'
    BY <1>1, StandingTypes DEF ChannelTypeOK
  <2>2. PacketsOf(tests[test + 1]) \in SUBSET Packet
    BY <1>1, OwnPackets
  <2> QED BY <1>3, <2>1, <2>2, FreshScript DEF RunTest, ScriptOf
<1>5. Running'
  <2>1. tests' \in Lists /\ test' \in 0..Len(tests') /\ test' \in 1..Len(tests')
    BY <1>1, StandingTypes
  <2>2. ScriptOf(tests'[test'], script')
    BY <1>1, <1>3
  <2> QED BY <1>1, <2>1, <2>2 DEF Running
<1>6. Listed'
  BY <1>1 DEF E2EInv, Listed
<1>7. sent' = <<>> /\ Len(sent') = 0
  BY DEF RunTest
<1>8. forwarded' = 0 /\ addressed' = LinkID /\ lost' = {}
  <2>1. test' # test
    BY <1>1
  <2> QED BY <1>7, <2>1, NothingLost DEF RigSteps
<1>9. Standing'
  <2>1. \E junk2 \in SUBSET VaJunk : script' = TestScript(tests'[test'], junk2)
    BY <1>1, <1>2
  <2> QED BY <1>1, <1>5, <1>8, <2>1 DEF E2EInv, Standing
<1>10. Quiet' /\ Outgoings'
  BY <1>1, <1>7, <1>8 DEF Quiet, Outgoings
<1>11. Table'
  <2>1. \A j \in 1..test : j \in 1..test'
    BY <1>1
  <2> QED BY <1>1, <2>1 DEF E2EInv, Table
<1> QED BY <1>4, <1>6, <1>9, <1>10, <1>11 DEF E2EInv

LEMMA ReportStanding == ASSUME ReliableTCP, E2EInv, RigSteps, ReportResult PROVE E2EInv'
<1>1. /\ phase = "running" /\ phase' = "flushing" /\ flushing' = LinkA
      /\ UNCHANGED <<tests, test, script, inbox, sent>> /\ UNCHANGED scriptVars
      /\ resultList' = Append(resultList, Report(result)) /\ UNCHANGED <<fault, pit>>
  BY DEF ReportResult, RigSteps, vars, scriptVars, historyVars
<1>2. Inv'
  BY <1>1, StandingTypes, OnlyTheLinks DEF E2EInv, ChannelTypeOK
<1>3. Running'
  BY <1>1 DEF E2EInv, Standing, Running
<1>4. Listed'
  <2>1. result \in ResultType /\ test \in Nat
    BY StandingTypes
  <2> QED BY <1>1, <2>1 DEF E2EInv, Listed
<1>5. addressed' = LinkID /\ lost' = {}
  BY <1>1, StandingTypes, NothingLost
<1>6. forwarded' = forwarded
  BY <1>1 DEF RigSteps
<1>7. Standing'
  BY <1>1, <1>3, <1>5, Rigs DEF E2EInv, Standing
<1>8. Quiet'
  <2>1. \A l \in LinkID : ~(l < flushing')
    BY <1>1, Rigs
  <2> QED BY <1>1, <1>6, <2>1 DEF E2EInv, Quiet
<1>9. Table' /\ Outgoings'
  BY <1>1 DEF E2EInv, Table, Outgoings
<1> QED BY <1>2, <1>4, <1>7, <1>8, <1>9 DEF E2EInv

\* The steps of a script: what each of them changes.
LEMMA ScriptStepChanges ==
    ASSUME E2EInv, PromptStep \/ TimeoutStep, phase = "running"
    PROVE  /\ UNCHANGED script /\ Inv'
           /\ sent' = sent \/ (cur \in 1..Len(script) /\ script[cur].op \in SendOp /\ \E l \in LinkID :
                 sent' = Append(sent, [step |-> cur, link |-> l, packet |-> script[cur].packet]))
<1>1. Inv'
  BY NextEvidence DEF E2EInv, Next, Rig
<1>2. CASE ExecuteSendStep
  BY <1>1, <1>2, StandingTypes DEF ExecuteSendStep, Executing
<1>3. CASE LoopReturns
  <2>1. UNCHANGED <<script, received, inbox, historyVars>>
    BY <1>3, Zenon DEF LoopReturns, ReceiveAllReturns, ReceiveOneReturns, ReceiveNoneReturns
  <2> QED BY <1>1, <2>1 DEF historyVars
<1>4. CASE ScriptReturns \/ CrashOnNullLink
  BY <1>1, <1>4 DEF ScriptReturns, CrashOnNullLink, historyVars
<1>5. CASE TimeoutStep
  BY <1>1, <1>5 DEF TimeoutStep, ReceiveAllTimeout, ReceiveOneTimeout, ReceiveNoneTimeout, ReadsNothing,
                    historyVars
<1>6. CASE MessageStep
  <2>1. PICK l \in LinkID, p \in Arrival :
            \/ ReceiveAllMessage(l, p) \/ ReceiveOneMessage(l, p) \/ ReceiveNoneMessage(l, p)
            \/ CrashOnNullPacket(l, p)
    BY <1>6 DEF MessageStep
  <2>2. UNCHANGED <<script, sent>>
    BY <2>1 DEF ReceiveAllMessage, ReceiveOneMessage, ReceiveNoneMessage, CrashOnNullPacket, Reads
  <2> QED BY <1>1, <2>2
<1> QED BY <1>2, <1>3, <1>4, <1>5, <1>6 DEF PromptStep

LEMMA ScriptStepStanding ==
    ASSUME ReliableTCP, E2EInv, RigSteps, phase = "running", PromptStep, UNCHANGED suiteVars
    PROVE  E2EInv'
<1>1. UNCHANGED <<tests, test, phase, flushing, resultList, old>> /\ UNCHANGED <<fault, pit>>
  BY DEF suiteVars, RigSteps
<1>2. UNCHANGED script /\ Inv'
  BY ScriptStepChanges
<1>3. \/ sent' = sent
      \/ (cur \in 1..Len(script) /\ script[cur].op \in SendOp /\ \E l \in LinkID :
             sent' = Append(sent, [step |-> cur, link |-> l, packet |-> script[cur].packet]))
  BY ScriptStepChanges
<1>4. Running' /\ Listed'
  BY <1>1, <1>2 DEF E2EInv, Standing, Running, Listed
<1>5. sent' \in Seq(Transmission)
  BY <1>2 DEF Inv, TypeInv, TypeOK
<1>6. addressed' = LinkID /\ lost' = {} /\ forwarded' = forwarded
  BY <1>1, <1>5, NothingLost DEF RigSteps
<1>7. Standing'
  BY <1>1, <1>2, <1>4, <1>6 DEF E2EInv, Standing
<1>8. Quiet'
  <2>1. Len(sent') \in Nat /\ Len(sent') >= Len(sent)
    <3>1. sent \in Seq(Transmission) /\ Len(sent) \in Nat
      BY StandingTypes
    <3>2. CASE sent' = sent
      BY <3>1, <3>2
    <3>3. ASSUME NEW x, sent' = Append(sent, x) PROVE Len(sent') \in Nat /\ Len(sent') >= Len(sent)
      <4>1. Len(sent') = Len(sent) + 1
        BY <3>1, <3>3
      <4> QED BY <3>1, <4>1
    <3> QED BY <1>3, <3>2, <3>3
  <2>2. forwarded' \in 0..Len(sent')
    BY <1>6, <2>1, StandingTypes
  <2> QED BY <1>1, <2>2 DEF Quiet
<1>9. Table'
  BY <1>1 DEF E2EInv, Table
<1>10. Outgoings'
  <2>1. CASE sent' = sent
    BY <1>1, <2>1 DEF E2EInv, Outgoings
  <2>2. ASSUME cur \in 1..Len(script), script[cur].op \in SendOp, NEW l \in LinkID,
               sent' = Append(sent, [step |-> cur, link |-> l, packet |-> script[cur].packet])
        PROVE  Outgoings'
    <3>1. test \in 1..Len(tests) /\ tests[test] \in Test /\ ScriptOf(tests[test], script)
      BY StandingTypes DEF E2EInv, Standing, Running
    <3>2. script[cur].packet \in {InterestOf(tests[test]), AnswerOf(tests[test])}
      BY <2>2, <3>1 DEF ScriptOf, SuiteScript, PacketsOf
    <3>3. \A i \in 1..Len(sent') : \/ i \in 1..Len(sent) /\ sent'[i] = sent[i]
                                   \/ sent'[i].packet = script[cur].packet
      BY <2>2, StandingTypes
    <3> QED BY <1>1, <3>1, <3>2, <3>3 DEF E2EInv, Outgoings
  <2> QED BY <1>3, <2>1, <2>2
<1> QED BY <1>2, <1>4, <1>7, <1>8, <1>9, <1>10 DEF E2EInv


LEMMA FlushReadsStanding ==
    ASSUME ReliableTCP, E2EInv, RigSteps, NEW p \in Arrival, FlushReads(p)
    PROVE  E2EInv'
<1>1. /\ phase = "flushing" /\ UNCHANGED <<tests, test, phase, flushing, resultList>>
      /\ UNCHANGED scriptVars /\ UNCHANGED <<script, sent, fault, pit>> /\ flushing \in LinkID
  BY DEF FlushReads, RigSteps, scriptVars, historyVars, E2EInv, Standing
<1>2. inbox' \in [LinkID -> Seq(Arrival)] /\ \A l \in LinkID : l # flushing => inbox'[l] = inbox[l]
  <2>1. inbox \in [LinkID -> Seq(Arrival)]
    BY StandingTypes
  <2>2. inbox[flushing] \in Seq(Arrival) /\ Len(inbox[flushing]) \in Nat
    BY <1>1, <2>1
  <2>3. TakenAtOnce + 1 \in Nat \ {0}
    BY ChannelAssumption DEF TakenAtOnce
  <2>4. SubSeq(inbox[flushing], TakenAtOnce + 1, Len(inbox[flushing])) \in Seq(Arrival)
    BY <2>2, <2>3
  <2>5. inbox' = [inbox EXCEPT ![flushing] = SubSeq(@, TakenAtOnce + 1, Len(@))]
    BY DEF FlushReads, Receives
  <2> QED BY <1>1, <2>1, <2>4, <2>5
<1>3. Inv'
  BY <1>1, <1>2, OnlyTheLinks DEF E2EInv, ChannelTypeOK
<1>4. Running' /\ Listed'
  BY <1>1 DEF E2EInv, Standing, Running, Listed
<1>5. addressed' = LinkID /\ lost' = {} /\ forwarded' = forwarded
  BY <1>1, StandingTypes, NothingLost DEF RigSteps
<1>6. Standing'
  BY <1>1, <1>4, <1>5 DEF E2EInv, Standing
<1>7. Quiet'
  <2>1. \A l \in LinkID : l < flushing => l # flushing
    BY <1>1, Rigs
  <2> QED BY <1>1, <1>2, <1>5, <2>1 DEF E2EInv, Quiet
<1>8. Table' /\ Outgoings'
  BY <1>1 DEF E2EInv, Table, Outgoings
<1> QED BY <1>3, <1>4, <1>6, <1>7, <1>8 DEF E2EInv

\* What is left of a table after some time are entries of it.
LEMMA AgedEntries ==
    ASSUME NEW table \in SUBSET Entry, NEW n \in Nat
    PROVE  \A e \in Aged(table, n) : \E x \in table : /\ e = [x EXCEPT !.age = @ + n] /\ Alive(e)
                                                     /\ e \in Entry /\ SameInterest(e, x)
<1> SUFFICES ASSUME NEW e \in Aged(table, n)
             PROVE  \E x \in table : /\ e = [x EXCEPT !.age = @ + n] /\ Alive(e)
                                     /\ e \in Entry /\ SameInterest(e, x)
  OBVIOUS
<1>1. PICK x \in table : e = [x EXCEPT !.age = @ + n]
  BY DEF Aged
<1>2. Alive(e)
  BY DEF Aged
<1>3. e \in Entry /\ SameInterest(e, x)
  BY <1>1 DEF Entry, SameInterest
<1> QED BY <1>1, <1>2, <1>3

LEMMA AgedTable ==
    ASSUME Table, NEW n \in Nat, pit' = Aged(pit, n), UNCHANGED <<tests, test>>
    PROVE  Table'
<1> SUFFICES ASSUME NEW e \in pit'
             PROVE  e \in Entry /\ \E j \in 1..test : SameInterest(e, InterestOf(tests[j]))
  BY DEF Table
<1>1. pit \in SUBSET Entry
  BY DEF Table
<1>2. PICK x \in pit : e \in Entry /\ SameInterest(e, x)
  BY <1>1, AgedEntries
<1>3. PICK j \in 1..test : SameInterest(x, InterestOf(tests[j]))
  BY DEF Table
<1> QED BY <1>2, <1>3 DEF SameInterest

LEMMA FlushTimeoutStanding ==
    ASSUME ReliableTCP, E2EInv, FlushPollTimesOut
    PROVE  E2EInv'
<1>1. /\ phase = "flushing" /\ UNCHANGED <<tests, test, resultList>> /\ FlushMovesOn
      /\ UNCHANGED scriptVars /\ UNCHANGED <<script, sent, fault, forwarded, addressed, lost, inbox>>
      /\ flushing \in LinkID /\ forwarded = Len(sent) /\ inbox[flushing] = <<>>
  BY DEF FlushPollTimesOut, FlushTimeout, ReceivesNothing, scriptVars, historyVars, linkVars, E2EInv,
         Standing, ReliableTCP, Idle
<1>2. Inv'
  BY <1>1, StandingTypes, OnlyTheLinks DEF E2EInv, ChannelTypeOK
<1>3. \/ /\ flushing = LinkC /\ phase' = (IF test = Len(tests) THEN "done" ELSE "idle") /\ flushing' = flushing
      \/ /\ flushing # LinkC /\ phase' = phase /\ flushing' = flushing + 1 /\ flushing' \in LinkID
  BY <1>1, Rigs DEF FlushMovesOn
<1>4. Running' /\ Listed'
  <2>1. phase' \in {"idle", "flushing", "done"}
    BY <1>1, <1>3
  <2> QED BY <1>1, <2>1 DEF E2EInv, Standing, Running, Listed
<1>5. Standing'
  BY <1>1, <1>3, <1>4 DEF E2EInv, Standing
<1>6. Quiet'
  <2>1. \A l \in LinkID : l < flushing \/ l = flushing => inbox'[l] = <<>>
    BY <1>1 DEF E2EInv, Quiet
  <2>2. CASE flushing = LinkC
    <3>1. \A l \in LinkID : l < flushing \/ l = flushing
      BY <2>2, Rigs
    <3> QED BY <1>1, <1>3, <2>1, <2>2, <3>1 DEF E2EInv, Quiet
  <2>3. CASE flushing # LinkC
    <3>1. \A l \in LinkID : l < flushing' => l < flushing \/ l = flushing
      BY <1>1, <1>3, <2>3, Rigs
    <3> QED BY <1>1, <1>3, <2>1, <2>3, <3>1 DEF E2EInv, Quiet
  <2> QED BY <2>2, <2>3
<1>7. Table'
  <2>1. pit' = Aged(pit, 100) /\ 100 \in Nat
    BY DEF FlushPollTimesOut
  <2> QED BY <1>1, <2>1, AgedTable DEF E2EInv
<1>8. Outgoings'
  BY <1>1 DEF E2EInv, Outgoings
<1> QED BY <1>2, <1>4, <1>5, <1>6, <1>7, <1>8 DEF E2EInv

LEMMA ScriptTimeoutStanding ==
    ASSUME ReliableTCP, E2EInv, ScriptPollTimesOut
    PROVE  E2EInv'
<1>1. /\ phase = "running" /\ UNCHANGED <<tests, test, phase, flushing, resultList>> /\ TimeoutStep
      /\ UNCHANGED <<fault, forwarded, addressed, lost>>
  BY DEF ScriptPollTimesOut, suiteVars, linkVars
<1>2. UNCHANGED script /\ Inv'
  BY <1>1, ScriptStepChanges
<1>3. UNCHANGED sent
  BY <1>1 DEF TimeoutStep, ReceiveAllTimeout, ReceiveOneTimeout, ReceiveNoneTimeout, ReadsNothing, historyVars
<1>4. Running' /\ Listed'
  BY <1>1, <1>2 DEF E2EInv, Standing, Running, Listed
<1>5. Standing'
  BY <1>1, <1>2, <1>4 DEF E2EInv, Standing
<1>6. Quiet' /\ Outgoings'
  BY <1>1, <1>3 DEF E2EInv, Quiet, Outgoings
<1>7. Table'
  <2>1. pit' = Aged(pit, 1000) /\ 1000 \in Nat
    BY DEF ScriptPollTimesOut
  <2> QED BY <1>1, <2>1, AgedTable DEF E2EInv
<1> QED BY <1>2, <1>4, <1>5, <1>6, <1>7 DEF E2EInv

------------------------------------------------------------------------------
(* The forwarder's step. *)

\* The packet it is at, and what it does with it.
Next1 == sent[forwarded + 1]
HandledNext == Handled(fault, tests[test], Next1.link, Next1.packet, pit)

LEMMA ForwardsNext ==
    ASSUME ReliableTCP, E2EInv, Forwards
    PROVE  /\ forwarded + 1 \in 1..Len(sent) /\ forwarded' = forwarded + 1
           /\ test \in 1..Len(tests) /\ tests[test] \in Test
           /\ phase = "running" \/ (phase = "flushing" /\ flushing = LinkA)
           /\ Next1.link \in LinkID /\ Next1.packet \in {InterestOf(tests[test]), AnswerOf(tests[test])}
           /\ pit' = HandledNext.pit
           /\ inbox' = [l \in LinkID |->
                  inbox[l] \o SetToSeq({e[2] : e \in {x \in HandledNext.emits : x[1] = l}})]
           /\ UNCHANGED <<scriptVars, suiteVars, fault, linkVars>>
<1>1. forwarded + 1 \in 1..Len(sent) /\ forwarded' = forwarded + 1 /\ forwarded # Len(sent)
  BY StandingTypes DEF Forwards, Idle
<1>2. test \in 1..Len(tests) /\ Next1.packet \in {InterestOf(tests[test]), AnswerOf(tests[test])}
  BY <1>1 DEF E2EInv, Outgoings, Next1
<1>3. tests[test] \in Test
  BY <1>2, StandingTypes
<1>4. phase = "running" \/ (phase = "flushing" /\ flushing = LinkA)
  <2>1. phase \in {"idle", "running", "flushing", "done"} /\ flushing \in LinkID
    BY DEF E2EInv, Standing, Running
  <2>2. phase \notin {"idle", "done"}
    BY <1>1 DEF E2EInv, Quiet
  <2>3. phase = "flushing" => \A l \in LinkID : ~(l < flushing)
    BY <1>1 DEF E2EInv, Quiet
  <2>4. phase = "flushing" => flushing = LinkA
    BY <2>1, <2>3, Rigs
  <2> QED BY <2>1, <2>2, <2>4
<1>5. Next1.link \in LinkID
  <2>1. Next1 \in Transmission
    BY <1>1, StandingTypes DEF Next1
  <2> QED BY <2>1 DEF Transmission
<1>6. forwarded + 1 \notin lost
  BY DEF E2EInv, Standing
<1>7. HandledNext =
         IF Next1.packet.type = "interest"
         THEN OnInterest(fault, pit, Next1.link, Next1.packet, Prefix(tests[test]))
         ELSE OnAnswer(fault, pit, Next1.link, Next1.packet, Nameless)
  BY Zenon DEF HandledNext, Handled
<1>8. pit' = HandledNext.pit
      /\ inbox' = [l \in LinkID |->
                  inbox[l] \o SetToSeq({e[2] : e \in {x \in HandledNext.emits : x[1] = l}})]
  BY <1>6, <1>7, Zenon DEF Forwards, Next1
<1>9. UNCHANGED <<scriptVars, suiteVars, fault, linkVars>>
  BY DEF Forwards
<1> QED BY <1>1, <1>2, <1>3, <1>4, <1>5, <1>8, <1>9

\* It adds one packet to each of the links it picks.
LEMMA ForwardsOn ==
    ASSUME ReliableTCP, E2EInv, Forwards, NEW links, NEW q \in Arrival, EmitsOn(HandledNext, links, q)
    PROVE  inbox' = [l \in LinkID |-> IF l \in links THEN Append(inbox[l], q) ELSE inbox[l]]
<1>1. inbox' = [l \in LinkID |->
                  inbox[l] \o SetToSeq({e[2] : e \in {x \in HandledNext.emits : x[1] = l}})]
  BY ForwardsNext, Zenon
<1>2. ASSUME NEW l \in LinkID
      PROVE  inbox[l] \o SetToSeq({e[2] : e \in {x \in HandledNext.emits : x[1] = l}})
                = IF l \in links THEN Append(inbox[l], q) ELSE inbox[l]
  <2>1. inbox[l] \in Seq(Arrival)
    BY StandingTypes
  <2>2. Delivered(inbox[l], HandledNext.emits, l) = IF l \in links THEN Append(inbox[l], q) ELSE inbox[l]
    BY <2>1, Emission
  <2> QED BY <2>2, Zenon DEF Delivered
<1> QED BY <1>1, <1>2, Zenon

LEMMA ForwardsStanding ==
    ASSUME ReliableTCP, E2EInv, Forwards
    PROVE  E2EInv'
<1> DEFINE p == Next1.packet
           q == Passed(fault, p)
<1>1. /\ forwarded + 1 \in 1..Len(sent) /\ forwarded' = forwarded + 1
      /\ test \in 1..Len(tests) /\ tests[test] \in Test
      /\ phase = "running" \/ (phase = "flushing" /\ flushing = LinkA)
      /\ p \in {InterestOf(tests[test]), AnswerOf(tests[test])}
      /\ pit' = HandledNext.pit
  BY ForwardsNext
<1>2. /\ UNCHANGED <<tests, test, phase, flushing, resultList>> /\ UNCHANGED scriptVars
      /\ UNCHANGED <<script, sent, fault, addressed, lost, pc>>
  BY ForwardsNext DEF suiteVars, scriptVars, historyVars, linkVars
<1>3. pit \in SUBSET Entry /\ fault \in Faults
  BY StandingTypes DEF E2EInv, Table
<1>4. /\ EmitsSome(HandledNext, q) /\ Remembers(HandledNext, pit, p) /\ q \in Arrival
  BY <1>1, <1>3, ForwardsNext, PacketsHandled DEF HandledNext
<1>5. PICK links \in SUBSET LinkID : EmitsOn(HandledNext, links, q)
  BY <1>4 DEF EmitsSome
<1>6. inbox' = [l \in LinkID |-> IF l \in links THEN Append(inbox[l], q) ELSE inbox[l]]
  BY <1>4, <1>5, ForwardsOn
<1>7. inbox' \in [LinkID -> Seq(Arrival)]
  <2> HIDE DEF q
  <2>1. inbox \in [LinkID -> Seq(Arrival)]
    BY StandingTypes
  <2> QED BY <1>4, <1>6, <2>1
<1>8. Inv'
  BY <1>2, <1>7, OnlyTheLinks DEF E2EInv, ChannelTypeOK
<1>9. Running' /\ Listed'
  BY <1>2 DEF E2EInv, Standing, Running, Listed
<1>10. Standing'
  BY <1>2, <1>9 DEF E2EInv, Standing
<1>11. Quiet'
  <2>1. forwarded' \in 0..Len(sent')
    BY <1>1, <1>2, StandingTypes
  <2>2. phase' = "flushing" => \A l \in LinkID : ~(l < flushing')
    BY <1>1, <1>2, Rigs
  <2> QED BY <1>1, <1>2, <2>1, <2>2 DEF Quiet
<1>12. Table'
  <2> SUFFICES ASSUME NEW e \in pit'
               PROVE  e \in Entry /\ \E j \in 1..test : SameInterest(e, InterestOf(tests[j]))
    BY <1>2 DEF Table
  <2>1. e \in Entry /\ ((p.type = "interest" /\ SameInterest(e, p)) \/ \E x \in pit : SameInterest(e, x))
    BY <1>1, <1>4 DEF Remembers
  <2>2. CASE p.type = "interest" /\ SameInterest(e, p)
    <3>1. CASE p = InterestOf(tests[test])
      <4>1. test \in 1..test
        BY <1>1, StandingTypes
      <4> QED BY <2>1, <2>2, <3>1, <4>1
    <3>2. CASE p = AnswerOf(tests[test])
      BY <2>2, <3>2 DEF AnswerOf
    <3> QED BY <1>1, <3>1, <3>2
  <2>3. CASE \E x \in pit : SameInterest(e, x)
    <3>1. PICK x \in pit : SameInterest(e, x)
      BY <2>3
    <3>2. PICK j \in 1..test : SameInterest(x, InterestOf(tests[j]))
      BY DEF E2EInv, Table
    <3> QED BY <2>1, <3>1, <3>2 DEF SameInterest
  <2> QED BY <2>1, <2>2, <2>3
<1>13. Outgoings'
  BY <1>2 DEF E2EInv, Outgoings
<1> QED BY <1>8, <1>9, <1>10, <1>11, <1>12, <1>13 DEF E2EInv


LEMMA E2EUnchangedInv == ASSUME E2EInv, UNCHANGED e2eVars PROVE E2EInv'
<1>1. /\ UNCHANGED <<tests, test, phase, flushing, resultList, fault, pit, forwarded, addressed, lost, inbox>>
      /\ UNCHANGED scriptVars /\ UNCHANGED <<script, sent, pc>>
  BY DEF e2eVars, allVars, vars, suiteVars, forwarderVars, linkVars, scriptVars, historyVars
<1>2. Inv'
  BY <1>1, StandingTypes, OnlyTheLinks DEF E2EInv, ChannelTypeOK
<1>3. Running' /\ Listed'
  BY <1>1 DEF E2EInv, Standing, Running, Listed
<1>4. Standing'
  BY <1>1, <1>3 DEF E2EInv, Standing
<1>5. Quiet' /\ Table' /\ Outgoings'
  BY <1>1 DEF E2EInv, Quiet, Table, Outgoings
<1> QED BY <1>2, <1>3, <1>4, <1>5 DEF E2EInv

\* The steps of the system, one by one.
LEMMA E2ESteps ==
    ASSUME E2ENext
    PROVE  \/ RigSteps /\ RunTest
           \/ RigSteps /\ ReportResult
           \/ RigSteps /\ phase = "running" /\ PromptStep /\ UNCHANGED suiteVars
           \/ \E p \in Arrival : RigSteps /\ FlushReads(p)
           \/ ScriptPollTimesOut
           \/ FlushPollTimesOut
           \/ Forwards
BY DEF E2ENext, RigSteps, Prompt

LEMMA E2ENextInv == ASSUME ReliableTCP, E2EInv, [E2ENext]_e2eVars PROVE E2EInv'
<1>1. CASE E2ENext
  BY <1>1, E2ESteps, RunTestStanding, ReportStanding, ScriptStepStanding, FlushReadsStanding,
     ScriptTimeoutStanding, FlushTimeoutStanding, ForwardsStanding
<1>2. CASE UNCHANGED e2eVars
  BY <1>2, E2EUnchangedInv
<1> QED BY <1>1, <1>2

\* What holds between and during the tests, whatever the forwarder does wrong.
LEMMA E2EInvariant == ASSUME ReliableTCP PROVE E2ESpec => []E2EInv
<1>1. E2EInit => E2EInv
  BY E2EInitInv
<1>2. E2EInv /\ [E2ENext]_e2eVars => E2EInv'
  BY E2ENextInv
<1> QED BY <1>1, <1>2, PTL DEF E2ESpec

------------------------------------------------------------------------------
(* The steps of a script on its course. *)

Tracking(course, stop) == E2EInv /\ phase = "running" /\ Fits(script, course, stop) /\ OnTrack(course, stop)

\* The types of what the steps look at.
LEMMA TrackTypes ==
    ASSUME NEW course, NEW stop, Tracking(course, stop)
    PROVE  /\ Inv /\ TypeInv /\ Len(script) \in 4..6 /\ cur \in 1..(Len(script) + 1) /\ cur <= stop
           /\ stop \in 1..(Len(script) + 1) /\ stop \in Nat /\ cur \in Nat
           /\ bit \in Int /\ bit \in {-1, 1, 2, 3} /\ LinkID = 1..3 /\ Len(course) \in 1..3
           /\ result \in ResultType /\ result.passed
           /\ forwarded \in 0..Len(sent) /\ Len(sent) \in Nat /\ forwarded \in Nat /\ Len(sent) <= Len(course)
           /\ \A i \in 1..Len(course) :
                 /\ course[i].step \in 1..Len(script) /\ course[i].link \in LinkID
                 /\ \A l \in LinkID : course[i].out[l] \in 0..Nobody
           /\ Nobody = 7
<1>1. Inv /\ TypeInv
  BY DEF Tracking, E2EInv, Inv
<1>2. /\ cur \in 1..(Len(script) + 1) /\ bit \in LinkID \cup {-1} /\ result \in ResultType
      /\ Len(sent) \in Nat /\ forwarded \in 0..Len(sent)
  BY StandingTypes DEF Tracking
<1>3. /\ Len(script) \in 4..6 /\ stop \in 1..(Len(script) + 1) /\ Len(course) \in 1..3
      /\ \A i \in 1..Len(course) :
                 /\ course[i].step \in 1..Len(script) /\ course[i].link \in LinkID
                 /\ \A l \in LinkID : course[i].out[l] \in 0..Nobody
  BY DEF Tracking, Fits, FitsTyped
<1>4. result.passed /\ cur <= stop /\ Len(sent) <= Len(course)
  BY DEF Tracking, OnTrack, CourseSent
<1>5. LinkID = 1..3 /\ Nobody = 7
  BY Rigs DEF Nobody
<1>6. bit \in Int /\ bit \in {-1, 1, 2, 3} /\ cur \in Nat /\ stop \in Nat /\ forwarded \in Nat
  BY <1>2, <1>3, <1>5
<1> QED BY <1>1, <1>2, <1>3, <1>4, <1>5, <1>6

\* A course fits only a script that polls links, and such a script of the suite does not crash.
LEMMA TrackNoCrash ==
    ASSUME NEW course, NEW stop, Tracking(course, stop)
    PROVE  ~CrashOnNullLink /\ \A l \in LinkID, p \in Arrival : ~CrashOnNullPacket(l, p)
<1>1. AsWritten(script) /\ Inv
  BY DEF Tracking, E2EInv, Standing, Running, ScriptOf, SuiteScript
<1>2. ASSUME Executing(ReceiveOp) PROVE script[cur].links \subseteq LinkID
  <2>1. cur \in 1..Len(script) /\ script[cur].op \in ReceiveOp
    BY <1>2, TypeParts, TrackTypes, ExecutingInScript DEF Executing
  <2>2. StepFits(script, course, stop, cur)
    BY <2>1, TrackTypes DEF Tracking, Fits, FitsSteps
  <2> QED BY <2>2 DEF StepFits
<1> QED BY <1>1, <1>2, CrashCauses

\* A step that is through with no link a packet is meant for leaves the mail as it is.
LEMMA KeepMail ==
    ASSUME NEW course, CourseMail(course), UNCHANGED <<script, forwarded, inbox>>, forwarded' \in 0..Len(sent'),
           1..forwarded \subseteq 1..Len(course),
           \A k \in 1..Len(script), m \in LinkID : Meant(course, k, m) => (Over(k, m)' <=> Over(k, m))
    PROVE  CourseMail(course)'
<1>1. \A i \in 1..Len(course), m \in LinkID :
          course[i].out[m] \in 1..Len(script) => (Over(course[i].out[m], m)' <=> Over(course[i].out[m], m))
  BY DEF Meant
<1>2. \A i \in 1..Len(course), m \in LinkID : (Due(course, i, m)' <=> Due(course, i, m))
                                              /\ (Gone(course, i, m)' <=> Gone(course, i, m))
  BY <1>1 DEF Due, Gone
<1>3. forwarded' = forwarded /\ inbox' = inbox /\ script' = script
  OBVIOUS
<1>4. \A i \in 1..forwarded', l \in LinkID :
          Due(course, i, l)' => inbox'[l] = <<Forwarded(script'[course[i].step].packet)>>
  BY <1>2, <1>3 DEF CourseMail
<1>5. \A l \in LinkID : (\A i \in 1..forwarded' : Gone(course, i, l)') => inbox'[l] = <<>>
  BY <1>2, <1>3 DEF CourseMail
<1>6. \A i \in 1..Len(course), l \in LinkID :
          course[i].out[l] \in 1..Len(script') /\ Over(course[i].out[l], l)' => i <= forwarded'
  BY <1>1, <1>3 DEF CourseMail
<1> QED BY <1>4, <1>5, <1>6 DEF CourseMail

LEMMA KeepReadings ==
    ASSUME NEW course, CourseReadings(course), UNCHANGED <<script, taken>>,
           bit' # -1 => cur' <= Len(script) /\ bit' \in script[cur'].links,
           \A k \in 1..Len(script), m \in LinkID : Meant(course, k, m) => (Over(k, m)' <=> Over(k, m))
    PROVE  CourseReadings(course)'
<1>1. \A k \in 1..Len(script) :
          {l \in LinkID : Over(k, l)' /\ Meant(course, k, l)} = {l \in LinkID : Over(k, l) /\ Meant(course, k, l)}
  OBVIOUS
<1>2. \A k \in 1..Len(script) : ReadLinks(taken'[k]) = {l \in LinkID : Over(k, l) /\ Meant(course, k, l)}
  BY DEF CourseReadings
<1>3. \A k \in 1..Len(script) : ReadLinks(taken'[k]) = {l \in LinkID : Over(k, l)' /\ Meant(course, k, l)}
  BY <1>1, <1>2
<1> QED BY <1>3 DEF CourseReadings

\* What is meant for a step comes out on a link it polls.
LEMMA MeantPolled ==
    ASSUME NEW course, NEW stop, Tracking(course, stop), NEW k \in 1..Len(script), NEW l \in LinkID,
           Meant(course, k, l)
    PROVE  k <= stop /\ l \in script[k].links /\ script[k].op \in ReceiveOp
BY DEF Tracking, Fits, FitsReads, Meant

\* The end of a step that was through with all its links: the next one begins.
LEMMA NextStepTrack ==
    ASSUME NEW course, NEW stop, Tracking(course, stop), cur \in 1..Len(script), cur < stop,
           \A m \in LinkID : Meant(course, cur, m) => Over(cur, m),
           cur' = cur + 1, bit' = -1, result'.passed, UNCHANGED <<script, forwarded, inbox, taken>>,
           forwarded' \in 0..Len(sent'), CourseSent(course)'
    PROVE  OnTrack(course, stop)'
<1>1. cur' <= stop
  BY TrackTypes
<1>2. ASSUME NEW k \in 1..Len(script), NEW m \in LinkID, Meant(course, k, m)
      PROVE  Over(k, m)' <=> Over(k, m)
  <2>1. k \in Nat /\ cur \in Nat /\ m \in 1..3 /\ bit' = -1 /\ cur' = cur + 1
    BY TrackTypes
  <2>2. Over(k, m)' <=> k <= cur
    BY <2>1 DEF Over
  <2>3. CASE k = cur
    BY <1>2, <2>1, <2>2, <2>3
  <2>4. CASE k # cur
    BY <2>1, <2>2, <2>4 DEF Over
  <2> QED BY <2>3, <2>4
<1>3. CourseMail(course)'
  <2>1. 1..forwarded \subseteq 1..Len(course)
    BY TrackTypes
  <2> QED BY <1>2, <2>1, KeepMail DEF Tracking, OnTrack
<1>4. CourseReadings(course)'
  BY <1>2, KeepReadings DEF Tracking, OnTrack
<1> QED BY <1>1, <1>3, <1>4 DEF OnTrack

LEMMA LowestUnique ==
    ASSUME NEW v, NEW a \in LinkID, NEW b \in LinkID, NEW from, IsNextBitSet(v, from, a), IsNextBitSet(v, from, b)
    PROVE  a = b
<1>1. a \in 1..3 /\ b \in 1..3
  BY Rigs
<1> QED BY <1>1 DEF IsNextBitSet

\* A packet is sent: it is the next of the course.
LEMMA SendTrack ==
    ASSUME NEW course, NEW stop, Tracking(course, stop), ExecuteSendStep, Inv', UNCHANGED forwarded
    PROVE  OnTrack(course, stop)' /\ cur' = cur + 1
<1>0. /\ cur \in Nat /\ Len(sent) \in Nat /\ Len(course) \in 1..3 /\ Len(sent) <= Len(course)
      /\ \A j \in 1..Len(course) : course[j].step \in Nat
  BY TrackTypes
<1>1. cur \in 1..Len(script) /\ script[cur].op \in SendOp /\ pc = "step"
  BY TypeParts, TrackTypes, ExecutingInScript DEF ExecuteSendStep, Executing
<1>2. cur < stop
  <2>1. stop <= Len(script) => script[stop].op \in ReceiveOp
    BY DEF Tracking, Fits, FitsSilence
  <2>2. stop # cur
    BY <1>1, <2>1, TrackTypes DEF SendOp, ReceiveOp
  <2> QED BY <2>2, TrackTypes
<1>3. PICK i \in 1..Len(course) : course[i].step = cur
  BY <1>1, <1>2 DEF Tracking, Fits, FitsSends
<1>4. /\ script[cur].op = "send" => script[cur].links = {course[i].link}
      /\ script[cur].op = "respond" =>
            /\ script[cur].step \in 1..(cur - 1)
            /\ IsNextBitSet({l \in LinkID : Meant(course, script[cur].step, l)}, 0, course[i].link)
  BY <1>3 DEF Tracking, Fits, FitsSends
<1>5. PICK l \in LinkID :
          /\ IsNextBitSet(LinkVector(cur), 0, l)
          /\ sent' = Append(sent, [step |-> cur, link |-> l, packet |-> script[cur].packet])
  BY DEF ExecuteSendStep
<1>6. l = course[i].link
  <2>1. CASE script[cur].op = "send"
    <3>1. LinkVector(cur) = {course[i].link}
      BY <1>4, <2>1 DEF LinkVector
    <3> QED BY <1>5, <3>1 DEF IsNextBitSet
  <2>2. CASE script[cur].op = "respond"
    <3> DEFINE k == script[cur].step
    <3>1. k \in 1..(cur - 1) /\ k \in 1..Len(script) /\ k < cur
      BY <1>1, <1>4, <2>2
    <3>2. LinkVector(cur) = received[k] /\ received[k] = ReadLinks(taken[k])
      BY <2>2, <3>1, TrackTypes DEF LinkVector, Inv, Evidence, Recorded
    <3>3. ReadLinks(taken[k]) = {m \in LinkID : Over(k, m) /\ Meant(course, k, m)}
      BY <3>1 DEF Tracking, OnTrack, CourseReadings
    <3>4. \A m \in LinkID : Over(k, m)
      BY <3>1 DEF Over
    <3>5. LinkVector(cur) = {m \in LinkID : Meant(course, k, m)}
      BY <3>2, <3>3, <3>4
    <3>6. IsNextBitSet({m \in LinkID : Meant(course, k, m)}, 0, course[i].link)
      BY <1>4, <2>2
    <3>7. course[i].link \in LinkID
      BY TrackTypes
    <3> QED BY <1>5, <3>5, <3>6, <3>7, LowestUnique
  <2> QED BY <1>1, <2>1, <2>2 DEF SendOp
<1>7. i = Len(sent) + 1
  <2>1. \A j \in 1..Len(course) : j <= Len(sent) <=> course[j].step < cur
    BY DEF Tracking, OnTrack, CourseSent
  <2>2. ~(i <= Len(sent))
    BY <1>0, <1>3, <2>1
  <2>3. ASSUME i > Len(sent) + 1 PROVE FALSE
    <3>1. Len(sent) + 1 \in 1..Len(course) /\ Len(sent) + 1 < i
      BY <1>0, <2>3
    <3>2. course[Len(sent) + 1].step < course[i].step
      BY <3>1 DEF Tracking, Fits, FitsTyped
    <3>3. Len(sent) + 1 <= Len(sent)
      BY <1>3, <2>1, <3>1, <3>2
    <3> QED BY <1>0, <3>3
  <2> QED BY <1>0, <2>2, <2>3
<1>8. /\ cur' = cur + 1 /\ bit' = -1 /\ result'.passed /\ UNCHANGED <<script, forwarded, inbox, taken>>
  <2>1. LogPacket(result, script[cur].packet).passed
    BY TrackTypes DEF LogPacket, ResultType
  <2> QED BY <2>1 DEF ExecuteSendStep, StepReturns, IsFailure
<1>9. /\ sent \in Seq(Transmission) /\ Len(sent') = Len(sent) + 1
      /\ \A j \in 1..Len(sent) : sent'[j] = sent[j]
      /\ sent'[Len(sent) + 1] = [step |-> cur, link |-> l, packet |-> script[cur].packet]
  <2>1. sent \in Seq(Transmission)
    BY TrackTypes DEF TypeInv, TypeOK
  <2> QED BY <1>5, <2>1
<1>10. CourseSent(course)'
  <2>1. \A j \in 1..Len(course) : j <= Len(sent') <=> course[j].step < cur'
    <3> SUFFICES ASSUME NEW j \in 1..Len(course) PROVE j <= Len(sent) + 1 <=> course[j].step < cur + 1
      BY <1>8, <1>9
    <3>1. j <= Len(sent) <=> course[j].step < cur
      BY DEF Tracking, OnTrack, CourseSent
    <3>2. course[j].step = cur <=> j = i
      <4>1. j < i => course[j].step < course[i].step
        BY DEF Tracking, Fits, FitsTyped
      <4>2. i < j => course[i].step < course[j].step
        BY DEF Tracking, Fits, FitsTyped
      <4>3. j \in Nat /\ i \in Nat /\ course[j].step \in Nat /\ course[i].step \in Nat
        BY <1>0
      <4> QED BY <1>3, <4>1, <4>2, <4>3
    <3>3. j \in Nat /\ course[j].step \in Nat
        BY <1>0
      <3> QED BY <1>0, <1>7, <3>1, <3>2, <3>3
  <2>2. ASSUME NEW j \in 1..Len(sent')
        PROVE  sent'[j] = [step |-> course[j].step, link |-> course[j].link,
                           packet |-> script[course[j].step].packet]
    <3>1. CASE j = i
      <4>1. sent'[j] = [step |-> cur, link |-> l, packet |-> script[cur].packet]
        BY <1>7, <1>9, <3>1
      <4> QED BY <1>3, <1>6, <3>1, <4>1
    <3>2. CASE j # i
      <4>1. j \in 1..Len(sent)
        BY <1>0, <1>7, <1>9, <3>2
      <4> QED BY <1>9, <4>1 DEF Tracking, OnTrack, CourseSent
    <3> QED BY <3>1, <3>2
  <2>3. Len(sent') <= Len(course)
    BY <1>0, <1>7, <1>9
  <2> QED BY <1>8, <2>1, <2>2, <2>3 DEF CourseSent
<1>11. \A m \in LinkID : ~Meant(course, cur, m)
  BY <1>1, MeantPolled DEF SendOp, ReceiveOp
<1>12. forwarded' \in 0..Len(sent')
  BY <1>8, <1>9, TrackTypes
<1>13. OnTrack(course, stop)'
  BY <1>1, <1>2, <1>8, <1>10, <1>11, <1>12, NextStepTrack
<1> QED BY <1>8, <1>13


\* A receive step polls the lowest link it has not been through.
LEMMA Polls ==
    ASSUME NEW course, NEW stop, Tracking(course, stop), Executing(ReceiveOp), NEW l \in LinkID, NextLink(l)
    PROVE  /\ cur \in 1..Len(script) /\ script[cur].op \in ReceiveOp /\ pc = "step"
           /\ l \in script[cur].links /\ l > bit /\ ~Over(cur, l)
           /\ \A m \in script[cur].links : m \in LinkID /\ (m <= l <=> m <= bit \/ m = l)
           /\ script[cur].links \in SUBSET LinkID /\ StepFits(script, course, stop, cur)
<1>1. cur \in 1..Len(script) /\ script[cur].op \in ReceiveOp /\ pc = "step"
  BY TypeParts, TrackTypes, ExecutingInScript DEF Executing
<1>2. /\ l \in script[cur].links /\ l > bit
      /\ \A m \in script[cur].links : m <= l <=> m <= bit \/ m = l
  BY TrackTypes, PollsNextLink
<1>3. ~Over(cur, l)
  BY <1>2, TrackTypes DEF Over
<1>4. StepFits(script, course, stop, cur)
  BY <1>1, TrackTypes DEF Tracking, Fits, FitsSteps
<1>5. script[cur].links \in SUBSET LinkID
  BY <1>4 DEF StepFits
<1> QED BY <1>1, <1>2, <1>3, <1>4, <1>5

\* What the next link changes for the steps of the course: nothing but that link of the running one.
LEMMA PollOver ==
    ASSUME NEW course, NEW stop, Tracking(course, stop), Executing(ReceiveOp), NEW l \in LinkID, NextLink(l),
           cur' = cur, bit' = l, NEW k \in 1..Len(script), NEW m \in LinkID, Meant(course, k, m)
    PROVE  Over(k, m)' <=> Over(k, m) \/ (k = cur /\ m = l)
<1>1. k \in Nat /\ cur \in Nat /\ m \in 1..3 /\ l \in 1..3 /\ bit \in Int /\ l > bit
  BY TrackTypes, Polls
<1>2. CASE k = cur
  <2>1. m \in script[cur].links
    BY <1>2, MeantPolled
  <2>2. m <= l <=> m <= bit \/ m = l
    BY <2>1, Polls
  <2> QED BY <1>1, <1>2, <2>2 DEF Over
<1>3. CASE k # cur
  BY <1>1, <1>3 DEF Over
<1> QED BY <1>2, <1>3

\* At most one packet of a course comes out on a link for the same step.
LEMMA MeantOnce ==
    ASSUME NEW course, NEW stop, Tracking(course, stop), NEW i \in 1..Len(course), NEW j \in 1..Len(course),
           NEW l \in LinkID, course[i].out[l] = course[j].out[l], course[i].out[l] # 0
    PROVE  i = j
<1>1. ASSUME NEW a \in 1..Len(course), NEW b \in 1..Len(course), a < b,
             course[a].out[l] = course[b].out[l], course[a].out[l] # 0
      PROVE  FALSE
  <2>1. course[a].out[l] < course[b].step
    BY <1>1 DEF Tracking, Fits, FitsApart
  <2>2. course[b].step < course[b].out[l]
    BY <1>1 DEF Tracking, Fits, FitsTyped
  <2>3. course[b].step \in Nat /\ course[b].out[l] \in Nat
    BY TrackTypes
  <2> QED BY <1>1, <2>1, <2>2, <2>3
<1>2. ~(i < j) /\ ~(j < i)
  BY <1>1
<1> QED BY <1>2, TrackTypes

\* What waits on the link a step polls is for that step.
LEMMA WaitsForStep ==
    ASSUME NEW course, NEW stop, Tracking(course, stop), Executing(ReceiveOp), NEW l \in LinkID, NextLink(l),
           NEW i \in 1..forwarded, ~Gone(course, i, l)
    PROVE  i \in 1..Len(course) /\ course[i].out[l] = cur
<1> DEFINE k == course[i].out[l]
           own == course[i].step
<1>1. i \in 1..Len(course) /\ i \in 1..Len(sent) /\ i <= Len(sent) /\ i \in Nat
  BY TrackTypes
<1>2. /\ cur \in 1..Len(script) /\ Len(script) \in 4..6 /\ ~Over(cur, l) /\ l \in script[cur].links
      /\ StepFits(script, course, stop, cur)
  BY Polls, TrackTypes
<1>30. own \in Nat /\ k \in 0..Nobody /\ Nobody = 7
  BY <1>1, TrackTypes
<1>31. k # 0
  BY DEF Gone
<1>3. k \in 0..7 /\ k # 0 /\ own \in Nat
  BY <1>30, <1>31
<1>4. own < cur
  BY <1>1 DEF Tracking, OnTrack, CourseSent
<1>5. k \in 1..Len(script) => ~Over(k, l)
  BY DEF Gone
<1>6. ~(k < cur)
  <2> HIDE DEF k, own
  <2>1. k < cur => k \in 1..Len(script)
    BY <1>2, <1>3
  <2>2. k < cur => Over(k, l)
    BY DEF Over
  <2> QED BY <1>5, <2>1, <2>2
<1>7. ~Silent(course, cur, l)
  BY <1>1, <1>4, <1>6 DEF Silent
<1>8. PICK j \in 1..Len(course) : course[j].out[l] = cur
  BY <1>2, <1>7 DEF StepFits, Meant
<1>9. ~(j < i)
  <2>1. j < i => course[j].out[l] < own
    <3>1. course[j].out[l] # 0
      BY <1>2, <1>8
    <3> QED BY <1>1, <1>3, <3>1 DEF Tracking, Fits, FitsApart
  <2> HIDE DEF k, own
  <2> QED BY <1>2, <1>3, <1>4, <1>8, <2>1
<1>10. ~(i < j)
  <2>1. i < j => k < course[j].step
    <3>1. course[j].out[l] # 0
      BY <1>2, <1>8
    <3> QED BY <1>1, <1>3, <3>1 DEF Tracking, Fits, FitsApart
  <2>2. course[j].step < cur /\ course[j].step \in Nat
    <3>1. course[j].out[l] # 0
      BY <1>2, <1>8
    <3> QED BY <1>8, <3>1, TrackTypes DEF Tracking, Fits, FitsTyped
  <2> HIDE DEF k, own
  <2> QED BY <1>2, <1>3, <1>6, <2>1, <2>2
<1>11. i = j
  BY <1>1, <1>9, <1>10, TrackTypes
<1> QED BY <1>1, <1>8, <1>11

\* What a step finds on a link is meant for it, and it is the packet the course says.
LEMMA FoundMeant ==
    ASSUME NEW course, NEW stop, Tracking(course, stop), Executing(ReceiveOp), NEW l \in LinkID, NextLink(l),
           inbox[l] # <<>>
    PROVE  \E i \in 1..forwarded :
              /\ i \in 1..Len(course) /\ course[i].out[l] = cur
              /\ inbox[l] = <<Forwarded(script[course[i].step].packet)>>
<1>1. PICK i \in 1..forwarded : ~Gone(course, i, l)
  BY DEF Tracking, OnTrack, CourseMail
<1>2. i \in 1..Len(course) /\ course[i].out[l] = cur
  BY <1>1, WaitsForStep
<1>3. cur \in 1..Len(script) /\ ~Over(cur, l)
  BY Polls
<1>4. Due(course, i, l)
  BY <1>2, <1>3 DEF Due
<1>5. inbox[l] = <<Forwarded(script[course[i].step].packet)>>
  BY <1>4 DEF Tracking, OnTrack, CourseMail
<1> QED BY <1>2, <1>5

\* When the forwarder has nothing left to do and a link is empty, nothing is meant for the step that polls it.
LEMMA NothingMeant ==
    ASSUME NEW course, NEW stop, Tracking(course, stop), Executing(ReceiveOp), NEW l \in LinkID, NextLink(l),
           inbox[l] = <<>>, Idle
    PROVE  ~Meant(course, cur, l)
<1> SUFFICES ASSUME NEW i \in 1..Len(course), course[i].out[l] = cur PROVE FALSE
  BY DEF Meant
<1>1. cur \in 1..Len(script) /\ ~Over(cur, l)
  BY Polls
<1>2. course[i].step < cur
  <2>1. course[i].out[l] # 0 => course[i].step < course[i].out[l]
    BY DEF Tracking, Fits, FitsTyped
  <2> QED BY <1>1, <2>1
<1>3. i <= Len(sent)
  BY <1>2 DEF Tracking, OnTrack, CourseSent
<1>4. i \in 1..forwarded
  BY <1>3, TrackTypes DEF Idle
<1>5. Due(course, i, l)
  BY <1>1 DEF Due
<1>6. inbox[l] = <<Forwarded(script[course[i].step].packet)>>
  BY <1>4, <1>5 DEF Tracking, OnTrack, CourseMail
<1>7. <<Forwarded(script[course[i].step].packet)>> # <<>>
  OBVIOUS
<1> QED BY <1>6, <1>7


\* A packet is read that is what the step asks for.
LEMMA ReadTrack ==
    ASSUME NEW course, NEW stop, Tracking(course, stop), Executing(ReceiveOp), NEW l \in LinkID,
           NEW p \in Arrival, Reads(l, p), cur' = cur, bit' = l, result'.passed, Inv', UNCHANGED forwarded
    PROVE  OnTrack(course, stop)'
<1>0. NextLink(l) /\ Receives(l, p) /\ UNCHANGED <<script, sent>> /\ inbox[l] # <<>>
  BY DEF Reads, Receives
<1>1. PICK i \in 1..forwarded :
         /\ i \in 1..Len(course) /\ course[i].out[l] = cur
         /\ inbox[l] = <<Forwarded(script[course[i].step].packet)>>
  BY <1>0, FoundMeant
<1>2. /\ cur \in 1..Len(script) /\ l \in script[cur].links /\ Meant(course, cur, l) /\ ~Over(cur, l)
  BY <1>0, <1>1, Polls DEF Meant
<1>3. inbox'[l] = <<>> /\ \A m \in LinkID : m # l => inbox'[m] = inbox[m]
  <2>1. inbox \in [LinkID -> Seq(Arrival)]
    BY StandingTypes DEF Tracking
  <2>2. TakenAtOnce \in Nat \ {0}
    BY ChannelAssumption DEF TakenAtOnce
  <2>3. inbox' = [inbox EXCEPT ![l] = SubSeq(@, TakenAtOnce + 1, Len(@))]
    BY <1>0 DEF Receives
  <2>4. inbox'[l] = SubSeq(inbox[l], TakenAtOnce + 1, Len(inbox[l]))
    BY <2>1, <2>3
  <2>5. Len(inbox[l]) = 1
    BY <1>1
  <2>6. inbox[l] \in Seq(Arrival)
    BY <2>1
  <2>7. SubSeq(inbox[l], TakenAtOnce + 1, Len(inbox[l])) = <<>>
    BY <2>2, <2>5, <2>6
  <2> QED BY <2>1, <2>3, <2>4, <2>7
<1>4. \A k \in 1..Len(script), m \in LinkID :
          Meant(course, k, m) => (Over(k, m)' <=> Over(k, m) \/ (k = cur /\ m = l))
  BY <1>0, PollOver
<1>5. CourseSent(course)'
  BY <1>0 DEF Tracking, OnTrack, CourseSent
<1>6. \A j \in 1..Len(course), m \in LinkID : course[j].out[m] \in 1..Len(script) =>
          (Over(course[j].out[m], m)' <=> Over(course[j].out[m], m) \/ (course[j].out[m] = cur /\ m = l))
  BY <1>4 DEF Meant
<1>7. CourseMail(course)'
  <2>1. forwarded' \in 0..Len(sent') /\ 1..forwarded \subseteq 1..Len(course) /\ forwarded' = forwarded
    BY <1>0, TrackTypes
  <2>2. \A j \in 1..forwarded : ~Gone(course, j, l) => course[j].out[l] = cur
    BY <1>0, WaitsForStep
  <2>3. ASSUME NEW j \in 1..forwarded', NEW m \in LinkID, Due(course, j, m)'
        PROVE  inbox'[m] = <<Forwarded(script'[course[j].step].packet)>>
    <3>1. j \in 1..forwarded /\ j \in 1..Len(course)
      BY <2>1
    <3>2. course[j].out[m] \in 1..Len(script) /\ ~(Over(course[j].out[m], m)')
      BY <1>0, <2>3 DEF Due
    <3>3. Due(course, j, m) /\ ~(course[j].out[m] = cur /\ m = l)
      BY <1>6, <3>1, <3>2 DEF Due
    <3>4. m # l
      <4>1. CASE m = l
        <5>1. ~Gone(course, j, l)
          BY <3>2, <3>3, <4>1 DEF Due, Gone
        <5> QED BY <2>2, <3>1, <3>3, <4>1, <5>1
      <4> QED BY <4>1
    <3>5. inbox[m] = <<Forwarded(script[course[j].step].packet)>>
      BY <3>1, <3>3 DEF Tracking, OnTrack, CourseMail
    <3> QED BY <1>0, <1>3, <3>4, <3>5
  <2>4. ASSUME NEW m \in LinkID, \A j \in 1..forwarded' : Gone(course, j, m)'
        PROVE  inbox'[m] = <<>>
    <3>1. CASE m = l
      BY <1>3, <3>1
    <3>2. CASE m # l
      <4>1. ASSUME NEW j \in 1..forwarded PROVE Gone(course, j, m)
        <5>1. j \in 1..Len(course) /\ Gone(course, j, m)'
          BY <2>1, <2>4
        <5> QED BY <1>0, <1>6, <3>2, <5>1 DEF Gone
      <4>2. inbox[m] = <<>>
        BY <4>1 DEF Tracking, OnTrack, CourseMail
      <4> QED BY <1>3, <3>2, <4>2
    <3> QED BY <3>1, <3>2
  <2>5. ASSUME NEW j \in 1..Len(course), NEW m \in LinkID,
               course[j].out[m] \in 1..Len(script'), Over(course[j].out[m], m)'
        PROVE  j <= forwarded'
    <3>1. CASE Over(course[j].out[m], m)
      BY <1>0, <2>1, <2>5, <3>1 DEF Tracking, OnTrack, CourseMail
    <3>2. CASE ~Over(course[j].out[m], m)
      <4>1. course[j].out[m] = cur /\ m = l
        BY <1>0, <1>6, <2>5, <3>2
      <4>2. j = i
        <5>1. course[i].out[l] # 0 /\ course[i].out[l] = course[j].out[l]
          BY <1>1, <1>2, <4>1
        <5> QED BY <1>1, <5>1, MeantOnce
      <4> QED BY <1>1, <2>1, <4>2, TrackTypes
    <3> QED BY <3>1, <3>2
  <2> QED BY <2>1, <2>3, <2>4, <2>5 DEF CourseMail
<1>8. CourseReadings(course)'
  <2>1. /\ \A k \in 1..Len(script) : k # cur => taken'[k] = taken[k]
        /\ ReadLinks(taken'[cur]) = ReadLinks(taken[cur]) \cup {l}
    BY MessageReads, TrackTypes
  <2>2. \A k \in 1..Len(script) : ReadLinks(taken[k]) = {m \in LinkID : Over(k, m) /\ Meant(course, k, m)}
    BY DEF Tracking, OnTrack, CourseReadings
  <2>3. ASSUME NEW k \in 1..Len(script')
        PROVE  ReadLinks(taken'[k]) = {m \in LinkID : Over(k, m)' /\ Meant(course, k, m)}
    <3>0. k \in 1..Len(script)
      BY <1>0
    <3>1. CASE k = cur
      <4>1. \A m : m \in ReadLinks(taken'[cur]) <=>
                       (m \in LinkID /\ Over(cur, m) /\ Meant(course, cur, m)) \/ m = l
        BY <1>2, <2>1, <2>2
      <4>2. \A m \in LinkID : Over(cur, m)' /\ Meant(course, cur, m) <=>
                       (Over(cur, m) /\ Meant(course, cur, m)) \/ m = l
        BY <1>2, <1>4
      <4>3. \A m : m \in ReadLinks(taken'[cur]) <=> m \in LinkID /\ Over(cur, m)' /\ Meant(course, cur, m)
        BY <4>1, <4>2
      <4> QED BY <3>1, <4>3
    <3>2. CASE k # cur
      <4>1. \A m \in LinkID : Meant(course, k, m) => (Over(k, m)' <=> Over(k, m))
        BY <1>4, <3>0, <3>2
      <4>2. ReadLinks(taken'[k]) = {m \in LinkID : Over(k, m) /\ Meant(course, k, m)}
        BY <2>1, <2>2, <3>0, <3>2
      <4> QED BY <4>1, <4>2
    <3> QED BY <3>1, <3>2
  <2>4. bit' # -1 => cur' <= Len(script') /\ bit' \in script'[cur'].links
    BY <1>0, <1>2, TrackTypes
  <2> QED BY <2>3, <2>4 DEF CourseReadings
<1>9. cur' <= stop
  BY TrackTypes
<1> QED BY <1>5, <1>7, <1>8, <1>9 DEF OnTrack

\* A poll that ends with a packet.
LEMMA MessageTrack ==
    ASSUME NEW course, NEW stop, Tracking(course, stop), ReliableTCP, MessageStep, Inv', UNCHANGED forwarded
    PROVE  \/ OnTrack(course, stop)' /\ cur' = cur /\ bit' # -1
           \/ Stopped(stop)'
<1>2. \A l \in LinkID, p \in Arrival : ~CrashOnNullPacket(l, p)
  BY TrackNoCrash
<1>3. PICK l \in LinkID, p \in Arrival :
          ReceiveAllMessage(l, p) \/ ReceiveOneMessage(l, p) \/ ReceiveNoneMessage(l, p)
  BY <1>2 DEF MessageStep
<1>4. Reads(l, p) /\ Executing(ReceiveOp) /\ NextLink(l) /\ inbox[l] # <<>> /\ p = Head(inbox[l])
  BY <1>3 DEF ReceiveAllMessage, ReceiveOneMessage, ReceiveNoneMessage, Reads, Receives, Executing, ReceiveOp
<1>5. PICK i \in 1..forwarded :
         /\ i \in 1..Len(course) /\ course[i].out[l] = cur
         /\ inbox[l] = <<Forwarded(script[course[i].step].packet)>>
  BY <1>4, FoundMeant
<1>6. p = Forwarded(script[course[i].step].packet) /\ Meant(course, cur, l)
  BY <1>4, <1>5 DEF Meant
<1>7. cur \in 1..Len(script) /\ StepFits(script, course, stop, cur) /\ l \in script[cur].links
  BY <1>4, Polls
<1>8. CASE ReceiveNoneMessage(l, p)
  <2>1. script[cur].op = "receiveNone"
    BY <1>8 DEF ReceiveNoneMessage, Executing
  <2>2. ~(cur < stop)
    BY <1>6, <1>7, <2>1 DEF StepFits
  <2>3. cur = stop
    BY <2>2, TrackTypes
  <2>4. StepReturns(SetFail(result, "unexpected"))
    BY <1>8 DEF ReceiveNoneMessage
  <2>5. ~SetFail(result, "unexpected").passed
    <3>1. result \in ResultType
      BY TrackTypes
    <3>2. "unexpected" \in Reason
      BY DEF Reason
    <3> QED BY <3>1, <3>2, SetFailFails
  <2> QED BY <2>3, <2>4, <2>5 DEF StepReturns, IsFailure, Stopped
<1>9. CASE ReceiveAllMessage(l, p) \/ ReceiveOneMessage(l, p)
  <2>1. script[cur].op # "receiveNone"
    BY <1>9 DEF ReceiveAllMessage, ReceiveOneMessage, Executing
  <2>2. Matches(ReferencePacket, p)
    BY <1>5, <1>6, <1>7, <2>1 DEF Tracking, Fits, FitsReads, ReferencePacket
  <2>3. TypesMatch(ReferencePacket, p)
    BY <2>2 DEF Matches
  <2>4. result' = Checked(p) /\ bit' = l /\ cur' = cur
    BY <1>9, <2>3 DEF ReceiveAllMessage, ReceiveOneMessage
  <2>5. result'.passed
    BY <2>2, <2>3, <2>4, CheckedPasses, TrackTypes
  <2>6. OnTrack(course, stop)'
    BY <1>4, <2>4, <2>5, ReadTrack
  <2>7. l # -1
    BY Rigs
  <2> QED BY <2>4, <2>6, <2>7
<1> QED BY <1>3, <1>8, <1>9


\* The loop of a receive step has been through all its links.
LEMMA LoopTrack ==
    ASSUME NEW course, NEW stop, Tracking(course, stop), LoopReturns, UNCHANGED forwarded
    PROVE  \/ OnTrack(course, stop)' /\ cur' = cur + 1
           \/ Stopped(stop)'
<1>1. Executing(ReceiveOp) /\ LoopDone
  BY Zenon DEF LoopReturns, ReceiveAllReturns, ReceiveOneReturns, ReceiveNoneReturns, Executing, ReceiveOp
<1>2. cur \in 1..Len(script) /\ script[cur].op \in ReceiveOp /\ pc = "step"
  BY <1>1, TypeParts, TrackTypes, ExecutingInScript DEF Executing
<1>3. StepFits(script, course, stop, cur)
  BY <1>2, TrackTypes DEF Tracking, Fits, FitsSteps
<1>4. script[cur].links # {} /\ script[cur].links \subseteq LinkID
  BY <1>3 DEF StepFits
<1>5. \A m \in script[cur].links : Over(cur, m)
  <2>1. LinkVector(cur) = script[cur].links
    BY <1>2 DEF LinkVector, ReceiveOp
  <2> QED BY <1>1, <2>1 DEF LoopDone, Over
<1>6. \A m \in LinkID : Meant(course, cur, m) => m \in script[cur].links /\ Over(cur, m)
  BY <1>2, <1>5, MeantPolled
<1>7. ReadLinks(taken[cur]) = {m \in LinkID : Meant(course, cur, m)}
  <2>1. ReadLinks(taken[cur]) = {m \in LinkID : Over(cur, m) /\ Meant(course, cur, m)}
    BY <1>2 DEF Tracking, OnTrack, CourseReadings
  <2> QED BY <1>6, <2>1
<1>8. UNCHANGED <<script, received, inbox, historyVars>>
  BY Zenon DEF LoopReturns, ReceiveAllReturns, ReceiveOneReturns, ReceiveNoneReturns
<1>9. UNCHANGED <<script, inbox, sent, taken>>
  BY <1>8 DEF historyVars
<1>10. ASSUME cur < stop, StepReturns(result) PROVE OnTrack(course, stop)' /\ cur' = cur + 1
  <2>1. cur' = cur + 1 /\ bit' = -1 /\ result'.passed
    BY <1>10, TrackTypes DEF StepReturns, IsFailure
  <2>2. CourseSent(course)'
    <3>1. \A i \in 1..Len(course) : course[i].step < cur + 1 <=> course[i].step < cur
      <4> SUFFICES ASSUME NEW i \in 1..Len(course) PROVE course[i].step < cur + 1 <=> course[i].step < cur
        OBVIOUS
      <4>1. script[course[i].step].op \in SendOp
        BY DEF Tracking, Fits, FitsSends
      <4>2. course[i].step # cur
        BY <1>2, <4>1 DEF SendOp, ReceiveOp
      <4>3. course[i].step \in Nat /\ cur \in Nat
        BY TrackTypes
      <4> QED BY <4>2, <4>3
    <3> QED BY <1>9, <2>1, <3>1 DEF Tracking, OnTrack, CourseSent
  <2>3. forwarded' \in 0..Len(sent')
    BY <1>9, TrackTypes
  <2>4. OnTrack(course, stop)'
    BY <1>2, <1>6, <1>9, <1>10, <2>1, <2>2, <2>3, NextStepTrack
  <2> QED BY <2>1, <2>4
<1>11. ReadLinks({}) = {}
  BY DEF ReadLinks
<1>12. RunningLoop
  BY TrackTypes DEF Inv, Evidence
<1>13. CASE ReceiveAllReturns
  <2>1. script[cur].op = "receiveAll"
    BY <1>13 DEF ReceiveAllReturns, Executing
  <2>2. ReadLinks(taken[cur]) = {l \in script[cur].links : l <= bit}
    BY <1>2, <1>12, <2>1 DEF RunningLoop
  <2>3. \A l \in script[cur].links : l <= bit
    BY <1>5, TrackTypes DEF Over
  <2>4. cur < stop
    BY <1>3, <1>4, <1>7, <2>1, <2>2, <2>3 DEF StepFits
  <2> QED BY <1>10, <1>13, <2>4 DEF ReceiveAllReturns
<1>14. CASE ReceiveNoneReturns
  <2>1. script[cur].op = "receiveNone"
    BY <1>14 DEF ReceiveNoneReturns, Executing
  <2>2. taken[cur] = {}
    BY <1>2, <1>12, <2>1 DEF RunningLoop
  <2>3. PICK l \in script[cur].links : TRUE
    BY <1>4
  <2>4. ~Meant(course, cur, l)
    BY <1>4, <1>7, <1>11, <2>2, <2>3
  <2>5. cur < stop
    BY <1>3, <2>1, <2>3, <2>4 DEF StepFits
  <2> QED BY <1>10, <1>14, <2>5 DEF ReceiveNoneReturns
<1>15. CASE ReceiveOneReturns
  <2>1. script[cur].op = "receiveOne"
    <3>1. Executing({"receiveOne"})
      BY <1>15, Zenon DEF ReceiveOneReturns
    <3> QED BY <3>1 DEF Executing
  <2>2. ~failedAfterReceive /\ (succeeded <=> taken[cur] # {})
    <3>1. result.passed /\ succeeded \in BOOLEAN /\ failedAfterReceive \in BOOLEAN
      BY TrackTypes, TypeParts DEF ControlTyped
    <3> QED BY <1>2, <1>12, <2>1, <3>1 DEF RunningLoop
  <2>3. CASE succeeded
    <3>1. StepReturns(result)
      BY <1>15, <2>3, Zenon DEF ReceiveOneReturns
    <3>2. PICK r \in taken[cur] : TRUE
      BY <2>2, <2>3
    <3>3. r[1] \in ReadLinks(taken[cur])
      BY DEF ReadLinks
    <3>4. r[1] \in LinkID /\ Meant(course, cur, r[1])
      BY <1>7, <3>3
    <3>5. r[1] \in script[cur].links
      BY <1>6, <3>4
    <3>6. cur < stop
      BY <1>3, <2>1, <3>4, <3>5 DEF StepFits
    <3> QED BY <1>10, <3>1, <3>6
  <2>4. CASE ~succeeded
    <3>1. StepReturns(SetFail(result, "no message"))
      BY <1>15, <2>2, <2>4, Zenon DEF ReceiveOneReturns
    <3>2. PICK l \in script[cur].links : TRUE
      BY <1>4
    <3>3. ~Meant(course, cur, l)
      BY <1>4, <1>7, <1>11, <2>2, <2>4, <3>2
    <3>4. ~(cur < stop)
      BY <1>3, <2>1, <3>2, <3>3 DEF StepFits
    <3>5. cur = stop
      BY <3>4, TrackTypes
    <3>6. result \in ResultType
      BY TrackTypes
    <3>7. "no message" \in Reason
      BY Zenon DEF Reason
    <3>8. ~SetFail(result, "no message").passed
      BY <3>6, <3>7, SetFailFails, Zenon
    <3>9. pc' = "returned" /\ cur' = cur /\ result' = SetFail(result, "no message")
      BY <3>1, <3>8, Zenon DEF StepReturns, IsFailure
    <3>10. ~result'.passed
      BY <3>8, <3>9, Zenon
    <3> QED BY <3>5, <3>9, <3>10, Zenon DEF Stopped
  <2> QED BY <2>3, <2>4
<1> QED BY <1>13, <1>14, <1>15, Zenon DEF LoopReturns

\* The script returns behind its last step.
LEMMA ReturnTrack ==
    ASSUME NEW course, NEW stop, Tracking(course, stop), ScriptReturns, UNCHANGED forwarded
    PROVE  OnTrack(course, stop)' /\ cur' = cur /\ bit' = bit
<1>1. /\ UNCHANGED <<script, cur, bit, inbox, sent, taken>> /\ result' = SetPass(result)
  BY DEF ScriptReturns, loopVars, historyVars
<1>2. result'.passed
  BY <1>1, TrackTypes DEF SetPass, ResultType
<1>3. CourseSent(course)' /\ CourseReadings(course)'
  BY <1>1 DEF Tracking, OnTrack, CourseSent, CourseReadings, Over
<1>4. CourseMail(course)'
  <2>1. forwarded' \in 0..Len(sent') /\ 1..forwarded \subseteq 1..Len(course)
    BY <1>1, TrackTypes
  <2>2. \A k \in 1..Len(script), m \in LinkID : Over(k, m)' <=> Over(k, m)
    BY <1>1 DEF Over
  <2> QED BY <1>1, <2>1, <2>2, KeepMail DEF Tracking, OnTrack
<1> QED BY <1>1, <1>2, <1>3, <1>4 DEF Tracking, OnTrack


\* A poll in vain leaves the course as it is when the step asked for silence or fails in any case.
LEMMA SilentTrack ==
    ASSUME NEW course, NEW stop, Tracking(course, stop), Executing(ReceiveOp), NEW l \in LinkID, NextLink(l),
           ~Meant(course, cur, l), cur' = cur, bit' = l, UNCHANGED <<script, forwarded, inbox, sent, taken, result>>
    PROVE  OnTrack(course, stop)'
<1>1. ASSUME NEW k \in 1..Len(script), NEW m \in LinkID, Meant(course, k, m)
      PROVE  Over(k, m)' <=> Over(k, m)
  <2>1. Over(k, m)' <=> Over(k, m) \/ (k = cur /\ m = l)
    BY <1>1, PollOver
  <2> QED BY <1>1, <2>1
<1>2. CourseSent(course)'
  BY DEF Tracking, OnTrack, CourseSent
<1>3. CourseMail(course)'
  <2>1. forwarded' \in 0..Len(sent') /\ 1..forwarded \subseteq 1..Len(course)
    BY TrackTypes
  <2> QED BY <1>1, <2>1, KeepMail DEF Tracking, OnTrack
<1>4. CourseReadings(course)'
  <2>1. bit' # -1 => cur' <= Len(script) /\ bit' \in script[cur'].links
    BY Polls, TrackTypes
  <2> QED BY <1>1, <2>1, KeepReadings DEF Tracking, OnTrack
<1> QED BY <1>2, <1>3, <1>4 DEF Tracking, OnTrack

\* A poll that ends in vain: silence was asked for, and it is the first poll for it, or the step fails and no
\* packet of the course is left.
LEMMA TimeoutTrack ==
    ASSUME NEW course, NEW stop, Tracking(course, stop), ReliableTCP, TimeoutStep, Idle, UNCHANGED forwarded
    PROVE  \/ /\ OnTrack(course, stop)' /\ cur' = cur /\ bit' # -1 /\ UNCHANGED script
              /\ forwarded' = Len(course) \/ (~Waited /\ Waited')
           \/ Stopped(stop)'
<1>1. PICK l \in LinkID : ReceiveAllTimeout(l) \/ ReceiveOneTimeout(l) \/ ReceiveNoneTimeout(l)
  BY DEF TimeoutStep
<1>2. /\ ReadsNothing(l) /\ Executing(ReceiveOp) /\ NextLink(l) /\ inbox[l] = <<>>
      /\ UNCHANGED <<script, inbox, sent, taken>>
  BY <1>1 DEF ReceiveAllTimeout, ReceiveOneTimeout, ReceiveNoneTimeout, Executing, ReceiveOp, ReadsNothing,
              ReceivesNothing, ReliableTCP, historyVars
<1>3. ~Meant(course, cur, l)
  BY <1>2, NothingMeant
<1>4. cur \in 1..Len(script) /\ StepFits(script, course, stop, cur) /\ l \in script[cur].links /\ l > bit
  BY <1>2, Polls
<1>5. l # -1 /\ l \in 1..3
  BY Rigs
<1>6. CASE ReceiveAllTimeout(l)
  <2>1. script[cur].op = "receiveAll" /\ StepReturns(SetFail(result, "timeout"))
    BY <1>6 DEF ReceiveAllTimeout, Executing
  <2>2. ~(cur < stop)
    BY <1>3, <1>4, <2>1 DEF StepFits
  <2>3. cur = stop
    BY <2>2, TrackTypes
  <2>4. ~SetFail(result, "timeout").passed
    <3>1. result \in ResultType
      BY TrackTypes
    <3>2. "timeout" \in Reason
      BY DEF Reason
    <3> QED BY <3>1, <3>2, SetFailFails
  <2> QED BY <2>1, <2>3, <2>4 DEF StepReturns, IsFailure, Stopped
<1>7. CASE ReceiveOneTimeout(l)
  <2>1. script[cur].op = "receiveOne" /\ bit' = l /\ UNCHANGED <<cur, result>>
    BY <1>7 DEF ReceiveOneTimeout, Executing
  <2>2. ~(cur < stop)
    BY <1>3, <1>4, <2>1 DEF StepFits
  <2>3. cur = stop
    BY <2>2, TrackTypes
  <2>4. OnTrack(course, stop)'
    BY <1>2, <1>3, <2>1, SilentTrack
  <2>5. Len(course) <= Len(sent)
    <3>1. Len(course) \in 1..Len(course)
      <4>1. Len(course) \in 1..3
        BY TrackTypes
      <4> QED BY <4>1
    <3>2. course[Len(course)].step < cur
      BY <2>3, <3>1 DEF Tracking, Fits, FitsTyped
    <3> QED BY <3>1, <3>2 DEF Tracking, OnTrack, CourseSent
  <2>6. forwarded' = Len(course)
    BY <2>5, TrackTypes DEF Idle
  <2> QED BY <1>2, <1>5, <2>1, <2>4, <2>6
<1>8. CASE ReceiveNoneTimeout(l)
  <2>1. script[cur].op = "receiveNone" /\ bit' = l /\ UNCHANGED <<cur, result>>
    BY <1>8 DEF ReceiveNoneTimeout, Executing
  <2>2. OnTrack(course, stop)'
    BY <1>2, <1>3, <2>1, SilentTrack
  <2>3. Waited'
    BY <1>2, <1>4, <1>5, <2>1 DEF Waited
  <2>4. bit = -1
    <3>1. bit # -1 => bit \in script[cur].links
      BY DEF Tracking, OnTrack, CourseReadings
    <3>2. PICK m \in LinkID : script[cur].links = {m}
      BY <1>4, <2>1 DEF Tracking, Fits, FitsSilence
    <3> QED BY <1>4, <1>5, <3>1, <3>2
  <2>5. ~Waited
    <3> SUFFICES ASSUME NEW k \in 1..Len(script), script[k].op = "receiveNone",
                        k < cur \/ (k = cur /\ bit # -1)
                 PROVE  FALSE
      BY DEF Waited
    <3>1. k = cur
      BY <1>4, <2>1 DEF Tracking, Fits, FitsSilence
    <3> QED BY <1>4, <2>4, <3>1
  <2> QED BY <1>2, <1>5, <2>1, <2>2, <2>3, <2>5
<1> QED BY <1>1, <1>6, <1>7, <1>8

\* Time that was waited stays so.
LEMMA WaitedStays ==
    ASSUME UNCHANGED script, cur \in Nat, cur' = cur + 1 \/ (cur' = cur /\ (bit # -1 => bit' # -1)), Waited
    PROVE  Waited'
<1>1. PICK k \in 1..Len(script) : script[k].op = "receiveNone" /\ (k < cur \/ (k = cur /\ bit # -1))
  BY DEF Waited
<1>2. k < cur' \/ (k = cur' /\ bit' # -1)
  BY <1>1
<1> QED BY <1>1, <1>2 DEF Waited

\* Everything but a poll in vain: the course goes on or the test fails where it should.
LEMMA PromptTrack ==
    ASSUME NEW course, NEW stop, Tracking(course, stop), ReliableTCP, PromptStep, UNCHANGED forwarded
    PROVE  \/ OnTrack(course, stop)' /\ UNCHANGED script /\ (Waited => Waited')
           \/ Stopped(stop)'
<1>1. Inv' /\ UNCHANGED script
  BY ScriptStepChanges DEF Tracking
<1>3. ~CrashOnNullLink
  BY TrackNoCrash
<1>4. \/ OnTrack(course, stop)' /\ (cur' = cur + 1 \/ (cur' = cur /\ (bit # -1 => bit' # -1)))
      \/ Stopped(stop)'
  <2>1. CASE ExecuteSendStep
    BY <1>1, <2>1, SendTrack
  <2>2. CASE MessageStep
    BY <1>1, <2>2, MessageTrack
  <2>3. CASE LoopReturns
    BY <2>3, LoopTrack
  <2>4. CASE ScriptReturns
    BY <2>4, ReturnTrack
  <2> QED BY <1>3, <2>1, <2>2, <2>3, <2>4 DEF PromptStep
<1>5. cur \in Nat
  BY TrackTypes
<1> QED BY <1>1, <1>4, <1>5, WaitedStays

------------------------------------------------------------------------------
(* The table on the course. *)

\* What held when no time had passed holds when some may have.
LEMMA OwnTableLater ==
    ASSUME NEW f, NEW t, NEW table, NEW asks, Waited => Waited', OwnTable(f, t, table, asks, Waited)
    PROVE  OwnTable(f, t, table, asks, Waited')
<1>1. CASE asks = {}
  BY <1>1 DEF OwnTable
<1>2. CASE asks # {}
  <2>1. PICK e \in table : /\ Own(t, table) = {e} /\ OwnEntry(f, t, e, asks)
                           /\ e.age \in 0..(IF Waited THEN 1000 ELSE 0)
    BY <1>2 DEF OwnTable
  <2>2. e.age \in 0..(IF Waited' THEN 1000 ELSE 0)
    BY <2>1
  <2> QED BY <1>2, <2>1, <2>2 DEF OwnTable
<1> QED BY <1>1, <1>2

LEMMA OwnTableSome ==
    ASSUME NEW f, NEW t, NEW table, NEW asks, asks # {}, NEW e \in table, Own(t, table) = {e},
           OwnEntry(f, t, e, asks), e.age \in 0..(IF Waited' THEN 1000 ELSE 0)
    PROVE  OwnTable(f, t, table, asks, Waited')
BY Zenon DEF OwnTable

\* An Interest outlives one poll in vain if it is kept beyond its lifetime.
LEMMA AgedOwn ==
    ASSUME NEW f, NEW t, NEW asks, TestEntries(pit), NEW later, later = Aged(pit, 1000), Grace > 0, ~Waited, Waited',
           OwnTable(f, t, pit, asks, Waited)
    PROVE  OwnTable(f, t, later, asks, Waited')
<1> DEFINE n == 1000
<1>1. \A y \in later : \E x \in pit : y = [x EXCEPT !.age = @ + n] /\ y \in Entry /\ SameInterest(y, x)
  <2>1. pit \in SUBSET Entry
    BY DEF TestEntries
  <2>2. n \in Nat /\ later = Aged(pit, n)
    OBVIOUS
  <2> HIDE DEF n
  <2> QED BY <2>1, <2>2, AgedEntries
<1>2. CASE asks = {}
  <2>1. Own(t, pit) = {}
    BY <1>2 DEF OwnTable
  <2>2. Own(t, later) = {}
    BY <1>1, <2>1 DEF Own, SameInterest
  <2> QED BY <1>2, <2>2 DEF OwnTable
<1>3. CASE asks # {}
  <2>1. PICK e \in pit : Own(t, pit) = {e} /\ OwnEntry(f, t, e, asks)
                          /\ e.age \in 0..(IF Waited THEN 1000 ELSE 0)
    BY <1>3 DEF OwnTable
  <2> DEFINE y == [e EXCEPT !.age = @ + n]
  <2>2. e \in Entry /\ e.age = 0
    BY <2>1 DEF TestEntries
  <2>3. /\ y.name = e.name /\ y.keyId = e.keyId /\ y.hash = e.hash /\ y.lifetime = e.lifetime
        /\ y.ingress = e.ingress /\ y.egress = e.egress /\ y.age = 1000
    BY <2>2 DEF Entry
  <2>4. y \in later
    <3>1. e.lifetime = 1000
      BY <2>1 DEF OwnEntry, InterestOf
    <3>2. Alive(y)
      <4> HIDE DEF y
      <4> QED BY <2>3, <3>1, ForwarderAssumption DEF Alive
    <3> QED BY <3>2 DEF Aged
  <2>5. Own(t, later) = {y}
    <3>1. ASSUME NEW z \in later, z.name = InterestOf(t).name PROVE z = y
      <4>1. PICK x \in pit : z = [x EXCEPT !.age = @ + n] /\ SameInterest(z, x)
        BY <1>1
      <4>2. x.name = InterestOf(t).name
        BY <3>1, <4>1 DEF SameInterest
      <4>3. x = e
        BY <2>1, <4>2 DEF Own
      <4> QED BY <4>1, <4>3
    <3>2. y.name = InterestOf(t).name
      BY <2>1, <2>3 DEF OwnEntry
    <3> HIDE DEF y
    <3> QED BY <2>4, <3>1, <3>2 DEF Own
  <2>6. OwnEntry(f, t, y, asks)
    <3> HIDE DEF y
    <3> QED BY <2>1, <2>3 DEF OwnEntry
  <2>7. y.age \in 0..1000
    BY <2>3
  <2> HIDE DEF y
  <2>8. y.age \in 0..(IF Waited' THEN 1000 ELSE 0)
    BY <2>7
  <2>9. OwnTable(f, t, later, asks, Waited')
    BY ONLY <1>3, <2>4, <2>5, <2>6, <2>8, OwnTableSome, Zenon
  <2> QED BY <2>9, Zenon
<1> QED BY <1>2, <1>3, Zenon

\* The entries of the table are Interests of the suite.
LEMMA TableEntries == ASSUME E2EInv PROVE TestEntries(pit) /\ pit \in SUBSET Entry
<1>1. \A e \in pit : e \in Entry /\ \E j \in 1..test : SameInterest(e, InterestOf(tests[j]))
  BY DEF E2EInv, Table
<1>2. \A j \in 1..test : tests[j] \in Test
  BY StandingTypes
<1> QED BY <1>1, <1>2 DEF TestEntries

\* A test that was not run yet has no entry in the table.
LEMMA NoneYet ==
    ASSUME E2EInv, test < Len(tests)
    PROVE  tests[test + 1] \in Test /\ Own(tests[test + 1], pit) = {}
<1>1. tests \in Seq(Test) /\ Len(tests) \in Nat /\ test \in Nat /\ test + 1 \in 1..Len(tests) /\ tests \in Lists
  BY StandingTypes
<1>2. tests[test + 1] \in Test
  BY <1>1
<1>3. ASSUME NEW e \in pit, e.name = InterestOf(tests[test + 1]).name PROVE FALSE
  <2>1. PICK j \in 1..test : SameInterest(e, InterestOf(tests[j]))
    BY DEF E2EInv, Table
  <2>2. j \in 1..Len(tests) /\ j # test + 1
    BY <1>1
  <2>3. tests[j] \in Test
    BY <1>1, <2>2
  <2>4. tests[j] = tests[test + 1]
    BY <1>2, <1>3, <2>1, <2>3, NamesDiffer DEF SameInterest
  <2>5. IsInjective(tests)
    BY <1>1, EndToEndAssumption
  <2> QED BY <1>1, <2>2, <2>4, <2>5 DEF IsInjective
<1> QED BY <1>2, <1>3 DEF Own

\* A test begins on its course.
LEMMA CourseBegins ==
    ASSUME ReliableTCP, E2EInv, RigSteps, RunTest, NEW f \in Faults, f = fault,
           NEW t \in Test, t = tests[test + 1], script' = TestScript(t, {}),
           NEW course, NEW stop, Fits(TestScript(t, {}), course, stop)
    PROVE  OnCourse(f, t, course, stop)'
<1>1. /\ fault' = fault /\ pit' = pit /\ test' = test + 1 /\ tests' = tests /\ inbox' = inbox
      /\ sent' = <<>> /\ cur' = 1 /\ bit' = -1 /\ result' = Create
      /\ script' = TestScript(t, {}) /\ taken' = [k \in DOMAIN script' |-> {}] /\ phase = "idle"
      /\ test < Len(tests)
  BY DEF RigSteps, RunTest
<1>2. forwarded' = 0
  <2>1. test' # test
    BY <1>1, StandingTypes
  <2> QED BY <2>1 DEF RigSteps
<1>3. Own(t, pit) = {}
  BY <1>1, NoneYet
<1>6. \A k \in Nat, l \in LinkID : k >= 1 => ~(Over(k, l)')
  BY <1>1, Rigs DEF Over
<1>7. /\ script' \in Seq(Step) /\ Len(script') \in 4..6 /\ stop \in 1..(Len(script') + 1) /\ Len(course) \in 1..3
      /\ \A i \in 1..Len(course) : course[i].step \in 1..Len(script')
  BY <1>1 DEF Fits, FitsTyped
<1>8. result'.passed /\ cur' <= stop
  BY <1>1, <1>7 DEF Create
<1>9. CourseSent(course)'
  <2>1. Len(sent') = 0 /\ cur' = 1
    BY <1>1
  <2>2. \A i \in 1..Len(course) : ~(i <= Len(sent')) /\ ~(course[i].step < cur')
    BY <1>7, <2>1
  <2>3. \A i \in 1..Len(sent') : FALSE
    BY <2>1
  <2>4. Len(sent') <= Len(course)
    BY <1>7, <2>1
  <2> QED BY <2>2, <2>3, <2>4 DEF CourseSent
<1>10. CourseMail(course)'
  <2>1. \A l \in LinkID : inbox'[l] = <<>>
    BY <1>1 DEF E2EInv, Quiet
  <2>2. \A k \in 1..Len(script'), l \in LinkID : ~(Over(k, l)')
    BY <1>6
  <2>3. forwarded' \in 0..Len(sent')
    BY <1>1, <1>2
  <2>4. \A i \in 1..forwarded' : FALSE
    BY <1>2
  <2> QED BY <2>1, <2>2, <2>3, <2>4 DEF CourseMail
<1>11. CourseReadings(course)'
  <2>0. ReadLinks({}) = {}
    BY DEF ReadLinks
  <2>1. ASSUME NEW k \in 1..Len(script')
        PROVE  ReadLinks(taken'[k]) = {l \in LinkID : Over(k, l)' /\ Meant(course, k, l)}
    <3>1. taken'[k] = {}
      BY <1>1, <1>7
    <3>2. \A l \in LinkID : ~(Over(k, l)')
      BY <1>6
    <3> QED BY <2>0, <3>1, <3>2
  <2>2. bit' = -1
    BY <1>1
  <2> QED BY <2>1, <2>2 DEF CourseReadings
<1>12. CoursePit(f, t, course)'
  <2>1. Asks(course, 0) = {}
    BY DEF Asks
  <2>2. OwnTable(f, t, pit', Asks(course, 0), Waited')
    BY <1>1, <1>3, <2>1 DEF OwnTable
  <2> QED BY <1>2, <2>2 DEF CoursePit
<1> QED BY <1>8, <1>9, <1>10, <1>11, <1>12 DEF OnCourse, OnTrack

------------------------------------------------------------------------------
(* The forwarder's step on the course. *)

\* The queues, once packet i left the forwarder.
LEMMA MailForwarded ==
    ASSUME NEW course, NEW stop, Tracking(course, stop), NEW i \in 1..Len(course), i = forwarded + 1,
           i <= Len(sent), NEW q, q = Forwarded(script[course[i].step].packet), NEW links \in SUBSET LinkID,
           \A l \in links : course[i].out[l] # 0,
           \A l \in LinkID : course[i].out[l] \notin {0, Nobody} => l \in links,
           \A l \in LinkID : inbox'[l] = IF l \in links THEN Append(inbox[l], q) ELSE inbox[l],
           forwarded' = i, UNCHANGED <<script, sent, cur, bit>>
    PROVE  CourseMail(course)'
<1>1. /\ forwarded \in Nat /\ Len(sent) \in Nat /\ Len(course) \in 1..3 /\ cur \in Nat /\ Len(script) \in 4..6
      /\ \A j \in 1..Len(course) : course[j].step \in Nat
      /\ \A j \in 1..Len(course), l \in LinkID : course[j].out[l] \in 0..Nobody
      /\ Nobody = 7
  BY TrackTypes
<1>2. i \in Nat /\ 1..forwarded = {j \in 1..Len(course) : j < i} /\ 1..i = {j \in 1..Len(course) : j < i \/ j = i}
  BY <1>1
<1>3. \A k, l : Over(k, l)' <=> Over(k, l)
  BY DEF Over
<1>4. \A j, l : (Due(course, j, l)' <=> Due(course, j, l)) /\ (Gone(course, j, l)' <=> Gone(course, j, l))
  BY <1>3 DEF Due, Gone
<1>5. CourseMail(course)
  BY DEF Tracking, OnTrack
<1>6. course[i].step < cur
  BY DEF Tracking, OnTrack, CourseSent
<1>7. ASSUME NEW j \in 1..Len(course), j < i, NEW l \in LinkID, course[i].out[l] # 0, course[j].out[l] # 0
      PROVE  course[j].out[l] \in 1..Len(script) /\ Over(course[j].out[l], l)
  <2>1. course[j].out[l] < course[i].step
    BY <1>7 DEF Tracking, Fits, FitsApart
  <2>2. course[j].out[l] \in 0..Nobody /\ course[i].step \in Nat /\ course[i].step \in 1..Len(script)
    BY <1>1, <1>7, TrackTypes
  <2> DEFINE o == course[j].out[l]
             s == course[i].step
  <2>3. o < s /\ s < cur /\ o \in 0..7 /\ o # 0 /\ s \in 1..Len(script) /\ Len(script) \in 4..6 /\ cur \in Nat
    BY <1>1, <1>6, <1>7, <2>1, <2>2
  <2> HIDE DEF o, s
  <2>4. o < cur /\ o \in 1..Len(script)
    BY <2>3
  <2> QED BY <2>4 DEF Over, o
<1>8. ASSUME NEW j \in 1..i, NEW l \in LinkID, Due(course, j, l)
      PROVE  inbox'[l] = <<Forwarded(script[course[j].step].packet)>>
  <2>1. course[j].out[l] \in 1..Len(script) /\ ~Over(course[j].out[l], l) /\ j \in 1..Len(course)
    BY <1>2, <1>8 DEF Due
  <2>2. CASE j = i
    <3>1. course[i].out[l] # 0 /\ course[i].out[l] # Nobody
      <4>0. Len(script) \in 4..6
        BY <1>1
      <4>1. \A n \in 4..6 : \A o \in 1..n : o # 0 /\ o # 7
        OBVIOUS
      <4> QED BY <1>1, <2>1, <2>2, <4>0, <4>1
    <3>2. \A n \in 1..forwarded : Gone(course, n, l)
      BY <1>2, <1>7, <3>1 DEF Gone
    <3>3. inbox[l] = <<>>
      BY <1>5, <3>2 DEF CourseMail
    <3>4. inbox'[l] = Append(<<>>, q)
      BY <3>1, <3>3
    <3> QED BY <2>2, <3>4
  <2>3. CASE j # i
    <3>1. j \in 1..forwarded /\ j < i
      BY <1>2, <2>3
    <3>2. inbox[l] = <<Forwarded(script[course[j].step].packet)>>
      BY <1>5, <1>8, <3>1 DEF CourseMail
    <3>3. course[j].out[l] # 0
      BY <2>1, <1>1
    <3>4. course[i].out[l] = 0
      BY <1>7, <2>1, <3>1, <3>3
    <3> QED BY <3>2, <3>4
  <2> QED BY <2>2, <2>3
<1>9. ASSUME NEW l \in LinkID, \A j \in 1..i : Gone(course, j, l) PROVE inbox'[l] = <<>>
  <2>1. inbox[l] = <<>>
    BY <1>2, <1>5, <1>9 DEF CourseMail
  <2>2. Gone(course, i, l)
    BY <1>2, <1>9
  <2>3. ~(i <= forwarded)
    BY <1>1
  <2>4. ~(course[i].out[l] \in 1..Len(script) /\ Over(course[i].out[l], l))
    BY <1>5, <2>3 DEF CourseMail
  <2>5. course[i].out[l] = 0
    BY <2>2, <2>4 DEF Gone
  <2> QED BY <2>1, <2>5
<1>10. ASSUME NEW j \in 1..Len(course), NEW l \in LinkID,
              course[j].out[l] \in 1..Len(script), Over(course[j].out[l], l)
       PROVE  j <= i
  <2>1. j <= forwarded
    BY <1>5, <1>10 DEF CourseMail
  <2> QED BY <1>1, <2>1
<1>11. script' = script /\ sent' = sent /\ forwarded' = i /\ i \in 0..Len(sent)
  BY <1>1
<1>12. \A j \in 1..forwarded', l \in LinkID :
          Due(course, j, l)' => inbox'[l] = <<Forwarded(script'[course[j].step].packet)>>
  BY <1>4, <1>8, <1>11
<1>13. \A l \in LinkID : (\A j \in 1..forwarded' : Gone(course, j, l)') => inbox'[l] = <<>>
  BY <1>4, <1>9, <1>11
<1>14. \A j \in 1..Len(course), l \in LinkID :
          course[j].out[l] \in 1..Len(script') /\ Over(course[j].out[l], l)' => j <= forwarded'
  BY <1>3, <1>10, <1>11
<1> QED BY <1>11, <1>12, <1>13, <1>14 DEF CourseMail

\* What the forwarder does with the packet it is at is what the course says.
LEMMA CourseHandled ==
    ASSUME ReliableTCP, NEW f \in Faults, NEW t \in Test, Runs(f, t), NEW course, course = Course(f, t), NEW stop,
           Tracking(course, stop), CoursePit(f, t, course), Forwards, NEW i, i = forwarded + 1
    PROVE  /\ i \in 1..Len(course) /\ i <= Len(sent)
           /\ Serves(f, t, course[i], script[course[i].step].packet, pit, Waited, i = Len(course))
           /\ HandledNext = Handled(f, t, course[i].link, script[course[i].step].packet, pit)
           /\ script[course[i].step].packet \in {InterestOf(t), AnswerOf(t)}
<1>1. E2EInv /\ fault = f /\ tests[test] = t /\ Tracked(f, t) /\ script = TestScript(t, {})
  BY DEF Tracking, Runs
<1>2. /\ i \in 1..Len(sent) /\ Len(sent) <= Len(course) /\ Len(course) \in 1..3 /\ Len(sent) \in Nat
      /\ forwarded \in Nat
  BY <1>1, ForwardsNext, TrackTypes
<1>3. i \in 1..Len(course) /\ i <= Len(sent) /\ forwarded = i - 1 /\ forwarded < Len(course)
  BY <1>2
<1>4. Next1 = [step |-> course[i].step, link |-> course[i].link, packet |-> script[course[i].step].packet]
  BY <1>2 DEF Next1, Tracking, OnTrack, CourseSent
<1>5. HandledNext = Handled(f, t, course[i].link, script[course[i].step].packet, pit)
  BY <1>1, <1>4 DEF HandledNext
<1>6. OwnTable(f, t, pit, Asks(course, i - 1), Waited)
  BY <1>3, Zenon DEF CoursePit
<1>7. TestEntries(pit)
  BY <1>1, TableEntries
<1>8. Served(f, t, i, pit, Waited)
  BY <1>1, <1>3, <1>6, <1>7, CoursesServed, Zenon
<1>9. Serves(f, t, course[i], script[course[i].step].packet, pit, Waited, i = Len(course))
  BY <1>1, <1>8, Zenon DEF Served
<1>10. script[course[i].step].packet \in {InterestOf(t), AnswerOf(t)}
  BY <1>1, <1>4, ForwardsNext
<1> QED BY <1>3, <1>5, <1>9, <1>10, Zenon

\* The forwarder keeps to the course.
LEMMA CourseForwards ==
    ASSUME ReliableTCP, NEW f \in Faults, NEW t \in Test, Runs(f, t), NEW course, course = Course(f, t), NEW stop,
           Tracking(course, stop), CoursePit(f, t, course), Forwards
    PROVE  OnCourse(f, t, course, stop)'
<1> DEFINE i == forwarded + 1
           p == script[course[i].step].packet
<1>1. /\ i \in 1..Len(course) /\ i <= Len(sent)
      /\ Serves(f, t, course[i], p, pit, Waited, i = Len(course))
      /\ HandledNext = Handled(f, t, course[i].link, p, pit)
      /\ p \in {InterestOf(t), AnswerOf(t)}
  <2>1. i = forwarded + 1
    OBVIOUS
  <2> HIDE DEF i
  <2>2. /\ i \in 1..Len(course) /\ i <= Len(sent)
        /\ Serves(f, t, course[i], script[course[i].step].packet, pit, Waited, i = Len(course))
        /\ HandledNext = Handled(f, t, course[i].link, script[course[i].step].packet, pit)
        /\ script[course[i].step].packet \in {InterestOf(t), AnswerOf(t)}
    BY <2>1, CourseHandled
  <2> QED BY <2>2, Zenon DEF p
<1>2. /\ forwarded' = i /\ pit' = HandledNext.pit /\ E2EInv
      /\ UNCHANGED <<script, sent, cur, bit, taken, result>>
  BY ForwardsNext DEF Tracking, scriptVars, loopVars, historyVars
<1>3. Forwarded(p) \in Arrival
  <2>1. Sane(f)
    BY DEF Runs, Tracked, Sane
  <2>2. pit \in SUBSET Entry /\ course[i].link \in LinkID
    BY <1>1, <1>2, TableEntries, TrackTypes
  <2>3. Passed(f, p) \in Arrival
    BY <1>1, <2>2, PacketsHandled
  <2> QED BY <2>1, <2>3, HopLost DEF Passed, Forwarded
<1>4. PICK links \in SUBSET LinkID :
              /\ Handled(f, t, course[i].link, p, pit).emits = {<<m, Forwarded(p)>> : m \in links}
              /\ \A l \in links : course[i].out[l] # 0
              /\ \A l \in LinkID : course[i].out[l] \notin {0, Nobody} => l \in links
  BY <1>1, Zenon DEF Serves
<1>5. \A l \in LinkID : inbox'[l] = IF l \in links THEN Append(inbox[l], Forwarded(p)) ELSE inbox[l]
  <2>1. EmitsOn(HandledNext, links, Forwarded(p))
    BY <1>1, <1>4, Zenon DEF EmitsOn
  <2>2. inbox' = [l \in LinkID |-> IF l \in links THEN Append(inbox[l], Forwarded(p)) ELSE inbox[l]]
    BY <1>2, <1>3, <2>1, ForwardsOn, Zenon
  <2> QED BY <2>2, Zenon
<1>6. CourseMail(course)'
  <2> HIDE DEF p
  <2>1. Forwarded(p) = Forwarded(script[course[i].step].packet)
    BY DEF p
  <2> QED BY <1>1, <1>2, <1>4, <1>5, <2>1, MailForwarded
<1>7. CourseSent(course)' /\ CourseReadings(course)' /\ result'.passed /\ cur' <= stop
  BY <1>2 DEF Tracking, OnTrack, CourseSent, CourseReadings, Over
<1>8. CoursePit(f, t, course)'
  <2>1. Waited' <=> Waited
    BY <1>2 DEF Waited
  <2>2. i = Len(course) \/ OwnTable(f, t, Handled(f, t, course[i].link, p, pit).pit, course[i].asks, Waited)
    BY <1>1, Zenon DEF Serves
  <2>3. i # 0 /\ (i < Len(course) => i # Len(course))
    <3>1. i \in 1..Len(course) /\ Len(course) \in 1..3
      BY <1>1, TrackTypes
    <3> HIDE DEF i
    <3> QED BY <3>1
  <2>4. i < Len(course) => OwnTable(f, t, pit', Asks(course, i), Waited)
    BY <1>1, <1>2, <2>2, <2>3, Zenon DEF Asks
  <2>5. i < Len(course) => OwnTable(f, t, pit', Asks(course, i), Waited')
    BY <2>1, <2>4, OwnTableLater, Zenon
  <2> QED BY <1>2, <2>5, Zenon DEF CoursePit
<1> QED BY <1>6, <1>7, <1>8 DEF OnCourse, OnTrack

------------------------------------------------------------------------------
(* A tracked test stays on its course, or has failed where it should. *)

\* What runs is the script of the test.
LEMMA RunsScript ==
    ASSUME NEW f, NEW t, Runs(f, t)
    PROVE  script = TestScript(t, {}) /\ phase = "running" /\ fault = f
BY DEF Runs

\* A script that returned does nothing more.
LEMMA ReturnedRests == ASSUME pc = "returned" PROVE ~PromptStep /\ ~TimeoutStep
BY Zenon DEF PromptStep, TimeoutStep, ExecuteSendStep, MessageStep, LoopReturns, CrashOnNullLink, ScriptReturns,
       ReceiveAllMessage, ReceiveOneMessage, ReceiveNoneMessage, CrashOnNullPacket, ReceiveAllReturns,
       ReceiveOneReturns, ReceiveNoneReturns, ReceiveAllTimeout, ReceiveOneTimeout, ReceiveNoneTimeout, Executing

\* A step of the script that does not wait.
LEMMA CoursePrompt ==
    ASSUME ReliableTCP, NEW f \in Faults, NEW t \in Test, NEW course, NEW stop, Tracking(course, stop),
           CoursePit(f, t, course), PromptStep, UNCHANGED <<forwarded, pit>>
    PROVE  OnCourse(f, t, course, stop)' \/ Stopped(stop)'
<1>1. forwarded' = forwarded /\ pit' = pit
  OBVIOUS
<1>2. \/ OnTrack(course, stop)' /\ UNCHANGED script /\ (Waited => Waited')
      \/ Stopped(stop)'
  BY PromptTrack
<1>3. ASSUME OnTrack(course, stop)', Waited => Waited' PROVE OnCourse(f, t, course, stop)'
  <2>1. forwarded < Len(course) => OwnTable(f, t, pit, Asks(course, forwarded), Waited)
    BY DEF CoursePit
  <2>2. ASSUME forwarded < Len(course) PROVE OwnTable(f, t, pit, Asks(course, forwarded), Waited')
    <3>1. OwnTable(f, t, pit, Asks(course, forwarded), Waited)
      BY <2>1, <2>2
    <3>2. Waited => Waited'
      BY <1>3
    <3> QED BY ONLY <3>1, <3>2, OwnTableLater, Zenon
  <2>3. CoursePit(f, t, course)'
    BY <1>1, <2>2, Zenon DEF CoursePit
  <2> QED BY <1>3, <2>3 DEF OnCourse
<1> QED BY <1>2, <1>3

\* A poll in vain: the forwarder holds the Interest long enough, or has nothing more to answer.
LEMMA CourseWaits ==
    ASSUME ReliableTCP, NEW f \in Faults, NEW t \in Test, NEW course, NEW stop, Tracking(course, stop),
           CoursePit(f, t, course), ScriptPollTimesOut, Grace > 0 \/ SilenceLast(script, course)
    PROVE  OnCourse(f, t, course, stop)' \/ Stopped(stop)'
<1>1. TimeoutStep /\ Idle /\ forwarded' = forwarded /\ pit' = Aged(pit, 1000)
  BY DEF ScriptPollTimesOut
<1>2. \/ /\ OnTrack(course, stop)' /\ cur' = cur /\ bit' # -1 /\ UNCHANGED script
         /\ forwarded' = Len(course) \/ (~Waited /\ Waited')
      \/ Stopped(stop)'
  BY <1>1, TimeoutTrack
<1>3. ASSUME OnTrack(course, stop)', forwarded' = Len(course) PROVE OnCourse(f, t, course, stop)'
  <2>1. ~(forwarded' < Len(course))
    BY <1>3, TrackTypes
  <2> QED BY <1>3, <2>1 DEF OnCourse, CoursePit
<1>4. ASSUME OnTrack(course, stop)', cur' = cur, UNCHANGED script, ~Waited, Waited'
      PROVE  OnCourse(f, t, course, stop)'
  <2>1. forwarded < Len(course) => OwnTable(f, t, pit, Asks(course, forwarded), Waited)
    BY DEF CoursePit
  <2>2. TestEntries(pit)
    BY TableEntries DEF Tracking
  <2>3. ASSUME forwarded < Len(course) PROVE OwnTable(f, t, pit', Asks(course, forwarded), Waited')
    <3>1. OwnTable(f, t, pit, Asks(course, forwarded), Waited)
      BY <2>1, <2>3
    <3>2. ~Waited /\ Waited'
      BY <1>4
    <3>3. pit' = Aged(pit, 1000)
      BY <1>1
    <3>4. Grace > 0
      <4> SUFFICES ASSUME SilenceLast(script, course) PROVE FALSE
        OBVIOUS
      <4>1. /\ cur \in Nat /\ Len(script) \in Nat /\ Len(course) \in Nat /\ Len(sent) \in Nat
            /\ \A i \in 1..Len(course) : course[i].step \in Nat
        BY TrackTypes
      <4>2. PICK k \in 1..Len(script) : script[k].op = "receiveNone" /\ k <= cur
        BY <1>4, <4>1 DEF Waited
      <4>3. \A i \in 1..Len(course) : course[i].step < cur
        BY <4>1, <4>2 DEF SilenceLast
      <4>4. \A i \in 1..Len(course) : i <= Len(sent)
        BY <4>3 DEF Tracking, OnTrack, CourseSent
      <4>5. Len(course) <= Len(sent)
        BY <4>1, <4>4
      <4> QED BY <1>1, <2>3, <4>1, <4>5 DEF Idle
    <3> QED BY ONLY <2>2, <3>1, <3>2, <3>3, <3>4, AgedOwn, Zenon
  <2>4. CoursePit(f, t, course)'
    BY <1>1, <2>3, Zenon DEF CoursePit
  <2> QED BY <1>4, <2>4 DEF OnCourse
<1> QED BY <1>2, <1>3, <1>4

LEMMA CourseInvNext ==
    ASSUME ReliableTCP, E2EInv, CourseInv, [E2ENext]_e2eVars
    PROVE  CourseInv'
<1> SUFFICES ASSUME NEW f \in Faults, NEW t \in Test, Runs(f, t)'
             PROVE  OnCourse(f, t, Course(f, t), Stop(f, t))' \/ Stopped(Stop(f, t))'
  BY DEF CourseInv
<1>1. PICK course : course = Course(f, t)
  OBVIOUS
<1>2. PICK stop : stop = Stop(f, t)
  OBVIOUS
<1>3. /\ phase' = "running" /\ fault' = f /\ tests'[test'] = t /\ script' = TestScript(t, {})
      /\ Tracked(f, t) /\ Patient(f, t)
  BY DEF Runs
<1>4. Fits(TestScript(t, {}), course, stop)
  BY <1>1, <1>2, <1>3, CoursesFit DEF FitsInv
<1> SUFFICES OnCourse(f, t, course, stop)' \/ Stopped(stop)'
  BY <1>1, <1>2
<1>5. ASSUME UNCHANGED suiteVars, UNCHANGED fault, UNCHANGED script
      PROVE  /\ Runs(f, t) /\ test' = test
             /\ (Tracking(course, stop) /\ CoursePit(f, t, course)) \/ Stopped(stop)
  <2>1. Runs(f, t) /\ test' = test
    BY <1>3, <1>5 DEF Runs, suiteVars
  <2>2. OnCourse(f, t, course, stop) \/ Stopped(stop)
    BY <1>1, <1>2, <2>1 DEF CourseInv
  <2>3. script = TestScript(t, {}) /\ phase = "running"
    BY <2>1, RunsScript
  <2> QED BY <1>4, <2>1, <2>2, <2>3 DEF OnCourse, Tracking
<1>6. ASSUME UNCHANGED scriptVars, Stopped(stop) PROVE Stopped(stop)'
  BY <1>6 DEF scriptVars, Stopped
<1>7. CASE RigSteps /\ RunTest
  <2>1. f = fault /\ t = tests[test + 1]
    BY <1>3, <1>7 DEF RigSteps, RunTest
  <2> QED BY <1>3, <1>4, <1>7, <2>1, CourseBegins
<1>8. CASE RigSteps /\ ReportResult
  BY <1>3, <1>8 DEF ReportResult
<1>9. CASE RigSteps /\ phase = "running" /\ PromptStep /\ UNCHANGED suiteVars
  <2>1. fault' = fault /\ pit' = pit /\ UNCHANGED script
    BY <1>9, ScriptStepChanges DEF RigSteps
  <2>2. /\ test' = test
        /\ (Tracking(course, stop) /\ CoursePit(f, t, course)) \/ Stopped(stop)
    BY <1>5, <1>9, <2>1
  <2>3. forwarded' = forwarded
    BY <1>9, <2>2 DEF RigSteps
  <2>4. pc # "returned"
    BY <1>9, ReturnedRests
  <2> QED BY <1>9, <2>1, <2>2, <2>3, <2>4, CoursePrompt DEF Stopped
<1>10. CASE \E p \in Arrival : RigSteps /\ FlushReads(p)
  BY <1>3, <1>10 DEF FlushReads
<1>11. CASE ScriptPollTimesOut
  <2>1. fault' = fault /\ UNCHANGED suiteVars /\ TimeoutStep /\ UNCHANGED script
    BY <1>11, ScriptStepChanges DEF ScriptPollTimesOut
  <2>2. /\ Runs(f, t)
        /\ (Tracking(course, stop) /\ CoursePit(f, t, course)) \/ Stopped(stop)
    BY <1>5, <2>1
  <2>3. pc # "returned"
    BY <2>1, ReturnedRests
  <2>4. Grace > 0 \/ SilenceLast(script, course)
    <3>1. CASE f = "none" /\ t \notin {"ContentObjectTest_4", "ContentObjectTest_5"}
      <4>1. course = CorrectCourse(t) /\ script = TestScript(t, {})
        BY <1>1, <2>2, <3>1, RunsScript DEF Course
      <4> QED BY <3>1, <4>1, LastSilence
    <3> QED BY <1>3, <3>1 DEF Patient
  <2> QED BY <1>11, <2>2, <2>3, <2>4, CourseWaits DEF Stopped
<1>12. CASE FlushPollTimesOut
  BY <1>3, <1>12 DEF FlushPollTimesOut, FlushTimeout, FlushMovesOn
<1>13. CASE Forwards
  <2>1. UNCHANGED suiteVars /\ UNCHANGED fault /\ UNCHANGED scriptVars /\ UNCHANGED script
    BY <1>13 DEF Forwards, scriptVars
  <2>2. /\ Runs(f, t)
        /\ (Tracking(course, stop) /\ CoursePit(f, t, course)) \/ Stopped(stop)
    BY <1>5, <2>1
  <2> QED BY <1>1, <1>6, <1>13, <2>1, <2>2, CourseForwards
<1>14. CASE UNCHANGED e2eVars
  <2>1. /\ UNCHANGED suiteVars /\ UNCHANGED <<fault, pit, forwarded>> /\ UNCHANGED scriptVars
        /\ UNCHANGED <<script, cur, bit, sent, taken, result, inbox>>
    BY <1>14 DEF e2eVars, allVars, vars, forwarderVars, scriptVars, loopVars, historyVars
  <2>2. (Tracking(course, stop) /\ CoursePit(f, t, course)) \/ Stopped(stop)
    BY <1>5, <2>1
  <2>3. CASE Stopped(stop)
    BY <1>6, <2>1, <2>3
  <2>4. CASE Tracking(course, stop) /\ CoursePit(f, t, course)
    <3>1. CourseSent(course)' /\ CourseReadings(course)' /\ result'.passed /\ cur' <= stop
      BY <2>1, <2>4 DEF Tracking, OnTrack, CourseSent, CourseReadings, Over
    <3>2. CourseMail(course)'
      BY <2>1, <2>4 DEF Tracking, OnTrack, CourseMail, Due, Gone, Over
    <3>3. CoursePit(f, t, course)'
      <4>1. Waited' <=> Waited
        BY <2>1 DEF Waited
      <4>2. forwarded < Len(course) => OwnTable(f, t, pit, Asks(course, forwarded), Waited')
        BY <2>4, <4>1, OwnTableLater, Zenon DEF CoursePit
      <4> QED BY <2>1, <4>2, Zenon DEF CoursePit
    <3> QED BY <3>1, <3>2, <3>3 DEF OnCourse, OnTrack
  <2> QED BY <2>2, <2>3, <2>4
<1> QED BY <1>7, <1>8, <1>9, <1>10, <1>11, <1>12, <1>13, <1>14, E2ESteps

\* A tracked test is on its course at every time.
THEOREM TestsKeepToCourse == ASSUME ReliableTCP PROVE E2ESpec => []CourseInv
<1>1. E2EInit => CourseInv
  BY DEF E2EInit, SuiteInit, CourseInv, Runs
<1>2. E2EInv /\ CourseInv /\ [E2ENext]_e2eVars => CourseInv'
  BY CourseInvNext
<1> QED BY <1>1, <1>2, E2EInvariant, PTL DEF E2ESpec

------------------------------------------------------------------------------
(* A forwarder that counts no hop, or leaves none: no Interest arrives one hop shorter. *)

\* What is read off a link was queued there, and so was what is left.
LEMMA ReadOff ==
    ASSUME E2EInv, MailOff, NEW l \in LinkID, NEW p, Receives(l, p)
    PROVE  MailOff' /\ Off(p)
<1>1. inbox \in [LinkID -> Seq(Arrival)] /\ TakenAtOnce \in Nat \ {0}
  BY StandingTypes, ChannelAssumption DEF TakenAtOnce
<1>2. inbox[l] \in Seq(Arrival) /\ inbox[l] # <<>> /\ Len(inbox[l]) \in Nat \ {0}
  BY <1>1 DEF Receives
<1>3. p = inbox[l][1] /\ 1 \in 1..Len(inbox[l])
  BY <1>2 DEF Receives
<1>4. Off(p)
  BY <1>3 DEF MailOff
<1> DEFINE from == TakenAtOnce + 1
           rest == SubSeq(inbox[l], from, Len(inbox[l]))
<1>5. \A m \in LinkID : inbox'[m] = IF m = l THEN rest ELSE inbox[m]
  BY <1>1 DEF Receives
<1>6. ASSUME NEW n \in 1..Len(rest) PROVE Off(rest[n])
  <2>1. from \in Nat \ {0} /\ from + n - 1 \in 1..Len(inbox[l]) /\ rest[n] = inbox[l][from + n - 1]
    <3>1. from \in Nat \ {0}
      BY <1>1
    <3> HIDE DEF from
    <3> QED BY <1>2, <1>6, <3>1
  <2> HIDE DEF rest
  <2> QED BY <2>1 DEF MailOff
<1> HIDE DEF rest
<1> QED BY <1>4, <1>5, <1>6 DEF MailOff

\* A script's own step takes packets from the links and has none of its own.
LEMMA StepOff ==
    ASSUME E2EInv, MailOff, TakenOff, PromptStep \/ TimeoutStep
    PROVE  MailOff' /\ TakenOff'
<1>1. CASE MessageStep
  <2>1. PICK l \in LinkID, p \in Arrival : Reads(l, p)
    BY <1>1 DEF MessageStep, ReceiveAllMessage, ReceiveOneMessage, ReceiveNoneMessage, CrashOnNullPacket
  <2>2. MailOff' /\ Off(p)
    BY <2>1, ReadOff DEF Reads
  <2>3. taken \in Seq(SUBSET (LinkID \X Arrival)) /\ taken' = [taken EXCEPT ![cur] = @ \cup {<<l, p>>}]
    BY <2>1, StandingTypes DEF Reads
  <2>4. DOMAIN taken = 1..Len(taken) /\ Len(taken') = Len(taken)
    BY <2>3
  <2>5. ASSUME NEW k \in 1..Len(taken'), NEW r \in taken'[k] PROVE Off(r[2])
    <3>1. r \in taken[k] \/ r = <<l, p>>
      BY <2>3, <2>4, <2>5
    <3> QED BY <2>2, <2>4, <3>1 DEF TakenOff
  <2> QED BY <2>2, <2>5 DEF TakenOff
<1>2. CASE ExecuteSendStep \/ LoopReturns \/ CrashOnNullLink \/ ScriptReturns
  <2>1. UNCHANGED <<taken, inbox>>
    BY <1>2, Zenon DEF ExecuteSendStep, LoopReturns, ReceiveAllReturns, ReceiveOneReturns,
                ReceiveNoneReturns, CrashOnNullLink, ScriptReturns, historyVars
  <2> QED BY <2>1 DEF MailOff, TakenOff
<1>3. CASE TimeoutStep
  <2>1. UNCHANGED <<taken, inbox>>
    BY <1>3 DEF TimeoutStep, ReceiveAllTimeout, ReceiveOneTimeout, ReceiveNoneTimeout, ReadsNothing,
                ReceivesNothing, historyVars
  <2> QED BY <2>1 DEF MailOff, TakenOff
<1> QED BY <1>1, <1>2, <1>3 DEF PromptStep

\* The forwarder's step adds none either.
LEMMA ForwardsOff ==
    ASSUME ReliableTCP, E2EInv, fault \in HopFaults, MailOff, Forwards
    PROVE  MailOff'
<1> DEFINE p == Next1.packet
           q == Passed(fault, p)
<1>1. /\ tests[test] \in Test /\ Next1.link \in LinkID /\ p \in {InterestOf(tests[test]), AnswerOf(tests[test])}
      /\ pit \in SUBSET Entry /\ fault \in Faults
  BY ForwardsNext, StandingTypes, TableEntries
<1>2. EmitsSome(HandledNext, q) /\ q \in Arrival
  BY <1>1, PacketsHandled DEF HandledNext
<1>3. PICK links \in SUBSET LinkID : EmitsOn(HandledNext, links, q)
  BY <1>2 DEF EmitsSome
<1>4. inbox' = [l \in LinkID |-> IF l \in links THEN Append(inbox[l], q) ELSE inbox[l]]
  BY <1>2, <1>3, ForwardsOn
<1>5. Off(q)
  <2>1. CASE p = InterestOf(tests[test])
    <3>1. p.type = "interest" /\ p.hopLimit = 255
      BY <2>1 DEF InterestOf
    <3>2. [p EXCEPT !.hopLimit = 0].hopLimit = 0
      BY <2>1 DEF InterestOf
    <3>3. q = IF fault = "hopLimitKept" THEN p ELSE [p EXCEPT !.hopLimit = 0]
      BY <3>1 DEF Passed, NextHop, HopFaults
    <3> HIDE DEF p, q
    <3> QED BY <3>1, <3>2, <3>3 DEF Off
  <2>2. CASE p = AnswerOf(tests[test])
    <3>1. p.type # "interest"
      BY <2>2 DEF AnswerOf
    <3> QED BY <3>1 DEF Passed, Off
  <2> QED BY <1>1, <2>1, <2>2
<1> HIDE DEF q
<1>6. ASSUME NEW l \in LinkID, NEW n \in 1..Len(inbox'[l]) PROVE Off(inbox'[l][n])
  <2>1. inbox[l] \in Seq(Arrival) /\ inbox'[l] = IF l \in links THEN Append(inbox[l], q) ELSE inbox[l]
    BY <1>4, StandingTypes
  <2>2. inbox'[l][n] = q \/ (n \in 1..Len(inbox[l]) /\ inbox'[l][n] = inbox[l][n])
    BY <2>1
  <2> QED BY <1>5, <2>2 DEF MailOff
<1> QED BY <1>6 DEF MailOff

LEMMA HopInvNext ==
    ASSUME ReliableTCP, E2EInv, HopInv, [E2ENext]_e2eVars
    PROVE  HopInv'
<1> SUFFICES ASSUME fault' \in HopFaults PROVE MailOff' /\ TakenOff'
  BY DEF HopInv
<1>1. fault' = fault => MailOff /\ TakenOff
  BY DEF HopInv
<1>2. CASE RigSteps /\ RunTest
  <2>1. fault' = fault /\ inbox' = inbox /\ taken' = [k \in DOMAIN script' |-> {}]
    BY <1>2 DEF RigSteps, RunTest
  <2>2. MailOff'
    BY <1>1, <2>1 DEF MailOff
  <2>3. E2EInv'
    BY <1>2, RunTestStanding
  <2>4. DOMAIN script' = 1..Len(script') /\ Len(taken') = Len(script')
    <3>1. script' \in Seq(Step) /\ taken' \in Seq(SUBSET (LinkID \X Arrival)) /\ Len(taken') = Len(script')
      BY <2>3 DEF E2EInv, Inv, TypeInv, TypeOK
    <3> QED BY <3>1
  <2>5. \A k \in 1..Len(taken') : taken'[k] = {}
    BY <2>1, <2>4
  <2> QED BY <2>2, <2>5 DEF TakenOff
<1>3. CASE RigSteps /\ ReportResult
  <2>1. fault' = fault /\ UNCHANGED <<taken, inbox>>
    BY <1>3 DEF RigSteps, ReportResult, vars, historyVars
  <2> QED BY <1>1, <2>1 DEF MailOff, TakenOff
<1>4. CASE RigSteps /\ phase = "running" /\ PromptStep /\ UNCHANGED suiteVars
  BY <1>1, <1>4, StepOff DEF RigSteps
<1>5. CASE \E p \in Arrival : RigSteps /\ FlushReads(p)
  <2>1. PICK p \in Arrival : RigSteps /\ FlushReads(p)
    BY <1>5
  <2>2. fault' = fault /\ UNCHANGED taken /\ Receives(flushing, p) /\ flushing \in LinkID
    BY <2>1 DEF RigSteps, FlushReads, scriptVars, historyVars, E2EInv, Standing
  <2>3. MailOff'
    BY <1>1, <2>2, ReadOff
  <2> QED BY <1>1, <2>2, <2>3 DEF TakenOff
<1>6. CASE ScriptPollTimesOut
  BY <1>1, <1>6, StepOff DEF ScriptPollTimesOut
<1>7. CASE FlushPollTimesOut
  <2>1. fault' = fault /\ UNCHANGED <<taken, inbox>>
    BY <1>7 DEF FlushPollTimesOut, FlushTimeout, ReceivesNothing, scriptVars, historyVars
  <2> QED BY <1>1, <2>1 DEF MailOff, TakenOff
<1>8. CASE Forwards
  <2>1. fault' = fault /\ UNCHANGED taken
    BY <1>8 DEF Forwards, scriptVars, historyVars
  <2>2. MailOff'
    BY <1>1, <1>8, <2>1, ForwardsOff
  <2> QED BY <1>1, <2>1, <2>2 DEF TakenOff
<1>9. CASE UNCHANGED e2eVars
  <2>1. fault' = fault /\ UNCHANGED <<taken, inbox>>
    BY <1>9 DEF e2eVars, allVars, vars, forwarderVars, historyVars
  <2> QED BY <1>1, <2>1 DEF MailOff, TakenOff
<1> QED BY <1>2, <1>3, <1>4, <1>5, <1>6, <1>7, <1>8, <1>9, E2ESteps

------------------------------------------------------------------------------
(* What is reported. *)

LEMMA CatchersAreTests == ASSUME NEW f \in RouteFaults PROVE Catcher(f) \in Test
<1>1. Catcher(f) \in {"ContentObjectTest_4", "ContentObjectTest_6", "ContentObjectErrors_3", "ContentObjectErrors_1",
                      "ContentObjectRestrictionErrors_1", "ContentObjectRestrictionErrors_2",
                      "ContentObjectRestrictionErrors_4", "ContentObjectRestrictions_4",
                      "ContentObjectTest_5", "ContentObjectTest_2"}
  BY DEF RouteFaults, Catcher
<1> QED BY <1>1, Groups

\* A course that shows a fault ends in front of the end of the script.
LEMMA CaughtEarly ==
    ASSUME NEW f \in RouteFaults, NEW t \in Test, t = Catcher(f)
    PROVE  Stop(f, t) <= Len(TestScript(t, {})) /\ f # "none" /\ Tracked(f, t)
<1>1. f # "none" /\ Tracked(f, t)
  BY DEF Tracked, RouteFaults
<1>2. Stop(f, t) \in 1..(Len(TestScript(t, {})) + 1) /\ Len(TestScript(t, {})) \in 4..6
  BY <1>1, CoursesFit DEF FitsInv, Fits, FitsTyped, Faults, RouteFaults
<1>3. CASE f = "entryKept"
  <2>1. t = "ContentObjectErrors_3" /\ Stop(f, t) = 6
    BY <1>3 DEF Catcher, Stop
  <2>2. Len(TestScript(t, {})) = 6
    <3> DEFINE plan == TestScript(t, {})
    <3>1. Len(plan) = 6
      BY <2>1, PlanOfAgain
    <3> QED BY <3>1
  <2>3. \A n, m : n = 6 /\ m = 6 => n <= m
    OBVIOUS
  <2> QED BY <1>1, <2>1, <2>2, <2>3, Zenon
<1>4. CASE f = "firstAskerOnly"
  <2>1. t = "ContentObjectTest_5" /\ Stop(f, t) = 6
    BY <1>4 DEF Catcher, Stop
  <2>2. Len(TestScript(t, {})) = 6
    <3> DEFINE plan == TestScript(t, {})
    <3>1. Len(plan) = 6
      BY <2>1, PlanOfFive
    <3> QED BY <3>1
  <2>3. \A n, m : n = 6 /\ m = 6 => n <= m
    OBVIOUS
  <2> QED BY <1>1, <2>1, <2>2, <2>3, Zenon
<1>5. CASE f \notin {"entryKept", "firstAskerOnly"}
  <2>1. f = "firstRouteOnly" => Stop(f, t) = 2
    BY DEF Stop
  <2>2. f = "returnedToSender" => Stop(f, t) = 3
    BY DEF Stop
  <2>3. f \notin {"firstRouteOnly", "returnedToSender"} => Stop(f, t) = 4
    BY <1>1, <1>5 DEF Stop
  <2>4. Stop(f, t) \in 2..4
    BY <2>1, <2>2, <2>3
  <2> QED BY <1>1, <1>2, <2>4
<1> QED BY <1>3, <1>4, <1>5

\* The verdict on the test that returned.
LEMMA VerdictReached ==
    ASSUME ReliableTCP, E2EInv, CourseInv, HopInv, phase = "running", pc = "returned"
    PROVE  /\ fault = "none" /\ AsListed /\ ~AnsweredTooLate => result.passed
           /\ fault \in HopFaults => ~result.passed
           /\ fault \in RouteFaults /\ tests[test] = Catcher(fault) /\ VaJunk = {} /\ Grace > 0 =>
                 ~result.passed
<1>1. /\ tests[test] \in Test /\ fault \in Faults
      /\ cur \in 1..(Len(script) + 1) /\ Len(script) \in Nat
      /\ taken \in Seq(SUBSET (LinkID \X Arrival))
  BY StandingTypes DEF E2EInv, Standing
<1>2. IF result.passed THEN cur = Len(script) + 1 ELSE cur \in 1..Len(script)
  BY DEF E2EInv, Inv, Evidence, Ended
<1>3. \A f \in Faults, t \in Test : Runs(f, t) =>
          (result.passed /\ cur <= Stop(f, t)) \/ (~result.passed /\ cur = Stop(f, t))
  BY DEF CourseInv, OnCourse, OnTrack, Stopped
<1>4. ASSUME fault = "none", AsListed, ~AnsweredTooLate PROVE result.passed
  <2>1. PICK t \in Test : t = tests[test]
    BY <1>1
  <2>2. script = TestScript(t, {}) /\ Tracked(fault, t) /\ Stop(fault, t) = Len(script) + 1
    BY <1>4, <2>1 DEF AsListed, Tracked, Stop
  <2>3. Patient(fault, t)
    BY <1>4, <2>1, ForwarderAssumption DEF AnsweredTooLate, Patient
  <2>4. Runs(fault, t)
    BY <2>1, <2>2, <2>3 DEF Runs
  <2> QED BY <1>1, <1>2, <1>3, <2>2, <2>4
<1>5. ASSUME fault \in HopFaults PROVE ~result.passed
  <2> SUFFICES ASSUME result.passed PROVE FALSE
    OBVIOUS
  <2>1. PICK k \in DOMAIN taken : \E r \in taken[k] : r[2] = Forwarded(InterestOf(tests[test]))
    BY PassedOnOwn DEF E2EInv, Standing, PassesOnOwnInterest
  <2>2. PICK r \in taken[k] : r[2] = Forwarded(InterestOf(tests[test]))
    BY <2>1
  <2>3. r[2].type = "interest" /\ r[2].hopLimit = 254
    BY <2>2 DEF Forwarded, InterestOf
  <2>4. DOMAIN taken = 1..Len(taken)
    BY <1>1
  <2>5. Off(r[2])
    BY <1>5, <2>1, <2>2, <2>4 DEF HopInv, TakenOff
  <2> QED BY <2>3, <2>5 DEF Off
<1>6. ASSUME fault \in RouteFaults, tests[test] = Catcher(fault), VaJunk = {}, Grace > 0
      PROVE  ~result.passed
  <2>0. script = TestScript(tests[test], {})
    BY <1>6 DEF E2EInv, Standing
  <2>1. PICK t \in Test : t = tests[test]
    BY <1>1
  <2>2. PICK f \in Faults : f = fault
    BY <1>1
  <2>3. Stop(f, t) <= Len(script) /\ Tracked(f, t)
    BY <1>1, <1>6, <2>0, <2>1, <2>2, CaughtEarly
  <2>4. Runs(f, t)
    BY <1>6, <2>0, <2>1, <2>2, <2>3 DEF Runs, Patient
  <2>5. Stop(f, t) \in Nat
    <3>1. Stop(f, t) \in 1..(Len(script) + 1)
      BY <1>1, <2>0, <2>1, <2>3, CoursesFit DEF FitsInv, Fits, FitsTyped
    <3> QED BY <3>1
  <2> QED BY <1>1, <1>2, <1>3, <2>3, <2>4, <2>5
<1> QED BY <1>4, <1>5, <1>6

LEMMA VerdictInvNext ==
    ASSUME ReliableTCP, E2EInv, CourseInv, HopInv, VerdictInv, [E2ENext]_e2eVars
    PROVE  VerdictInv'
<1>1. fault' = fault /\ tests' = tests
  <2>1. CASE RigSteps
    BY <2>1 DEF RigSteps, Prompt, RunTest, ReportResult, suiteVars, FlushReads
  <2>2. CASE ScriptPollTimesOut \/ FlushPollTimesOut
    BY <2>2 DEF ScriptPollTimesOut, suiteVars, FlushPollTimesOut, FlushTimeout
  <2>3. CASE Forwards
    BY <2>3 DEF Forwards, suiteVars
  <2>4. CASE UNCHANGED e2eVars
    BY <2>4 DEF e2eVars, allVars, suiteVars, forwarderVars
  <2> QED BY <2>1, <2>2, <2>3, <2>4 DEF E2ENext
<1>2. CASE UNCHANGED resultList
  BY <1>1, <1>2 DEF VerdictInv
<1>3. CASE ReportResult
  <2>1. /\ phase = "running" /\ pc = "returned" /\ resultList' = Append(resultList, Report(result))
        /\ resultList \in Seq({Report(r) : r \in ResultType}) /\ Len(resultList) = test - 1
    BY <1>3 DEF ReportResult, E2EInv, Listed
  <2>2. /\ fault \in HopFaults => ~result.passed
        /\ fault \in RouteFaults /\ tests[test] = Catcher(fault) /\ VaJunk = {} /\ Grace > 0 =>
              ~result.passed
    BY <2>1, VerdictReached
  <2>3. Report(result) = <<"PASS">> <=> result.passed
    BY DEF Report
  <2>4. test \in Nat
    BY StandingTypes
  <2> DEFINE verdict == Report(result)
  <2> HIDE DEF verdict
  <2>5. ASSUME NEW j \in 1..Len(resultList')
        PROVE  (j = test /\ resultList'[j] = verdict)
               \/ (j \in 1..Len(resultList) /\ resultList'[j] = resultList[j])
    BY <2>1, <2>4 DEF verdict
  <2> SUFFICES ASSUME NEW j \in 1..Len(resultList')
               PROVE  /\ fault \in HopFaults => resultList'[j] # <<"PASS">>
                      /\ fault \in RouteFaults /\ tests[j] = Catcher(fault) /\ VaJunk = {} /\ Grace > 0 =>
                            resultList'[j] # <<"PASS">>
    BY <1>1 DEF VerdictInv
  <2>6. CASE j = test /\ resultList'[j] = verdict
    BY <2>2, <2>3, <2>6 DEF verdict
  <2>7. CASE j \in 1..Len(resultList) /\ resultList'[j] = resultList[j]
    BY <2>7 DEF VerdictInv
  <2>8. (j = test /\ resultList'[j] = verdict) \/ (j \in 1..Len(resultList) /\ resultList'[j] = resultList[j])
    BY <2>5
  <2> QED BY <2>6, <2>7, <2>8
<1>4. CASE RigSteps /\ ~ReportResult
  <2>1. UNCHANGED resultList
    BY <1>4 DEF RigSteps, Prompt, RunTest, suiteVars, FlushReads
  <2> QED BY <1>2, <2>1
<1>5. CASE ScriptPollTimesOut \/ FlushPollTimesOut \/ Forwards \/ UNCHANGED e2eVars
  <2>1. UNCHANGED resultList
    BY <1>5 DEF ScriptPollTimesOut, suiteVars, FlushPollTimesOut, FlushTimeout, Forwards, e2eVars, allVars
  <2> QED BY <1>2, <2>1
<1> QED BY <1>3, <1>4, <1>5 DEF E2ENext

LEMMA ReportsInvariant == ASSUME ReliableTCP PROVE E2ESpec => [](E2EInv /\ CourseInv /\ HopInv /\ VerdictInv)
<1>1. E2EInit => CourseInv /\ HopInv /\ VerdictInv
  <2> SUFFICES ASSUME E2EInit PROVE CourseInv /\ HopInv /\ VerdictInv
    OBVIOUS
  <2>1. /\ phase = "idle" /\ resultList = <<>> /\ taken = <<>>
        /\ \A l \in LinkID : inbox[l] = <<>>
    BY DEF E2EInit, SuiteInit, Init, ChannelInit
  <2>2. MailOff /\ TakenOff
    BY <2>1 DEF MailOff, TakenOff
  <2> QED BY <2>1, <2>2 DEF CourseInv, Runs, HopInv, VerdictInv
<1>2. E2EInv /\ HopInv /\ [E2ENext]_e2eVars => HopInv'
  BY HopInvNext
<1>3. E2EInv /\ CourseInv /\ HopInv /\ VerdictInv /\ [E2ENext]_e2eVars => VerdictInv'
  BY VerdictInvNext
<1>4. E2EInv /\ CourseInv /\ [E2ENext]_e2eVars => CourseInv'
  BY CourseInvNext
<1> QED BY <1>1, <1>2, <1>3, <1>4, E2EInvariant, PTL DEF E2ESpec

------------------------------------------------------------------------------
(* What the suite says of a forwarder is true. *)

\* Over connections that do not fail, whatever the list of tests and in whatever order the forwarder's
\* work and the rig's polls interleave, a forwarder that does nothing wrong passes every test that polls
\* the links it lists, but for tests 4 and 5 if it drops an Interest when its lifetime is over.
THEOREM CorrectForwardersPass == ASSUME ReliableTCP PROVE E2ESpec => []CorrectForwarderPasses
<1>1. E2EInv /\ CourseInv /\ HopInv => CorrectForwarderPasses
  BY VerdictReached DEF CorrectForwarderPasses
<1> QED BY <1>1, ReportsInvariant, PTL

\* When every test has been run, over connections that do not fail and with link vectors that hold what
\* was listed, a forwarder that keeps an Interest at least 1 ms beyond its lifetime and has one of the
\* faults a test can show has failed one.  What comes out on a link nobody polls, no test shows; and
\* over TCP, where one receive may take two packets off the stream, none need show that an Interest
\* was forwarded twice.
THEOREM FaultyForwardersAreCaught ==
    ASSUME ReliableTCP, VaJunk = {}, Grace > 0,
           \A list \in Lists : \A t \in Test : \E j \in 1..Len(list) : list[j] = t,
           FaultsTried \subseteq {"none"} \cup RouteFaults \cup HopFaults
    PROVE  E2ESpec => []FaultyForwarderIsCaught
<1>1. E2EInv /\ VerdictInv => FaultyForwarderIsCaught
  <2> SUFFICES ASSUME E2EInv, VerdictInv, phase = "done", fault # "none" PROVE Failures # {}
    BY DEF FaultyForwarderIsCaught
  <2>1. /\ tests \in Lists /\ fault \in RouteFaults \cup HopFaults /\ test = Len(tests)
        /\ Len(resultList) = test /\ test \in Nat /\ test \in 1..Len(tests)
    <3>1. test = Len(tests) /\ Len(tests) \in Nat /\ tests \in Lists /\ test \in 1..Len(tests)
      BY StandingTypes DEF E2EInv, Standing, Running
    <3>2. Len(resultList) = test
      BY <3>1 DEF E2EInv, Listed
    <3>3. fault \in RouteFaults \cup HopFaults
      BY DEF E2EInv, Standing
    <3> QED BY <3>1, <3>2, <3>3
  <2>2. DOMAIN resultList = 1..Len(resultList)
    BY DEF E2EInv, Listed
  <2>3. CASE fault \in HopFaults
    <3>1. resultList[test] # <<"PASS">>
      BY <2>1, <2>3 DEF VerdictInv
    <3> QED BY <2>1, <2>2, <3>1 DEF Failures
  <2>4. CASE fault \in RouteFaults
    <3>1. Catcher(fault) \in Test
      BY <2>4, CatchersAreTests
    <3>2. PICK j \in 1..Len(tests) : tests[j] = Catcher(fault)
      BY <2>1, <3>1
    <3>3. resultList[j] # <<"PASS">>
      BY <2>1, <2>4, <3>2 DEF VerdictInv
    <3> QED BY <2>1, <2>2, <3>2, <3>3 DEF Failures
  <2> QED BY <2>1, <2>3, <2>4
<1> QED BY <1>1, ReportsInvariant, PTL

=============================================================================
