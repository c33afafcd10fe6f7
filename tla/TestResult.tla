------------------------------ MODULE TestResult ------------------------------
(***************************************************************************)
(* The CCNxTestrigSuiteTestResult of one test case                         *)
(* (ccnxTestrig_SuiteTestResult.c).  A reason is kept as its kind; while   *)
(* none was recorded it is "none" (the field is not initialised by the     *)
(* code, which reads it only when passed is false).                        *)
(***************************************************************************)
EXTENDS Sequences

Reason == {"timeout", "type", "field", "no message", "unexpected"}

Create == [passed |-> TRUE, reason |-> "none", packetList |-> <<>>]

SetPass(r) == [r EXCEPT !.passed = TRUE]

\* Mutant: a failure records its reason but not the verdict.
SetFailReasonOnly(r, why) == [r EXCEPT !.reason = why]

SetFail(r, why) == [r EXCEPT !.passed = FALSE, !.reason = why]

IsFailure(r) == ~r.passed

LogPacket(r, p) == [r EXCEPT !.packetList = Append(@, p)]

\* ccnxTestrigSuiteTestResult_Report: the line it hands to the reporter.
Report(r) == IF r.passed THEN <<"PASS">> ELSE <<"FAIL", r.reason>>

=============================================================================
