---------------------------- MODULE ScriptPromise ----------------------------
(***************************************************************************)
(* What executing a test script promises, with every step taken at once:   *)
(* steps are decided in order, each on the packets it read and nothing     *)
(* else; the first step that is not satisfied fails the script and ends    *)
(* it; a script whose steps are all satisfied passes; and only a script    *)
(* that is not well formed can make the rig crash.                         *)
(***************************************************************************)
EXTENDS ScriptStep

VARIABLES plan,       \* the steps
          observed,   \* per step decided so far, the readings it was decided on
          verdict     \* "open", "pass", "fail" or "crashed"

promiseVars == <<plan, observed, verdict>>

Decided == Len(observed)

PromiseInit == plan = <<>> /\ observed = <<>> /\ verdict = "open"

\* A step is appended to a script none of whose steps was decided.
Write ==
    /\ verdict = "open" /\ observed = <<>>
    /\ Len(plan') = Len(plan) + 1
    /\ \A k \in 1..Len(plan) : plan'[k] = plan[k]
    /\ UNCHANGED <<observed, verdict>>

\* The next step is decided on the readings it made.
Decide ==
    /\ verdict = "open" /\ Decided < Len(plan)
    /\ Len(observed') = Decided + 1
    /\ LET readings == observed'[Decided + 1]
       IN  /\ observed' = Append(observed, readings)
           /\ verdict' = IF Satisfied(plan, Decided + 1, readings) THEN "open" ELSE "fail"
    /\ UNCHANGED plan

Pass ==
    /\ verdict = "open" /\ Decided = Len(plan)
    /\ verdict' = "pass"
    /\ UNCHANGED <<plan, observed>>

Crash ==
    /\ verdict = "open" /\ ~WellFormed(plan)
    /\ verdict' = "crashed"
    /\ UNCHANGED <<plan, observed>>

PromiseNext == Write \/ Decide \/ Pass \/ Crash

PromiseSpec == PromiseInit /\ [][PromiseNext]_promiseVars

=============================================================================
