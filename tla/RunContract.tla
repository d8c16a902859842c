---------------------------- MODULE RunContract -----------------------------
(***************************************************************************)
(* What the core promises a wrapper of a run of runVerification: it begins *)
(* the run's tests together, decides each once, and calls the run itself a *)
(* success when, and only when, all tests it began are decided, whatever   *)
(* they came to; it fails a run only in place of beginning it.             *)
(***************************************************************************)
CONSTANTS
  Runs, Tests,
  RunOf    \* the run of each test

VARIABLES
  begun,   \* the tests that were begun
  verdict  \* what the core decided for each run and test, or "none"

vars == <<begun, verdict>>

TestsOf(r) == {t \in Tests : RunOf[t] = r}
BegunOf(r) == begun \cap TestsOf(r)

Init ==
  /\ begun = {}
  /\ verdict = [c \in Runs \cup Tests |-> "none"]

Start(r) ==
  /\ verdict[r] = "none"
  /\ BegunOf(r) = {}
  /\ \E S \in (SUBSET TestsOf(r)) \ {{}} : begun' = begun \cup S
  /\ UNCHANGED verdict

(* A test is decided while its run is not.                                 *)
DecideTest(t, v) ==
  /\ t \in begun
  /\ verdict[t] = "none" /\ verdict[RunOf[t]] = "none"
  /\ verdict' = [verdict EXCEPT ![t] = v]
  /\ UNCHANGED begun

Finish(r) ==
  /\ verdict[r] = "none"
  /\ BegunOf(r) # {}
  /\ \A t \in BegunOf(r) : verdict[t] # "none"
  /\ verdict' = [verdict EXCEPT ![r] = "success"]
  /\ UNCHANGED begun

Fail(r) ==
  /\ verdict[r] = "none"
  /\ BegunOf(r) = {}
  /\ verdict' = [verdict EXCEPT ![r] = "failure"]
  /\ UNCHANGED begun

Next ==
  \/ \E r \in Runs : Start(r) \/ Finish(r) \/ Fail(r)
  \/ \E t \in Tests, v \in {"success", "failure"} : DecideTest(t, v)

Spec == Init /\ [][Next]_vars
=============================================================================
