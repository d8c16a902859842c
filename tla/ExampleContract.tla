-------------------------- MODULE ExampleContract ---------------------------
(***************************************************************************)
(* What the core promises a wrapper of the examples of a definer: one runs *)
(* at a time, and is decided once, when it has run; an example that does   *)
(* not run may be refused at any time, and that is a failure.              *)
(***************************************************************************)
CONSTANTS Examples

VARIABLES
  running,  \* the example that runs, if any
  verdict   \* what the core decided for each example, or "none"

vars == <<running, verdict>>

Init ==
  /\ running = {}
  /\ verdict = [e \in Examples |-> "none"]

Start(e) ==
  /\ running = {}
  /\ verdict[e] = "none"
  /\ running' = {e}
  /\ UNCHANGED verdict

Decide(e, v) ==
  /\ e \in running
  /\ verdict[e] = "none"
  /\ verdict' = [verdict EXCEPT ![e] = v]
  /\ running' = {}

Refuse(e) ==
  /\ e \notin running
  /\ verdict[e] = "none"
  /\ verdict' = [verdict EXCEPT ![e] = "failure"]
  /\ UNCHANGED running

Next ==
  \E e \in Examples :
    Start(e) \/ Refuse(e) \/ \E v \in {"success", "failure"} : Decide(e, v)

Spec == Init /\ [][Next]_vars
=============================================================================
