---------------------------- MODULE CallContract ----------------------------
(***************************************************************************)
(* What executeCallAndWait promises its callers, whatever threads, queues  *)
(* and streams lie behind it: a call returns once; it returns success or   *)
(* failure only when that is what the core decided for this very call, and *)
(* the core decides once; otherwise it returns an error of the wrapper's   *)
(* own.  A decision may come after its call has returned.                  *)
(***************************************************************************)
CONSTANTS CallIds

Verdicts == {"success", "failure"}

VARIABLES
  calls,   \* "unused", "open", or what the call returned
  verdict  \* what the core decided for the call, or "none"

vars == <<calls, verdict>>

Init ==
  /\ calls = [i \in CallIds |-> "unused"]
  /\ verdict = [i \in CallIds |-> "none"]

Issue(i) ==
  /\ calls[i] = "unused"
  /\ calls' = [calls EXCEPT ![i] = "open"]
  /\ UNCHANGED verdict

(* A call may be refused without being sent. *)
Refuse(i) ==
  /\ calls[i] = "unused"
  /\ calls' = [calls EXCEPT ![i] = "error"]
  /\ UNCHANGED verdict

Decide(i, v) ==
  /\ calls[i] # "unused"
  /\ verdict[i] = "none"
  /\ verdict' = [verdict EXCEPT ![i] = v]
  /\ UNCHANGED calls

Return(i) ==
  /\ calls[i] = "open"
  /\ \E result \in ({verdict[i]} \ {"none"}) \cup {"error"} :
       calls' = [calls EXCEPT ![i] = result]
  /\ UNCHANGED verdict

Next ==
  \E i \in CallIds :
    \/ Issue(i) \/ Refuse(i) \/ Return(i)
    \/ \E v \in Verdicts : Decide(i, v)

Spec == Init /\ [][Next]_vars
=============================================================================
