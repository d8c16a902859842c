----------------------------- MODULE ExampleRuns -----------------------------
(***************************************************************************)
(* A ContractDefiner, which the threads of a test suite may share: each    *)
(* example puts its own configuration into the ConfigHandle and asks the   *)
(* core to run it; while the core runs it, its requests for triggers and   *)
(* state handlers are answered from whatever the ConfigHandle then holds.  *)
(*                                                                         *)
(* Calls to the core are the calls of CallContract, which RpcConnector     *)
(* implements; of the core the module assumes ExampleContract, which       *)
(* CoreServer implements.                                                  *)
(***************************************************************************)
EXTENDS Naturals

CONSTANTS
  Users,         \* threads that share the definer
  StateNames,    \* names of state handlers and of the triggers of groups
  TriggerAndTest,\* the one handle ContractCase::TriggerAndTest
  None,          \* no example
  MaxExamples    \* bound on the examples of a definer

Examples == 1 .. MaxExamples
Configs == 0 .. MaxExamples     \* 0 is begin's
EndCall == MaxExamples + 1
CallIds == 0 .. EndCall         \* 0 is begin
Handles == StateNames \cup {TriggerAndTest}

ASSUME BoundsAssumption == MaxExamples \in Nat
ASSUME NamesAssumption == TriggerAndTest \notin StateNames /\ None \notin Examples

VARIABLES
  definer,    \* "new", "beginning", "ready" or "unusable"
  user,       \* where each thread is
  at,         \* the example each thread is in
  examples,   \* the examples begun so far
  outcome,    \* how each runExample or runThrowingExample ended
  config,     \* ConfigHandle.boundaryConfig, by the example it came with
  provides,   \* the handles each configuration has a function for
  closed,     \* whether close() was called on the connector
  calls,      \* the calls of CallContract
  verdict,    \* external: the core's decisions of CallContract
  reached,    \* external: the examples whose request reached the core
  current,    \* external: the example the core runs, under its mutex
  met,        \* external: the configurations its requests have met
  broken,     \* external: the connection is lost, errorStatus is set
  missed,     \* history: a request found no function
  disturbed   \* history: examples that were not decided when another set
              \* its configuration

userVars == <<definer, user, at, examples, outcome>>
configVars == <<config, provides>>
coreVars == <<verdict, reached, current, met, broken>>
history == <<missed, disturbed>>
vars == <<userVars, configVars, closed, calls, coreVars, history>>

Rpc == INSTANCE CallContract
Running == {current} \ {None}
Core == INSTANCE ExampleContract WITH running <- Running

Init ==
  /\ definer = "new"
  /\ user = [u \in Users |-> "idle"]
  /\ at = [u \in Users |-> None]
  /\ examples = 0
  /\ outcome = [e \in Examples |-> "none"]
  /\ config = 0
  /\ provides = [c \in Configs |-> {}]
  /\ closed = FALSE
  /\ Rpc!Init
  /\ reached = {}
  /\ current = None
  /\ met = [e \in Examples |-> {}]
  /\ broken = FALSE
  /\ missed = FALSE
  /\ disturbed = {}

Goes(u, from, to) == user[u] = from /\ user' = [user EXCEPT ![u] = to]

-----------------------------------------------------------------------------
(* The constructor: begin, whose configuration has state handlers and      *)
(* trigger groups at most.                                                 *)

Construct(u) ==
  /\ definer = "new"
  /\ Goes(u, "idle", "beginning")
  /\ definer' = "beginning"
  /\ \E handlers \in SUBSET StateNames : provides' = [provides EXCEPT ![0] = handlers]
  /\ Rpc!Issue(0)
  /\ UNCHANGED <<at, examples, outcome, config, closed, reached, current,
                 met, broken, history>>

EndConstruct(u) ==
  /\ Goes(u, "beginning", "idle")
  /\ Rpc!Return(0)
  /\ definer' = IF calls'[0] = "success" THEN "ready" ELSE "unusable"
  /\ UNCHANGED <<at, examples, outcome, configVars, closed, reached, current, met,
                 broken, history>>

-----------------------------------------------------------------------------
(* runExample and runThrowingExample.                                      *)

(* A trigger without its response function, or the reverse, is thrown      *)
(* before anything is set or sent.                                         *)
RunMisconfigured(u) ==
  /\ definer = "ready"
  /\ user[u] = "idle"
  /\ examples < MaxExamples
  /\ examples' = examples + 1
  /\ outcome' = [outcome EXCEPT ![examples + 1] = "configuration"]
  /\ UNCHANGED <<definer, user, at, configVars, closed, calls, coreVars, history>>

(* Examples begun whose requests may still come when another sets config.  *)
Undecided == {e \in 1 .. examples : verdict[e] = "none"}

(* Mutant: the example's configuration goes to the core only. *)
RunForgetsConfig(u) ==
  /\ definer = "ready"
  /\ Goes(u, "idle", "asking")
  /\ examples < MaxExamples
  /\ examples' = examples + 1
  /\ at' = [at EXCEPT ![u] = examples + 1]
  /\ \E handlers \in SUBSET Handles :
       provides' = [provides EXCEPT ![examples + 1] = handlers]
  /\ disturbed' = disturbed \cup Undecided
  /\ UNCHANGED <<definer, outcome, config, closed, calls, coreVars, missed>>

Run(u) ==
  /\ definer = "ready"
  /\ Goes(u, "idle", "asking")
  /\ examples < MaxExamples
  /\ examples' = examples + 1
  /\ at' = [at EXCEPT ![u] = examples + 1]
  /\ \E handlers \in SUBSET Handles :
       provides' = [provides EXCEPT ![examples + 1] = handlers]
  /\ config' = examples + 1
  /\ disturbed' = disturbed \cup Undecided
  /\ UNCHANGED <<definer, outcome, closed, calls, coreVars, missed>>

(* What is sent once the connector is closed stays in its queue.           *)
Ask(u) ==
  /\ Goes(u, "asking", "waiting")
  /\ Rpc!Issue(at[u])
  /\ reached' = IF closed THEN reached ELSE reached \cup {at[u]}
  /\ UNCHANGED <<definer, at, examples, outcome, configVars, closed, current,
                 met, broken, history>>

AskRefused(u) ==
  /\ broken
  /\ Goes(u, "asking", "idle")
  /\ Rpc!Refuse(at[u])
  /\ outcome' = [outcome EXCEPT ![at[u]] = "thrown"]
  /\ UNCHANGED <<definer, at, examples, configVars, closed, reached, current, met,
                 broken, history>>

(* Mutant: what the call returned is not mapped to an exception. *)
ReturnsUnmapped(u) ==
  /\ Goes(u, "waiting", "idle")
  /\ Rpc!Return(at[u])
  /\ outcome' = [outcome EXCEPT ![at[u]] = "returned"]
  /\ UNCHANGED <<definer, at, examples, configVars, closed, reached, current, met,
                 broken, history>>

(* Mutant: the call's own result is the outcome. *)
ReturnsRaw(u) ==
  /\ Goes(u, "waiting", "idle")
  /\ Rpc!Return(at[u])
  /\ outcome' = [outcome EXCEPT ![at[u]] = calls'[at[u]]]
  /\ UNCHANGED <<definer, at, examples, configVars, closed, reached, current, met,
                 broken, history>>

(* Mutant: begin's configuration is put back. *)
ReturnsAndRestores(u) ==
  /\ Goes(u, "waiting", "idle")
  /\ Rpc!Return(at[u])
  /\ outcome' = [outcome EXCEPT
       ![at[u]] = IF calls'[at[u]] = "success" THEN "returned" ELSE "thrown"]
  /\ config' = 0
  /\ UNCHANGED <<definer, at, examples, provides, closed, reached, current,
                 met, broken, history>>

Returns(u) ==
  /\ Goes(u, "waiting", "idle")
  /\ Rpc!Return(at[u])
  /\ outcome' = [outcome EXCEPT
       ![at[u]] = IF calls'[at[u]] = "success" THEN "returned" ELSE "thrown"]
  /\ UNCHANGED <<definer, at, examples, configVars, closed, reached, current, met,
                 broken, history>>

-----------------------------------------------------------------------------
(* endRecord, once.                                                        *)

EndRecord(u) ==
  /\ definer = "ready"
  /\ Goes(u, "idle", "ending")
  /\ Rpc!Issue(EndCall)
  /\ UNCHANGED <<definer, at, examples, outcome, configVars, closed, reached, current,
                 met, broken, history>>

EndRefused(u) ==
  /\ definer = "ready"
  /\ broken
  /\ user[u] = "idle"
  /\ Rpc!Refuse(EndCall)
  /\ closed' = TRUE
  /\ UNCHANGED <<userVars, configVars, reached, current, met, broken, history>>

(* The connector is closed whatever the core said. *)
EndReturns(u) ==
  /\ Goes(u, "ending", "idle")
  /\ Rpc!Return(EndCall)
  /\ closed' = TRUE
  /\ UNCHANGED <<definer, at, examples, outcome, configVars, reached, current, met,
                 broken, history>>

(* Unless the thread is interrupted in send: that throws past close().     *)
EndThrows(u) ==
  /\ Goes(u, "ending", "idle")
  /\ Rpc!Return(EndCall)
  /\ calls'[EndCall] = "error"
  /\ UNCHANGED <<definer, at, examples, outcome, configVars, closed, reached, current,
                 met, broken, history>>

-----------------------------------------------------------------------------
(* The core (external): ExampleContract, for examples that reached it, also*)
(* those whose call has been given up, as long as the connection holds; a  *)
(* request for any of the handles an example's configuration names.        *)

CoreBegins(v) ==
  /\ ~broken
  /\ Rpc!Decide(0, v)
  /\ UNCHANGED <<userVars, configVars, closed, reached, current, met, broken, history>>

CoreStarts(e) ==
  /\ ~broken
  /\ e \in reached
  /\ current' = e
  /\ Core!Start(e)
  /\ UNCHANGED <<userVars, configVars, closed, calls, verdict, reached, met, broken,
                 history>>

(* The listener looks the handle up; a lookup that fails throws there, and *)
(* gRPC cancels the stream.  The core asks only for handles that came with *)
(* the example: the invoker of a stream is made with the configuration of  *)
(* begin, but the core's mapping of an example's configuration always makes*)
(* stateHandlers, which goes before the invoker's, and takes triggers from *)
(* nowhere else.                                                           *)
CoreRequests(e, h) ==
  /\ ~broken
  /\ current = e
  /\ h \in provides[e]
  /\ IF h \in provides[config]
     THEN met' = [met EXCEPT ![e] = @ \cup {config}] /\ UNCHANGED <<broken, missed>>
     ELSE broken' = TRUE /\ missed' = TRUE /\ UNCHANGED met
  /\ UNCHANGED <<userVars, configVars, closed, calls, verdict, reached, current,
                 disturbed>>

CoreDecides(e, v) ==
  /\ ~broken
  /\ current' = None
  /\ Rpc!Decide(e, v) /\ Core!Decide(e, v)
  /\ UNCHANGED <<userVars, configVars, closed, reached, met, broken, history>>

(* A definer that was closed, or a name that clashes.                      *)
CoreRefuses(e) ==
  /\ ~broken
  /\ e \in reached
  /\ UNCHANGED <<userVars, configVars, closed, reached, current, met, broken, history>>
  /\ Rpc!Decide(e, "failure") /\ Core!Refuse(e)

CoreEnds(v) ==
  /\ ~broken
  /\ Rpc!Decide(EndCall, v)
  /\ UNCHANGED <<userVars, configVars, closed, reached, current, met, broken, history>>

ConnectionBreaks ==
  /\ ~broken
  /\ broken' = TRUE
  /\ UNCHANGED <<userVars, configVars, closed, calls, verdict, reached, current, met,
                 history>>

-----------------------------------------------------------------------------
UserStep(u) ==
  \/ Construct(u) \/ EndConstruct(u)
  \/ RunMisconfigured(u) \/ Run(u) \/ Ask(u) \/ AskRefused(u) \/ Returns(u)
  \/ EndRecord(u) \/ EndRefused(u) \/ EndReturns(u) \/ EndThrows(u)

CoreStep ==
  \/ \E v \in Rpc!Verdicts : CoreBegins(v) \/ CoreEnds(v)
  \/ \E e \in Examples :
       \/ CoreStarts(e) \/ CoreRefuses(e)
       \/ \E h \in Handles : CoreRequests(e, h)
       \/ \E v \in Rpc!Verdicts : CoreDecides(e, v)
  \/ ConnectionBreaks

Next == (\E u \in Users : UserStep(u)) \/ CoreStep

Spec == Init /\ [][Next]_vars

-----------------------------------------------------------------------------
(* Every variable has its type.                                            *)
TypeOK ==
  /\ definer \in {"new", "beginning", "ready", "unusable"}
  /\ user \in [Users -> {"idle", "beginning", "asking", "waiting", "ending"}]
  /\ at \in [Users -> Examples \cup {None}]
  /\ examples \in Configs
  /\ outcome \in [Examples -> {"none", "configuration", "thrown", "returned"}]
  /\ config \in Configs
  /\ provides \in [Configs -> SUBSET Handles]
  /\ closed \in BOOLEAN
  /\ calls \in [CallIds -> {"unused", "open", "error"} \cup Rpc!Verdicts]
  /\ verdict \in [CallIds -> {"none"} \cup Rpc!Verdicts]
  /\ reached \subseteq Examples
  /\ current \in Examples \cup {None}
  /\ met \in [Examples -> SUBSET Configs]
  /\ broken \in BOOLEAN
  /\ missed \in BOOLEAN
  /\ disturbed \subseteq Examples

(* An example's triggers and state handlers are its own, unless another    *)
(* example began while it was not decided: a thread that shares the        *)
(* definer, or the same thread after its call timed out.  The trigger of   *)
(* every example has the same handle, so nothing else tells them apart.    *)
HandlersAreTheExamplesOwn ==
  \A e \in Examples : e \notin disturbed => met[e] \subseteq {e}

(* A lookup that fails, and takes the stream of all examples with it,      *)
(* needs such an example: one that is alone never breaks the connection.   *)
MissesNeedDisturbance == missed => disturbed # {}

(* runExample returns normally only for an example that reached the core   *)
(* before close() and that the core called a success: neither a timeout    *)
(* nor a connector that was closed by endRecord passes for one.            *)
ReturnsAreSuccesses ==
  \A e \in Examples :
    outcome[e] = "returned" => verdict[e] = "success" /\ e \in reached
=============================================================================
