--------------------------- MODULE VerificationRun ---------------------------
(***************************************************************************)
(* A ContractVerifier: its user's thread constructs it and runs            *)
(* verifications one after the other; for each the core starts tests,      *)
(* which run on pool threads, ask the core to invoke them, and put what    *)
(* failed into the list `failures' that the user's thread looks at when    *)
(* the core's answer to the run is in.                                     *)
(*                                                                         *)
(* Calls to the core are the calls of CallContract, which RpcConnector     *)
(* implements: the result of a run, or of a test, is known only as its     *)
(* call's.                                                                 *)
(***************************************************************************)
EXTENDS Naturals

CONSTANTS
  Tests,    \* the tests of each run, the final one that publishes among
            \* them: pairs of a run and a name
  Run,      \* names, in place of a test, the call of the run itself
  Kinds,    \* external: the kinds of the core's failures
  MaxRuns   \* bound on the calls of runVerification

Runs == 1 .. MaxRuns
RunCall(r) == <<r, Run>>   \* RunCall(0) is the begin of the constructor
CallIds == ((0 .. MaxRuns) \X {Run}) \cup Tests

ASSUME TestsAssumption ==
  /\ MaxRuns \in Nat
  /\ \A t \in Tests : t = <<t[1], t[2]>> /\ t[1] \in Runs /\ t[2] # Run
  /\ Kinds \cap {"none", "returned"} = {}

VARIABLES
  user,       \* where the user's thread is
  run,        \* the runs begun so far
  outcome,    \* how each runVerification ended
  config,     \* ConfigHandle.boundaryConfig: 0 is begin's, r the overrides of r
  pc,         \* where the pool thread of each test is
  at,         \* the size each ArrayList.add has read
  size,       \* failures.size()
  first,      \* failures.get(0)
  response,   \* what each START_TEST_EVENT was answered with
  calls,      \* the calls of CallContract
  verdict,    \* external: the core's decisions of CallContract
  kind,       \* external: of which kind each failure is
  usedConfig, \* external: whose handlers the core's requests of a test met
  broken      \* external: the connection is lost, errorStatus is set

userVars == <<user, run, outcome, config>>
testVars == <<pc, at, size, first, response>>
coreVars == <<verdict, kind, usedConfig, broken>>
vars == <<userVars, testVars, calls, coreVars>>

Rpc == INSTANCE CallContract

TestsOf(r) == {t \in Tests : t[1] = r}
RunCalls == {RunCall(r) : r \in Runs}
CallOfRun == [t \in Tests |-> RunCall(t[1])]
Begun == {t \in Tests : pc[t] # "absent"}
Core == INSTANCE RunContract WITH Runs <- RunCalls, RunOf <- CallOfRun, begun <- Begun

Thrown == Kinds \cup {"configuration", "core"}
NoTest == <<0, Run>>

Init ==
  /\ user = "new"
  /\ run = 0
  /\ outcome = [r \in Runs |-> "none"]
  /\ config = 0
  /\ pc = [t \in Tests |-> "absent"]
  /\ at = [t \in Tests |-> 0]
  /\ size = 0
  /\ first = NoTest
  /\ response = [t \in Tests |-> "none"]
  /\ Rpc!Init
  /\ kind = [i \in CallIds |-> "none"]
  /\ usedConfig = [t \in Tests |-> {}]
  /\ broken = FALSE

(* What a call's result throws at the user when the core's failure is of   *)
(* kind k: the wrapper's own errors are configuration errors.              *)
Raised(result, k) == IF result = "error" THEN "configuration" ELSE k

-----------------------------------------------------------------------------
(* The user's thread: constructor, runVerification, close.                 *)

Construct ==
  /\ user = "new"
  /\ user' = "beginning"
  /\ Rpc!Issue(RunCall(0))
  /\ UNCHANGED <<run, outcome, config, testVars, kind, usedConfig, broken>>

(* A begin that fails is thrown out of the constructor. *)
EndConstruct ==
  /\ user = "beginning"
  /\ Rpc!Return(RunCall(0))
  /\ user' = IF calls'[RunCall(0)] = "success" THEN "ready" ELSE "unusable"
  /\ UNCHANGED <<run, outcome, config, testVars, kind, usedConfig, broken>>

(* Mutant: the overrides are sent to the core and not to the ConfigHandle. *)
RunVerificationForgetsConfig ==
  /\ user = "ready"
  /\ run < MaxRuns
  /\ run' = run + 1
  /\ user' = "waiting"
  /\ Rpc!Issue(RunCall(run + 1))
  /\ UNCHANGED <<outcome, config, testVars, kind, usedConfig, broken>>

RunVerification ==
  /\ user = "ready"
  /\ run < MaxRuns
  /\ run' = run + 1
  /\ config' = run + 1
  /\ user' = "waiting"
  /\ Rpc!Issue(RunCall(run + 1))
  /\ UNCHANGED <<outcome, testVars, kind, usedConfig, broken>>

RunRefused ==
  /\ user = "ready"
  /\ run < MaxRuns
  /\ broken
  /\ run' = run + 1
  /\ config' = run + 1
  /\ outcome' = [outcome EXCEPT ![run + 1] = "configuration"]
  /\ Rpc!Refuse(RunCall(run + 1))
  /\ UNCHANGED <<user, testVars, kind, usedConfig, broken>>

(* The call's failure, a timeout of 30 minutes among them, is thrown: the  *)
(* list is looked at only when the call succeeded.                         *)
RunReturns ==
  /\ user = "waiting"
  /\ Rpc!Return(RunCall(run))
  /\ IF calls'[RunCall(run)] = "success"
     THEN user' = "checking" /\ UNCHANGED outcome
     ELSE /\ user' = "ready"
          /\ outcome' = [outcome EXCEPT ![run] = Raised(calls'[RunCall(run)], kind[RunCall(run)])]
  /\ UNCHANGED <<run, config, testVars, kind, usedConfig, broken>>

(* Mutant: only the core's answer is looked at. *)
CheckNothing ==
  /\ user = "checking"
  /\ user' = "ready"
  /\ outcome' = [outcome EXCEPT ![run] = "returned"]
  /\ UNCHANGED <<run, config, testVars, calls, coreVars>>

FindsNoFailure ==
  /\ user = "checking"
  /\ size = 0
  /\ user' = "ready"
  /\ outcome' = [outcome EXCEPT ![run] = "returned"]
  /\ UNCHANGED <<run, config, testVars, calls, coreVars>>

(* While two first adds overlap, each in an array of its own, get(0) may   *)
(* find the slot of the later array empty, and mapVoid(null) throws.       *)
FindsFailure ==
  /\ user = "checking"
  /\ size > 0
  /\ user' = "ready"
  /\ \/ outcome' = [outcome EXCEPT ![run] = Raised(calls[first], kind[first])]
     \/ /\ \E t \in Tests : pc[t] = "storing" /\ at[t] = 0
        /\ outcome' = [outcome EXCEPT ![run] = "core"]
  /\ UNCHANGED <<run, config, testVars, calls, coreVars>>

Close ==
  /\ user = "ready"
  /\ user' = "closed"
  /\ UNCHANGED <<run, outcome, config, testVars, calls, coreVars>>

-----------------------------------------------------------------------------
(* RunTestCallback.runTest, on the pool thread of a test.                  *)

Goes(t, from, to) == pc[t] = from /\ pc' = [pc EXCEPT ![t] = to]

TestInvokes(t) ==
  /\ Goes(t, "started", "invoking")
  /\ Rpc!Issue(t)
  /\ UNCHANGED <<userVars, at, size, first, response, kind, usedConfig, broken>>

TestRefused(t) ==
  /\ broken
  /\ Goes(t, "started", "adding")
  /\ Rpc!Refuse(t)
  /\ UNCHANGED <<userVars, at, size, first, response, kind, usedConfig, broken>>

(* Mutant: what is no failure is put into the list, too. *)
TestReturnsAll(t) ==
  /\ Goes(t, "invoking", "adding")
  /\ Rpc!Return(t)
  /\ UNCHANGED <<userVars, at, size, first, response, kind, usedConfig, broken>>

TestReturns(t) ==
  /\ Rpc!Return(t)
  /\ Goes(t, "invoking", IF calls'[t] = "success" THEN "responding" ELSE "adding")
  /\ UNCHANGED <<userVars, at, size, first, response, kind, usedConfig, broken>>

(* The core's answer has no value the wrapper can map, or is a success     *)
(* with a payload, which is no ConnectorFailure: runTest catches what      *)
(* that throws and answers with it, and the list does not get it.          *)
TestThrows(t) ==
  /\ Goes(t, "invoking", "responding")
  /\ verdict[t] # "none"
  /\ Rpc!Return(t)
  /\ calls'[t] = "error"
  /\ UNCHANGED <<userVars, at, size, first, response, kind, usedConfig, broken>>

(* ArrayList.add is not synchronized: it reads the size, then stores; the  *)
(* store happens here when other threads see it.                           *)
AddReads(t) ==
  /\ Goes(t, "adding", "storing")
  /\ at' = [at EXCEPT ![t] = size]
  /\ UNCHANGED <<userVars, size, first, response, calls, coreVars>>

(* Mutant: the size is stored before it is advanced. *)
AddStoresStale(t) ==
  /\ Goes(t, "storing", "recorded")
  /\ size' = at[t]
  /\ first' = IF at[t] = 0 THEN t ELSE first
  /\ at' = [at EXCEPT ![t] = 0]
  /\ UNCHANGED <<userVars, response, calls, coreVars>>

AddStores(t) ==
  /\ Goes(t, "storing", "recorded")
  /\ size' = at[t] + 1
  /\ first' \in IF at[t] > 0 THEN {first} ELSE {t, first} \ {NoTest}
  /\ at' = [at EXCEPT ![t] = 0]
  /\ UNCHANGED <<userVars, response, calls, coreVars>>

(* Mutant: errors of the wrapper's own are answered as they are. *)
RespondsUnmapped(t) ==
  /\ \E from \in {"responding", "recorded"} : Goes(t, from, "finished")
  /\ response' = [response EXCEPT ![t] = calls[t]]
  /\ UNCHANGED <<userVars, at, size, first, calls, coreVars>>

Responds(t) ==
  /\ \E from \in {"responding", "recorded"} : Goes(t, from, "finished")
  /\ response' =
       [response EXCEPT ![t] = IF calls[t] = "success" THEN "success" ELSE "failure"]
  /\ UNCHANGED <<userVars, at, size, first, calls, coreVars>>

-----------------------------------------------------------------------------
(* The core (external): RunContract, for runs and tests it was asked for,  *)
(* as long as the connection holds.  It does not wait for the responses.   *)

CoreBegins(v) ==
  /\ ~broken
  /\ Rpc!Decide(RunCall(0), v)
  /\ UNCHANGED <<userVars, testVars, kind, usedConfig, broken>>

(* The tests it offers begin together.                                     *)
CoreStartsTests(r) ==
  /\ ~broken
  /\ calls[RunCall(r)] # "unused"
  /\ \E S \in SUBSET TestsOf(r) :
       pc' = [t \in Tests |-> IF t \in S THEN "started" ELSE pc[t]]
  /\ Core!Start(RunCall(r))
  /\ UNCHANGED <<userVars, at, size, first, response, calls, coreVars>>

CoreDecidesTest(t, v, k) ==
  /\ ~broken
  /\ v = "success" <=> k = "none"
  /\ kind' = [kind EXCEPT ![t] = k]
  /\ usedConfig' = [usedConfig EXCEPT ![t] = @ \cup {config}]
  /\ UNCHANGED <<userVars, testVars, broken>>
  /\ Rpc!Decide(t, v) /\ Core!DecideTest(t, v)

CoreFinishesRun(r) ==
  /\ ~broken
  /\ UNCHANGED <<userVars, testVars, kind, usedConfig, broken>>
  /\ Rpc!Decide(RunCall(r), "success") /\ Core!Finish(RunCall(r))

(* A configuration the core cannot map, or a verifier it does not know.  A *)
(* run it cannot start for another reason ends its process, which is one   *)
(* way for the connection to break.                                        *)
CoreFailsRun(r, k) ==
  /\ ~broken
  /\ kind' = [kind EXCEPT ![RunCall(r)] = k]
  /\ UNCHANGED <<userVars, testVars, usedConfig, broken>>
  /\ Rpc!Decide(RunCall(r), "failure") /\ Core!Fail(RunCall(r))

ConnectionBreaks ==
  /\ ~broken
  /\ broken' = TRUE
  /\ UNCHANGED <<userVars, testVars, calls, verdict, kind, usedConfig>>

-----------------------------------------------------------------------------
UserStep ==
  \/ Construct \/ EndConstruct \/ RunVerification \/ RunRefused \/ RunReturns
  \/ FindsNoFailure \/ FindsFailure \/ Close

TestStep(t) ==
  \/ TestInvokes(t) \/ TestRefused(t) \/ TestReturns(t) \/ TestThrows(t)
  \/ AddReads(t) \/ AddStores(t) \/ Responds(t)

CoreStep ==
  \/ \E v \in Rpc!Verdicts : CoreBegins(v)
  \/ \E r \in Runs : CoreStartsTests(r) \/ CoreFinishesRun(r)
  \/ \E r \in Runs, k \in Kinds : CoreFailsRun(r, k)
  \/ \E t \in Tests, v \in Rpc!Verdicts, k \in {"none"} \cup Kinds :
       CoreDecidesTest(t, v, k)
  \/ ConnectionBreaks

Next == UserStep \/ (\E t \in Tests : TestStep(t)) \/ CoreStep

Spec == Init /\ [][Next]_vars

-----------------------------------------------------------------------------
TestStates ==
  {"absent", "started", "invoking", "adding", "storing", "recorded", "responding",
   "finished"}

(* Every variable has its type.                                            *)
TypeOK ==
  /\ user \in {"new", "beginning", "ready", "waiting", "checking", "unusable", "closed"}
  /\ run \in 0 .. MaxRuns
  /\ outcome \in [Runs -> {"none", "returned"} \cup Thrown]
  /\ config \in 0 .. MaxRuns
  /\ pc \in [Tests -> TestStates]
  /\ at \in [Tests -> Nat]
  /\ size \in Nat
  /\ first \in Tests \cup {NoTest}
  /\ response \in [Tests -> {"none", "success", "failure"}]
  /\ calls \in [CallIds -> {"unused", "open", "error"} \cup Rpc!Verdicts]
  /\ verdict \in [CallIds -> {"none"} \cup Rpc!Verdicts]
  /\ kind \in [CallIds -> {"none"} \cup Kinds]
  /\ usedConfig \in [Tests -> SUBSET (0 .. MaxRuns)]
  /\ broken \in BOOLEAN

Recorded(t) ==
  pc[t] = "recorded" \/ (pc[t] = "finished" /\ calls[t] = "failure")

(* However adds race, the list is not empty once a failure was put into    *)
(* it, and in its first place is a test that failed and was put there.     *)
(* Other entries may be lost, the first may be replaced by that of another *)
(* failed test, and the size may shrink, down to 1.                        *)
SomeFailureStays ==
  (\E t \in Tests : Recorded(t)) =>
    /\ size > 0
    /\ first \in Tests
    /\ calls[first] \in {"failure", "error"}
    /\ pc[first] \in {"recorded", "finished"}

(* runVerification returns normally only when the list holds no failure,   *)
(* of this run or of an earlier one.                                       *)
NoRecordedFailureIsDropped ==
  [][\A r \in Runs :
       outcome[r] = "none" /\ outcome'[r] = "returned"
         => \A t \in Tests : ~Recorded(t)]_vars

(* What is thrown after the core called a run a success is what a test     *)
(* that failed, in this run or in an earlier one, makes of its failure; or *)
(* a core error, but only when two failed.  Earlier runs count, since the  *)
(* list lives as long as the verifier, and no doc says that they do not.   *)
FailedBy(r) == {t \in Tests : t[1] <= r /\ calls[t] \in {"failure", "error"}}
NoFalseAlarms ==
  \A r \in Runs :
    outcome[r] \in Thrown /\ calls[RunCall(r)] = "success" =>
      \/ \E t \in FailedBy(r) : outcome[r] = Raised(calls[t], kind[t])
      \/ outcome[r] = "core" /\ \E t, u \in FailedBy(r) : t # u

(* A test meets the state handlers and triggers of its own run, as long as *)
(* no run was given up while its tests were still running.                 *)
TestsMeetTheirConfig ==
  (\A r \in Runs : calls[RunCall(r)] # "error") =>
    \A t \in Tests : usedConfig[t] \subseteq {t[1]}

(* "Note that any configuration errors will still fail the suite           *)
(* regardless of this setting": ContractCaseConfig 49.                     *)
ConfigurationErrorsFailTheRun ==
  \A r \in Runs :
    outcome[r] = "returned" =>
      \A t \in TestsOf(r) : ~(verdict[t] = "failure" /\ kind[t] = "configuration")
=============================================================================
