----------------------- MODULE VerificationRunProofs -----------------------
(***************************************************************************)
(* Theorems about VerificationRun, for every set of tests, every number of *)
(* runs and all kinds of failures.                                         *)
(***************************************************************************)
EXTENDS VerificationRun, TLAPS

(* Calls of tests and calls of runs are different calls.                   *)
LEMMA CallFacts ==
  /\ \A r \in 0 .. MaxRuns : RunCall(r) \in CallIds
  /\ \A r \in Runs : r \in 0 .. MaxRuns /\ r # 0
  /\ \A r, q \in 0 .. MaxRuns : RunCall(r) = RunCall(q) => r = q
  /\ \A t \in Tests : t \in CallIds /\ t[1] \in Runs
  /\ \A t \in Tests, r \in 0 .. MaxRuns : t # RunCall(r)
  /\ NoTest = RunCall(0) /\ 0 \in 0 .. MaxRuns
<1> USE TestsAssumption DEF Runs, RunCall, CallIds, NoTest
<1>1. \A t \in Tests, r \in 0 .. MaxRuns : t # RunCall(r)
  <2> SUFFICES ASSUME NEW t \in Tests, NEW r \in 0 .. MaxRuns, t = RunCall(r) PROVE FALSE
    OBVIOUS
  <2>1. t[2] = Run
    OBVIOUS
  <2> QED
    BY <2>1
<1>2. \A r, q \in 0 .. MaxRuns : RunCall(r) = RunCall(q) => r = q
  OBVIOUS
<1>3. \A r \in 0 .. MaxRuns : RunCall(r) \in CallIds
  OBVIOUS
<1> QED
  BY <1>1, <1>2, <1>3

-----------------------------------------------------------------------------
(* Type correctness is inductive.                                          *)
LEMMA TypeInit == Init => TypeOK
<1> SUFFICES ASSUME Init PROVE TypeOK
  OBVIOUS
<1> USE CallFacts, TestsAssumption DEF Init, Rpc!Init
<1>1. run \in 0 .. MaxRuns /\ config \in 0 .. MaxRuns /\ size \in Nat
  OBVIOUS
<1>2. usedConfig \in [Tests -> SUBSET (0 .. MaxRuns)]
  OBVIOUS
<1> QED
  BY <1>1, <1>2 DEF TypeOK, Rpc!Verdicts, Runs, TestStates, Thrown

LEMMA GoesType ==
  ASSUME TypeOK, NEW t \in Tests, NEW from, NEW to \in TestStates, Goes(t, from, to)
  PROVE  pc' \in [Tests -> TestStates] /\ pc'[t] = to
  BY DEF TypeOK, Goes

LEMMA CallType ==
  ASSUME TypeOK, NEW i \in CallIds, Rpc!Issue(i) \/ Rpc!Refuse(i) \/ Rpc!Return(i)
  PROVE  calls' \in [CallIds -> {"unused", "open", "error"} \cup Rpc!Verdicts]
  BY DEF TypeOK, Rpc!Issue, Rpc!Refuse, Rpc!Return, Rpc!Verdicts

(* What the core's contract says of runs and tests, in terms of the calls. *)
LEMMA ContractFacts ==
  /\ \A r \in Runs, t \in Tests : t \in Core!TestsOf(RunCall(r)) <=> t[1] = r
  /\ \A t : t \in Begun <=> t \in Tests /\ pc[t] # "absent"
  BY CallFacts DEF Core!TestsOf, CallOfRun, Begun

LEMMA CoreStartsFacts ==
  ASSUME TypeOK, NEW r \in Runs, CoreStartsTests(r)
  PROVE  /\ calls[RunCall(r)] # "unused" /\ verdict[RunCall(r)] = "none"
         /\ UNCHANGED <<userVars, at, size, first, response, calls, coreVars>>
         /\ pc' \in [Tests -> TestStates]
         /\ \A t \in Tests :
              \/ pc'[t] = pc[t]
              \/ t[1] = r /\ pc[t] = "absent" /\ pc'[t] = "started"
<1>1. \A t \in Tests : t[1] = r => pc[t] = "absent"
  BY ContractFacts DEF CoreStartsTests, Core!Start, Core!BegunOf
<1>2. PICK S \in SUBSET TestsOf(r) :
        pc' = [t \in Tests |-> IF t \in S THEN "started" ELSE pc[t]]
  BY DEF CoreStartsTests
<1>3. \A t \in S : t[1] = r
  BY DEF TestsOf
<1> QED
  BY <1>1, <1>2, <1>3 DEF CoreStartsTests, Core!Start, TypeOK, TestStates

LEMMA CoreFinishesFacts ==
  ASSUME NEW r \in Runs, CoreFinishesRun(r)
  PROVE  \A t \in Tests : t[1] = r => pc[t] = "absent" \/ verdict[t] # "none"
  BY ContractFacts DEF CoreFinishesRun, Core!Finish, Core!BegunOf

LEMMA CoreFailsFacts ==
  ASSUME NEW r \in Runs, NEW k \in Kinds, CoreFailsRun(r, k)
  PROVE  \A t \in Tests : t[1] = r => pc[t] = "absent"
  BY ContractFacts DEF CoreFailsRun, Core!Fail, Core!BegunOf

LEMMA TypeStep == TypeOK /\ [Next]_vars => TypeOK'
<1> SUFFICES ASSUME TypeOK, [Next]_vars PROVE TypeOK'
  OBVIOUS
<1> USE CallFacts, TestsAssumption
    DEF TypeOK, userVars, testVars, coreVars, Thrown, Runs, TestStates, Rpc!Verdicts
<1>1. CASE Construct \/ EndConstruct \/ Close
  <2>1. calls' \in [CallIds -> {"unused", "open", "error"} \cup Rpc!Verdicts]
    BY <1>1, CallType DEF Construct, EndConstruct, Close
  <2>2. UNCHANGED <<run, outcome, config, testVars, coreVars>>
    BY <1>1 DEF Construct, EndConstruct, Close, Rpc!Issue, Rpc!Return
  <2>3. user' \in {"beginning", "ready", "unusable", "closed"}
    BY <1>1 DEF Construct, EndConstruct, Close
  <2> QED
    BY <2>1, <2>2, <2>3
<1>2. CASE RunVerification \/ RunRefused
  <2>1. run + 1 \in 1 .. MaxRuns
    BY <1>2 DEF RunVerification, RunRefused
  <2> QED
    BY <1>2, <2>1 DEF RunVerification, RunRefused, Rpc!Issue, Rpc!Refuse
<1>3. CASE RunReturns
  <2>1. calls' \in [CallIds -> {"unused", "open", "error"} \cup Rpc!Verdicts]
    BY <1>3 DEF RunReturns, Rpc!Return
  <2>2. outcome' \in [Runs -> {"none", "returned"} \cup Thrown]
    <3>1. Raised(calls'[RunCall(run)], kind[RunCall(run)]) \in {"none"} \cup Thrown
      BY DEF Raised
    <3> QED
      BY <1>3, <3>1 DEF RunReturns
  <2> QED
    BY <1>3, <2>1, <2>2 DEF RunReturns, Rpc!Return
<1>4. CASE FindsNoFailure \/ FindsFailure
  <2>1. first \in CallIds
    OBVIOUS
  <2>2. Raised(calls[first], kind[first]) \in {"none"} \cup Thrown
    BY <2>1 DEF Raised
  <2>3. outcome' \in [Runs -> {"none", "returned"} \cup Thrown]
    BY <1>4, <2>2 DEF FindsNoFailure, FindsFailure
  <2> QED
    BY <1>4, <2>3 DEF FindsNoFailure, FindsFailure
<1>5. ASSUME NEW t \in Tests,
             TestInvokes(t) \/ TestRefused(t) \/ TestReturns(t) \/ TestThrows(t)
      PROVE  TypeOK'
  <2>1. Rpc!Issue(t) \/ Rpc!Refuse(t) \/ Rpc!Return(t)
    BY <1>5 DEF TestInvokes, TestRefused, TestReturns, TestThrows
  <2>2. calls' \in [CallIds -> {"unused", "open", "error"} \cup Rpc!Verdicts]
    BY <2>1, CallType
  <2>3. pc' \in [Tests -> TestStates]
    BY <1>5 DEF TestInvokes, TestRefused, TestReturns, TestThrows, Goes
  <2>4. UNCHANGED <<userVars, at, size, first, response, coreVars>>
    BY <1>5, <2>1 DEF TestInvokes, TestRefused, TestReturns, TestThrows, Rpc!Issue,
       Rpc!Refuse, Rpc!Return
  <2> QED
    BY <2>2, <2>3, <2>4
<1>6. ASSUME NEW t \in Tests, AddReads(t) \/ AddStores(t) \/ Responds(t)
      PROVE  TypeOK'
  <2>1. pc' \in [Tests -> TestStates]
    BY <1>6 DEF AddReads, AddStores, Responds, Goes
  <2>2. at' \in [Tests -> Nat] /\ size' \in Nat
    <3>1. CASE AddReads(t)
      BY <3>1 DEF AddReads
    <3>2. CASE AddStores(t)
      BY <3>2 DEF AddStores
    <3>3. CASE Responds(t)
      BY <3>3 DEF Responds
    <3> QED
      BY <1>6, <3>1, <3>2, <3>3
  <2>3. first' \in Tests \cup {NoTest}
    BY <1>6 DEF AddReads, AddStores, Responds
  <2>4. response' \in [Tests -> {"none", "success", "failure"}]
    BY <1>6 DEF AddReads, AddStores, Responds
  <2>5. UNCHANGED <<userVars, calls, coreVars>>
    BY <1>6 DEF AddReads, AddStores, Responds
  <2> QED
    BY <2>1, <2>2, <2>3, <2>4, <2>5
<1>7. ASSUME NEW v \in Rpc!Verdicts, CoreBegins(v) PROVE TypeOK'
  BY <1>7 DEF CoreBegins, Rpc!Decide
<1>8. ASSUME NEW r \in Runs, CoreStartsTests(r) \/ CoreFinishesRun(r) PROVE TypeOK'
  <2>1. CASE CoreStartsTests(r)
    BY <2>1, CoreStartsFacts
  <2>2. CASE CoreFinishesRun(r)
    BY <2>2 DEF CoreFinishesRun, Rpc!Decide
  <2> QED
    BY <1>8, <2>1, <2>2
<1>9. ASSUME NEW r \in Runs, NEW k \in Kinds, CoreFailsRun(r, k) PROVE TypeOK'
  BY <1>9 DEF CoreFailsRun, Rpc!Decide
<1>10. ASSUME NEW t \in Tests, NEW v \in Rpc!Verdicts, NEW k \in {"none"} \cup Kinds,
              CoreDecidesTest(t, v, k)
       PROVE  TypeOK'
  <2>1. verdict' \in [CallIds -> {"none"} \cup Rpc!Verdicts]
    BY <1>10 DEF CoreDecidesTest, Rpc!Decide
  <2>2. kind' \in [CallIds -> {"none"} \cup Kinds]
    BY <1>10 DEF CoreDecidesTest
  <2>3. usedConfig' \in [Tests -> SUBSET (0 .. MaxRuns)]
    BY <1>10 DEF CoreDecidesTest
  <2>4. UNCHANGED <<userVars, testVars, broken, calls>>
    BY <1>10 DEF CoreDecidesTest, Rpc!Decide
  <2> QED
    BY <2>1, <2>2, <2>3, <2>4
<1>11. CASE ConnectionBreaks \/ UNCHANGED vars
  BY <1>11 DEF ConnectionBreaks, vars
<1>12. CASE UserStep
  BY <1>12, <1>1, <1>2, <1>3, <1>4 DEF UserStep
<1>13. CASE \E t \in Tests : TestStep(t)
  BY <1>13, <1>5, <1>6 DEF TestStep
<1>14. CASE CoreStep
  BY <1>14, <1>7, <1>8, <1>9, <1>10, <1>11 DEF CoreStep
<1> QED
  BY <1>11, <1>12, <1>13, <1>14 DEF Next

(* Every variable keeps its type.                                          *)
THEOREM TypeCorrect == Spec => []TypeOK
  BY TypeInit, TypeStep, PTL DEF Spec

-----------------------------------------------------------------------------
(* What the steps of the three kinds of actors leave alone.                *)
LEMMA UserFrame ==
  ASSUME TypeOK, UserStep
  PROVE  /\ UNCHANGED <<testVars, coreVars>>
         /\ \A t \in Tests : calls'[t] = calls[t]
<1> USE CallFacts DEF TypeOK, testVars, coreVars, Rpc!Issue, Rpc!Return, Rpc!Refuse
<1>1. CASE Construct \/ EndConstruct
  BY <1>1 DEF Construct, EndConstruct
<1>2. CASE RunVerification \/ RunRefused
  <2>1. run + 1 \in 0 .. MaxRuns
    BY <1>2, TestsAssumption DEF RunVerification, RunRefused
  <2> QED
    BY <1>2, <2>1 DEF RunVerification, RunRefused
<1>3. CASE RunReturns
  BY <1>3 DEF RunReturns
<1>4. CASE FindsNoFailure \/ FindsFailure \/ Close
  BY <1>4 DEF FindsNoFailure, FindsFailure, Close
<1> QED
  BY <1>1, <1>2, <1>3, <1>4 DEF UserStep

LEMMA TestFrame ==
  ASSUME TypeOK, NEW t \in Tests, TestStep(t)
  PROVE  /\ UNCHANGED <<userVars, coreVars>>
         /\ \A i \in CallIds \ {t} : calls'[i] = calls[i]
         /\ calls'[t] # calls[t] => calls[t] \in {"unused", "open"}
         /\ calls'[t] \in {"open", "error"} \/ calls'[t] = calls[t] \/ calls'[t] = verdict[t]
         /\ \A s \in Tests \ {t} : pc'[s] = pc[s]
<1> USE CallFacts DEF TypeOK, userVars, coreVars, Rpc!Issue, Rpc!Return, Rpc!Refuse, Goes
<1>1. CASE TestInvokes(t) \/ TestRefused(t)
  BY <1>1 DEF TestInvokes, TestRefused
<1>2. CASE TestReturns(t)
  BY <1>2 DEF TestReturns
<1>3. CASE TestThrows(t)
  BY <1>3 DEF TestThrows
<1>4. CASE AddReads(t) \/ AddStores(t) \/ Responds(t)
  BY <1>4 DEF AddReads, AddStores, Responds
<1> QED
  BY <1>1, <1>2, <1>3, <1>4 DEF TestStep

LEMMA CoreFrame ==
  ASSUME TypeOK, CoreStep
  PROVE  /\ UNCHANGED <<userVars, at, size, first, response, calls>>
         /\ \/ pc' = pc
            \/ /\ UNCHANGED coreVars
               /\ \E r \in Runs : CoreStartsTests(r)
<1> USE DEF userVars, testVars, coreVars, Rpc!Decide
<1>1. ASSUME NEW v \in Rpc!Verdicts, CoreBegins(v)
      PROVE  UNCHANGED <<userVars, testVars, calls>>
  BY <1>1 DEF CoreBegins
<1>2. ASSUME NEW r \in Runs, CoreFinishesRun(r)
      PROVE  UNCHANGED <<userVars, testVars, calls>>
  BY <1>2 DEF CoreFinishesRun
<1>3. ASSUME NEW r \in Runs, CoreStartsTests(r)
      PROVE  UNCHANGED <<userVars, at, size, first, response, calls, coreVars>>
  BY <1>3 DEF CoreStartsTests
<1>4. ASSUME NEW r \in Runs, NEW k \in Kinds, CoreFailsRun(r, k)
      PROVE  UNCHANGED <<userVars, testVars, calls>>
  BY <1>4 DEF CoreFailsRun
<1>5. ASSUME NEW t \in Tests, NEW v \in Rpc!Verdicts, NEW k \in {"none"} \cup Kinds,
             CoreDecidesTest(t, v, k)
      PROVE  UNCHANGED <<userVars, testVars, calls>>
  BY <1>5 DEF CoreDecidesTest
<1>6. CASE ConnectionBreaks
  BY <1>6 DEF ConnectionBreaks
<1> QED
  BY <1>1, <1>2, <1>3, <1>4, <1>5, <1>6 DEF CoreStep

-----------------------------------------------------------------------------
(* The pool thread of a test and its call: a test is not invoked before it *)
(* was started, and what goes into the list is a failure.                  *)
TestsFollowTheirCalls ==
  \A t \in Tests :
    /\ pc[t] \in {"absent", "started"} => calls[t] = "unused"
    /\ pc[t] = "invoking" => calls[t] = "open"
    /\ pc[t] = "responding" => calls[t] \in {"success", "error"}
    /\ pc[t] \in {"adding", "storing", "recorded"} => calls[t] \in {"failure", "error"}
    /\ pc[t] = "finished" => calls[t] \in {"success", "failure", "error"}

LEMMA TestsFollowTheirCallsStep ==
  TypeOK /\ TestsFollowTheirCalls /\ [Next]_vars => TestsFollowTheirCalls'
<1> SUFFICES ASSUME TypeOK, TestsFollowTheirCalls, [Next]_vars PROVE TestsFollowTheirCalls'
  OBVIOUS
<1> USE DEF TestsFollowTheirCalls
<1>1. CASE UserStep
  BY <1>1, UserFrame DEF testVars
<1>2. ASSUME NEW t \in Tests, TestStep(t)
      PROVE  TestsFollowTheirCalls'
  <2> DEFINE Follows ==
        /\ pc'[t] \in {"absent", "started"} => calls'[t] = "unused"
        /\ pc'[t] = "invoking" => calls'[t] = "open"
        /\ pc'[t] = "responding" => calls'[t] \in {"success", "error"}
        /\ pc'[t] \in {"adding", "storing", "recorded"} => calls'[t] \in {"failure", "error"}
        /\ pc'[t] = "finished" => calls'[t] \in {"success", "failure", "error"}
  <2> USE CallFacts DEF TypeOK, Goes, Rpc!Verdicts
  <2>1. CASE TestInvokes(t) \/ TestRefused(t)
    <3>1. Follows
      BY <2>1 DEF TestInvokes, TestRefused, Rpc!Issue, Rpc!Refuse
    <3> QED
      BY <3>1, <1>2, TestFrame
  <2>2. CASE TestReturns(t)
    <3>1. calls'[t] \in {"success", "failure", "error"}
      BY <2>2 DEF TestReturns, Rpc!Return
    <3>2. pc'[t] = IF calls'[t] = "success" THEN "responding" ELSE "adding"
      BY <2>2 DEF TestReturns
    <3>3. Follows
      BY <3>1, <3>2
    <3> QED
      BY <3>3, <1>2, TestFrame
  <2>3. CASE TestThrows(t)
    <3>1. Follows
      BY <2>3 DEF TestThrows
    <3> QED
      BY <3>1, <1>2, TestFrame
  <2>4. CASE AddReads(t) \/ AddStores(t)
    <3>1. Follows
      BY <2>4 DEF AddReads, AddStores
    <3> QED
      BY <3>1, <1>2, TestFrame
  <2>5. CASE Responds(t)
    <3>1. Follows
      BY <2>5 DEF Responds
    <3> QED
      BY <3>1, <1>2, TestFrame
  <2> QED
    BY <1>2, <2>1, <2>2, <2>3, <2>4, <2>5 DEF TestStep
<1>3. CASE CoreStep
  <2>1. CASE pc' = pc
    BY <2>1, <1>3, CoreFrame
  <2>2. ASSUME NEW r \in Runs, CoreStartsTests(r)
        PROVE  TestsFollowTheirCalls'
    <3>1. \A t \in Tests : pc'[t] = pc[t] \/ (pc[t] = "absent" /\ pc'[t] = "started")
      BY <2>2, CoreStartsFacts
    <3> QED
      BY <3>1, <1>3, CoreFrame
  <2> QED
    BY <1>3, <2>1, <2>2, CoreFrame
<1>4. CASE UNCHANGED vars
  BY <1>4 DEF vars, testVars
<1> QED
  BY <1>1, <1>2, <1>3, <1>4 DEF Next

(* The tests of a run are started only after the run was asked for, and    *)
(* runs are asked for in their order.                                      *)
TestsFollowTheirRuns ==
  /\ \A t \in Tests : pc[t] # "absent" => calls[RunCall(t[1])] # "unused"
  /\ \A r \in Runs : calls[RunCall(r)] # "unused" => r <= run

(* The user's thread and the call of the run it is in; the overrides of    *)
(* the run are those of the configuration.                                 *)
UserFollowsTheRun ==
  /\ config = run
  /\ user = "waiting" => run \in Runs
  /\ user = "checking" => run \in Runs /\ calls[RunCall(run)] = "success"
  /\ \A r \in Runs : calls[RunCall(r)] = "open" => user = "waiting" /\ r = run
  /\ \A r \in Runs : calls[RunCall(r)] \in {"unused", "open"} => outcome[r] = "none"

(* How the calls of runs change.                                           *)
LEMMA RunCallsFrame ==
  ASSUME TypeOK, (\E t \in Tests : TestStep(t)) \/ CoreStep \/ UNCHANGED vars
  PROVE  \A r \in 0 .. MaxRuns : calls'[RunCall(r)] = calls[RunCall(r)]
<1>1. ASSUME NEW t \in Tests, TestStep(t)
      PROVE  \A r \in 0 .. MaxRuns : calls'[RunCall(r)] = calls[RunCall(r)]
  BY <1>1, TestFrame, CallFacts
<1> QED
  BY <1>1, CoreFrame DEF vars

LEMMA UserFollowsTheRunStep ==
  TypeOK /\ TestsFollowTheirRuns /\ UserFollowsTheRun /\ [Next]_vars => UserFollowsTheRun'
<1> SUFFICES ASSUME TypeOK, TestsFollowTheirRuns, UserFollowsTheRun, [Next]_vars
             PROVE  UserFollowsTheRun'
  OBVIOUS
<1> USE CallFacts DEF UserFollowsTheRun, TestsFollowTheirRuns
<1>1. CASE Construct \/ EndConstruct
  <2>1. \A r \in Runs : calls'[RunCall(r)] = calls[RunCall(r)]
    BY <1>1 DEF TypeOK, Construct, EndConstruct, Rpc!Issue, Rpc!Return
  <2>2. UNCHANGED <<run, outcome, config>> /\ user \in {"new", "beginning"}
    BY <1>1 DEF Construct, EndConstruct
  <2>3. user' \in {"beginning", "ready", "unusable"}
    BY <1>1 DEF Construct, EndConstruct
  <2> QED
    BY <2>1, <2>2, <2>3
<1>2. CASE RunVerification
  <2>1. run + 1 \in Runs /\ run + 1 \in 0 .. MaxRuns
    BY <1>2, TestsAssumption DEF TypeOK, RunVerification, Runs
  <2>2. \A r \in Runs : r # run + 1 => calls'[RunCall(r)] = calls[RunCall(r)]
    BY <1>2, <2>1 DEF TypeOK, RunVerification, Rpc!Issue
  <2>3. calls[RunCall(run + 1)] = "unused"
    BY <1>2 DEF RunVerification, Rpc!Issue
  <2>4. /\ run' = run + 1 /\ config' = run + 1
        /\ user = "ready" /\ user' = "waiting" /\ outcome' = outcome
    BY <1>2 DEF RunVerification
  <2> QED
    BY <2>1, <2>2, <2>3, <2>4
<1>3. CASE RunRefused
  <2>1. run + 1 \in Runs /\ run + 1 \in 0 .. MaxRuns
    BY <1>3, TestsAssumption DEF TypeOK, RunRefused, Runs
  <2>2. \A r \in Runs : r # run + 1 => calls'[RunCall(r)] = calls[RunCall(r)]
    BY <1>3, <2>1 DEF TypeOK, RunRefused, Rpc!Refuse
  <2>3. calls'[RunCall(run + 1)] = "error"
    BY <1>3, <2>1 DEF TypeOK, RunRefused, Rpc!Refuse
  <2>4. \A r \in Runs : r # run + 1 => outcome'[r] = outcome[r]
    BY <1>3 DEF TypeOK, RunRefused
  <2>5. run' = run + 1 /\ config' = run + 1 /\ user = "ready" /\ user' = user
    BY <1>3 DEF RunRefused
  <2> QED
    BY <2>1, <2>2, <2>3, <2>4, <2>5
<1>4. CASE RunReturns
  <2>1. run \in Runs
    BY <1>4 DEF RunReturns
  <2>2. \A r \in Runs : r # run => calls'[RunCall(r)] = calls[RunCall(r)]
    BY <1>4, <2>1 DEF TypeOK, RunReturns, Rpc!Return
  <2>3. calls'[RunCall(run)] \in {"success", "failure", "error"}
    BY <1>4, <2>1 DEF TypeOK, RunReturns, Rpc!Return, Rpc!Verdicts
  <2>4. \A r \in Runs : r # run => outcome'[r] = outcome[r]
    BY <1>4 DEF TypeOK, RunReturns
  <2>5. /\ UNCHANGED <<run, config>>
        /\ user' = "ready" \/ (user' = "checking" /\ calls'[RunCall(run)] = "success")
    BY <1>4 DEF RunReturns
  <2> QED
    BY <2>1, <2>2, <2>3, <2>4, <2>5
<1>5. CASE FindsNoFailure \/ FindsFailure \/ Close
  <2>1. UNCHANGED <<run, config, calls>> /\ user' \in {"ready", "closed"} /\ user # "waiting"
    BY <1>5 DEF FindsNoFailure, FindsFailure, Close
  <2>2. CASE Close
    BY <2>1, <2>2 DEF Close
  <2>3. CASE user = "checking"
    <3>1. \A r \in Runs : r # run => outcome'[r] = outcome[r]
      BY <1>5 DEF TypeOK, FindsNoFailure, FindsFailure, Close
    <3> QED
      BY <2>1, <2>3, <3>1
  <2> QED
    BY <1>5, <2>2, <2>3 DEF FindsNoFailure, FindsFailure
<1>6. CASE (\E t \in Tests : TestStep(t)) \/ CoreStep \/ UNCHANGED vars
  <2>1. \A r \in Runs : calls'[RunCall(r)] = calls[RunCall(r)]
    BY <1>6, RunCallsFrame
  <2>2. UNCHANGED userVars
    BY <1>6, TestFrame, CoreFrame DEF vars
  <2>3. UNCHANGED <<user, run, outcome, config>>
    BY <2>2 DEF userVars
  <2> QED
    BY <2>1, <2>3, CallFacts
<1> QED
  BY <1>1, <1>2, <1>3, <1>4, <1>5, <1>6 DEF Next, UserStep

(* A call that was made is never again one that was not, and what a call   *)
(* returned stays what it returned.                                        *)
LEMMA CallsAreKept ==
  TypeOK /\ UserFollowsTheRun /\ [Next]_vars =>
    \A i \in CallIds :
      \/ calls'[i] = calls[i]
      \/ calls[i] \in {"unused", "open"} /\ calls'[i] \in {"open", "error"}
      \/ calls[i] = "open" /\ calls'[i] \in {verdict[i], "error"} \ {"none"}
<1> SUFFICES ASSUME TypeOK, UserFollowsTheRun, [Next]_vars, NEW i \in CallIds
             PROVE  \/ calls'[i] = calls[i]
                    \/ calls[i] \in {"unused", "open"} /\ calls'[i] \in {"open", "error"}
                    \/ calls[i] = "open" /\ calls'[i] \in {verdict[i], "error"} \ {"none"}
  OBVIOUS
<1>1. ASSUME NEW j \in CallIds, Rpc!Issue(j) \/ Rpc!Refuse(j) \/ Rpc!Return(j)
      PROVE  \/ calls'[i] = calls[i]
             \/ calls[i] \in {"unused", "open"} /\ calls'[i] \in {"open", "error"}
             \/ calls[i] = "open" /\ calls'[i] \in {verdict[i], "error"} \ {"none"}
  BY <1>1 DEF TypeOK, Rpc!Issue, Rpc!Refuse, Rpc!Return
<1> USE CallFacts
<1>2. CASE Construct \/ EndConstruct
  BY <1>2, <1>1 DEF Construct, EndConstruct
<1>3. CASE RunVerification \/ RunRefused
  <2>1. run + 1 \in 0 .. MaxRuns
    BY <1>3, TestsAssumption DEF TypeOK, RunVerification, RunRefused
  <2> QED
    BY <1>3, <1>1, <2>1 DEF RunVerification, RunRefused
<1>4. CASE RunReturns
  BY <1>4, <1>1 DEF TypeOK, RunReturns
<1>5. CASE FindsNoFailure \/ FindsFailure \/ Close
  BY <1>5 DEF FindsNoFailure, FindsFailure, Close
<1>6. ASSUME NEW t \in Tests, TestInvokes(t) \/ TestRefused(t) \/ TestReturns(t) \/ TestThrows(t)
      PROVE  \/ calls'[i] = calls[i]
             \/ calls[i] \in {"unused", "open"} /\ calls'[i] \in {"open", "error"}
             \/ calls[i] = "open" /\ calls'[i] \in {verdict[i], "error"} \ {"none"}
  BY <1>6, <1>1 DEF TestInvokes, TestRefused, TestReturns, TestThrows
<1>7. ASSUME NEW t \in Tests, AddReads(t) \/ AddStores(t) \/ Responds(t)
      PROVE  calls'[i] = calls[i]
  BY <1>7 DEF AddReads, AddStores, Responds
<1>8. CASE CoreStep \/ UNCHANGED vars
  BY <1>8, CoreFrame DEF vars
<1> QED
  BY <1>2, <1>3, <1>4, <1>5, <1>6, <1>7, <1>8 DEF Next, UserStep, TestStep

LEMMA TestsFollowTheirRunsStep ==
  TypeOK /\ TestsFollowTheirRuns /\ TestsFollowTheirCalls /\ UserFollowsTheRun /\ [Next]_vars
    => TestsFollowTheirRuns'
<1> SUFFICES ASSUME TypeOK, TestsFollowTheirRuns, TestsFollowTheirCalls, UserFollowsTheRun,
                    [Next]_vars
             PROVE  TestsFollowTheirRuns'
  OBVIOUS
<1> USE CallFacts DEF TestsFollowTheirRuns
<1>1. \A r \in Runs : calls'[RunCall(r)] = "unused" => calls[RunCall(r)] = "unused"
  BY CallsAreKept DEF TypeOK, Rpc!Verdicts
<1>2. CASE UserStep
  <2>1. pc' = pc
    BY <1>2, UserFrame DEF testVars
  <2>2. \A r \in Runs : calls'[RunCall(r)] # "unused" => r <= run'
    <3>1. CASE RunVerification \/ RunRefused
      <4>1. run + 1 \in Runs /\ run' = run + 1
        BY <3>1, TestsAssumption DEF TypeOK, RunVerification, RunRefused, Runs
      <4>2. \A r \in Runs : r # run + 1 => calls'[RunCall(r)] = calls[RunCall(r)]
        BY <3>1, <4>1 DEF TypeOK, RunVerification, RunRefused, Rpc!Issue, Rpc!Refuse
      <4> QED
        BY <4>1, <4>2 DEF TypeOK, Runs
    <3>2. CASE Construct \/ EndConstruct
      <4>1. run' = run /\ \A r \in Runs : calls'[RunCall(r)] = calls[RunCall(r)]
        BY <3>2 DEF TypeOK, Construct, EndConstruct, Rpc!Issue, Rpc!Return
      <4> QED
        BY <4>1
    <3>3. CASE RunReturns
      <4>1. run' = run /\ run \in Runs
        BY <3>3 DEF RunReturns, UserFollowsTheRun
      <4>2. \A r \in Runs : r # run => calls'[RunCall(r)] = calls[RunCall(r)]
        BY <3>3, <4>1 DEF TypeOK, RunReturns, Rpc!Return
      <4> QED
        BY <4>1, <4>2 DEF Runs
    <3>4. CASE FindsNoFailure \/ FindsFailure \/ Close
      BY <3>4 DEF FindsNoFailure, FindsFailure, Close
    <3> QED
      BY <1>2, <3>1, <3>2, <3>3, <3>4 DEF UserStep
  <2> QED
    BY <1>1, <2>1, <2>2
<1>3. ASSUME NEW t \in Tests, TestStep(t)
      PROVE  TestsFollowTheirRuns'
  <2>1. pc'[t] # "absent" => pc[t] # "absent"
    BY <1>3 DEF TypeOK, TestStep, TestInvokes, TestRefused, TestReturns, TestThrows,
       AddReads, AddStores, Responds, Goes
  <2>2. run' = run
    BY <1>3, TestFrame DEF userVars
  <2>3. \A r \in Runs : calls'[RunCall(r)] = calls[RunCall(r)]
    BY <1>3, RunCallsFrame
  <2> QED
    BY <1>1, <1>3, <2>1, <2>2, <2>3, TestFrame
<1>4. CASE CoreStep
  <2>1. UNCHANGED <<run, calls>>
    BY <1>4, CoreFrame DEF userVars
  <2>2. ASSUME NEW r \in Runs, CoreStartsTests(r)
        PROVE  TestsFollowTheirRuns'
    <3>1. calls[RunCall(r)] # "unused"
      BY <2>2, CoreStartsFacts
    <3>2. \A t \in Tests : pc'[t] = pc[t] \/ t[1] = r
      BY <2>2, CoreStartsFacts
    <3> QED
      BY <2>1, <3>1, <3>2
  <2> QED
    BY <1>4, <2>1, <2>2, CoreFrame
<1>5. CASE UNCHANGED vars
  BY <1>5 DEF vars, userVars, testVars
<1> QED
  BY <1>2, <1>3, <1>4, <1>5 DEF Next

-----------------------------------------------------------------------------
(* The list: it has an entry only if its first place is taken by a failure,*)
(* and whoever has read a size that is not zero has seen one there.        *)
ListHoldsFailures ==
  /\ size > 0 => first # NoTest
  /\ first # NoTest => calls[first] \in {"failure", "error"}
                         /\ pc[first] \in {"recorded", "finished"}
  /\ \A t \in Tests : pc[t] = "storing" /\ at[t] > 0 => first # NoTest
  /\ \A t \in Tests : Recorded(t) => size > 0

LEMMA ListStep ==
  TypeOK /\ TestsFollowTheirCalls /\ UserFollowsTheRun /\ ListHoldsFailures /\ [Next]_vars
    => ListHoldsFailures'
<1> SUFFICES ASSUME TypeOK, TestsFollowTheirCalls, UserFollowsTheRun, ListHoldsFailures,
                    [Next]_vars
             PROVE  ListHoldsFailures'
  OBVIOUS
<1> USE CallFacts DEF ListHoldsFailures
<1>1. \A i \in CallIds : calls[i] \in {"failure", "error"} => calls'[i] = calls[i]
  BY CallsAreKept
<1>2. first \in CallIds
  BY DEF TypeOK
<1>3. CASE UserStep
  <2>1. UNCHANGED <<pc, at, size, first>> /\ \A t \in Tests : calls'[t] = calls[t]
    BY <1>3, UserFrame DEF testVars
  <2> QED
    BY <1>1, <1>2, <2>1 DEF Recorded
<1>4. ASSUME NEW t \in Tests, TestInvokes(t) \/ TestRefused(t) \/ TestReturns(t) \/ TestThrows(t)
      PROVE  ListHoldsFailures'
  <2>1. UNCHANGED <<at, size, first>>
    BY <1>4 DEF TestInvokes, TestRefused, TestReturns, TestThrows
  <2>2. pc'[t] \in {"invoking", "adding", "responding"}
    BY <1>4 DEF TypeOK, TestInvokes, TestRefused, TestReturns, TestThrows, Goes
  <2>3. \A s \in Tests \ {t} : pc'[s] = pc[s] /\ calls'[s] = calls[s]
    BY <1>4, TestFrame DEF TestStep
  <2>4. pc[t] \in {"started", "invoking"} /\ (first # NoTest => first \in Tests \ {t})
    BY <1>4 DEF TypeOK, TestInvokes, TestRefused, TestReturns, TestThrows, Goes
  <2> QED
    BY <1>1, <1>2, <2>1, <2>2, <2>3, <2>4 DEF Recorded
<1>5. ASSUME NEW t \in Tests, AddReads(t)
      PROVE  ListHoldsFailures'
  <2>1. UNCHANGED <<size, first, calls>>
    BY <1>5 DEF AddReads
  <2>2. pc'[t] = "storing" /\ at'[t] = size
    BY <1>5 DEF TypeOK, AddReads, Goes
  <2>3. \A s \in Tests \ {t} : pc'[s] = pc[s] /\ at'[s] = at[s]
    BY <1>5 DEF TypeOK, AddReads, Goes
  <2>4. first # NoTest => first \in Tests \ {t}
    BY <1>5 DEF TypeOK, AddReads, Goes
  <2> QED
    BY <2>1, <2>2, <2>3, <2>4 DEF Recorded
<1>6. ASSUME NEW t \in Tests, AddStores(t)
      PROVE  ListHoldsFailures'
  <2>1. size' > 0 /\ calls' = calls
    BY <1>6 DEF TypeOK, AddStores
  <2>2. pc[t] = "storing" /\ pc'[t] = "recorded"
    BY <1>6 DEF TypeOK, AddStores, Goes
  <2>3. first' # NoTest /\ first' \in {t, first}
    <3>1. CASE at[t] > 0
      BY <1>6, <2>2, <3>1 DEF AddStores
    <3>2. CASE ~(at[t] > 0)
      BY <1>6, <3>2 DEF AddStores
    <3> QED
      BY <3>1, <3>2
  <2>4. calls[t] \in {"failure", "error"}
    BY <2>2 DEF TestsFollowTheirCalls
  <2>5. \A s \in Tests \ {t} : pc'[s] = pc[s] /\ at'[s] = at[s]
    BY <1>6 DEF TypeOK, AddStores, Goes
  <2>6. pc'[first'] \in {"recorded", "finished"}
    BY <2>2, <2>3, <2>5 DEF TypeOK
  <2> QED
    BY <2>1, <2>2, <2>3, <2>4, <2>5, <2>6
<1>7. ASSUME NEW t \in Tests, Responds(t)
      PROVE  ListHoldsFailures'
  <2>1. UNCHANGED <<at, size, first, calls>>
    BY <1>7 DEF Responds
  <2>2. pc'[t] = "finished" /\ pc[t] \in {"responding", "recorded"}
    BY <1>7 DEF TypeOK, Responds, Goes
  <2>3. \A s \in Tests \ {t} : pc'[s] = pc[s]
    BY <1>7 DEF TypeOK, Responds, Goes
  <2>4. Recorded(t)' => Recorded(t)
    BY <2>1, <2>2 DEF TestsFollowTheirCalls, Recorded
  <2>5. first # NoTest => first = t \/ first \in Tests \ {t}
    BY DEF TypeOK
  <2> QED
    BY <2>1, <2>2, <2>3, <2>4, <2>5 DEF Recorded
<1>8. CASE CoreStep
  <2>1. UNCHANGED <<at, size, first, calls>>
    BY <1>8, CoreFrame
  <2>2. \A t \in Tests : pc'[t] = pc[t] \/ pc'[t] = "started"
    <3>1. ASSUME NEW r \in Runs, CoreStartsTests(r)
          PROVE  \A t \in Tests : pc'[t] = pc[t] \/ pc'[t] = "started"
      BY <3>1 DEF CoreStartsTests
    <3> QED
      BY <1>8, <3>1, CoreFrame
  <2>3. first # NoTest => first \in Tests /\ pc'[first] = pc[first]
    <3>1. ASSUME NEW r \in Runs, CoreStartsTests(r), NEW t \in Tests, pc'[t] # pc[t]
          PROVE  pc[t] = "absent"
      BY <3>1, CoreStartsFacts
    <3> QED
      BY <1>8, <3>1, CoreFrame DEF TypeOK
  <2> QED
    BY <2>1, <2>2, <2>3 DEF Recorded
<1>9. CASE UNCHANGED vars
  BY <1>9 DEF vars, testVars, Recorded
<1> QED
  BY <1>3, <1>4, <1>5, <1>6, <1>7, <1>8, <1>9 DEF Next, TestStep

-----------------------------------------------------------------------------
(* What the core decided, what the calls return of it, and what it had     *)
(* decided before: the tests of a run before the run itself.               *)
VerdictsAreInOrder ==
  /\ \A i \in CallIds : calls[i] \in Rpc!Verdicts => calls[i] = verdict[i]
  /\ \A t \in Tests :
       pc[t] # "absent" /\ verdict[t] = "none" => verdict[RunCall(t[1])] = "none"

LEMMA VerdictsStep ==
  TypeOK /\ TestsFollowTheirCalls /\ UserFollowsTheRun /\ VerdictsAreInOrder /\ [Next]_vars
    => VerdictsAreInOrder'
<1> SUFFICES ASSUME TypeOK, TestsFollowTheirCalls, UserFollowsTheRun, VerdictsAreInOrder,
                    [Next]_vars
             PROVE  VerdictsAreInOrder'
  OBVIOUS
<1> USE CallFacts DEF VerdictsAreInOrder
<1>1. CASE verdict' = verdict /\ \A t \in Tests : pc'[t] # "absent" => pc[t] # "absent"
  <2>1. ASSUME NEW i \in CallIds, calls'[i] \in Rpc!Verdicts
        PROVE  calls'[i] = verdict'[i]
    BY <1>1, <2>1, CallsAreKept DEF Rpc!Verdicts
  <2> QED
    BY <1>1, <2>1
<1>2. CASE calls' = calls /\ pc' = pc
  <2> DEFINE Decides(i) ==
        /\ verdict[i] = "none"
        /\ \E v \in Rpc!Verdicts : verdict' = [verdict EXCEPT ![i] = v]
  <2>1. ASSUME NEW r \in 0 .. MaxRuns, Decides(RunCall(r)),
               r \in Runs => \A t \in Tests : t[1] = r => pc[t] = "absent" \/ verdict[t] # "none"
        PROVE  VerdictsAreInOrder'
    <3>1. \A i \in CallIds : i # RunCall(r) => verdict'[i] = verdict[i]
      BY <2>1 DEF TypeOK
    <3>2. \A i \in CallIds : verdict[i] # "none" => verdict'[i] = verdict[i]
      BY <2>1 DEF TypeOK
    <3>3. \A t \in Tests : t[1] # r => verdict'[RunCall(t[1])] = verdict[RunCall(t[1])]
      BY <3>1
    <3>4. \A i \in CallIds : calls[i] \in Rpc!Verdicts => verdict[i] # "none"
      BY DEF Rpc!Verdicts
    <3>5. \A t \in Tests : verdict'[t] = verdict[t]
      BY <3>1
    <3> QED
      BY <1>2, <2>1, <3>2, <3>3, <3>4, <3>5
  <2>2. ASSUME NEW t \in Tests, Decides(t)
        PROVE  VerdictsAreInOrder'
    <3>1. \A i \in CallIds : i # t => verdict'[i] = verdict[i]
      BY <2>2 DEF TypeOK
    <3>2. \A i \in CallIds : verdict[i] # "none" => verdict'[i] = verdict[i]
      BY <2>2 DEF TypeOK
    <3>3. \A i \in CallIds : calls[i] \in Rpc!Verdicts => verdict[i] # "none"
      BY DEF Rpc!Verdicts
    <3>4. verdict'[t] # "none"
      BY <2>2 DEF TypeOK, Rpc!Verdicts
    <3>5. \A s \in Tests : verdict'[RunCall(s[1])] = verdict[RunCall(s[1])]
      BY <3>1
    <3> QED
      BY <1>2, <3>1, <3>2, <3>3, <3>4, <3>5
  <2>3. ASSUME NEW v \in Rpc!Verdicts, CoreBegins(v)
        PROVE  VerdictsAreInOrder'
    <3>1. Decides(RunCall(0))
      BY <2>3 DEF CoreBegins, Rpc!Decide
    <3> QED
      BY <2>1, <3>1
  <2>4. ASSUME NEW r \in Runs, CoreFinishesRun(r)
        PROVE  VerdictsAreInOrder'
    <3>1. Decides(RunCall(r))
      BY <2>4 DEF CoreFinishesRun, Rpc!Decide, Rpc!Verdicts
    <3>2. \A t \in Tests : t[1] = r => pc[t] = "absent" \/ verdict[t] # "none"
      BY <2>4, CoreFinishesFacts
    <3> QED
      BY <2>1, <3>1, <3>2
  <2>5. ASSUME NEW r \in Runs, NEW k \in Kinds, CoreFailsRun(r, k)
        PROVE  VerdictsAreInOrder'
    <3>1. Decides(RunCall(r))
      BY <2>5 DEF CoreFailsRun, Rpc!Decide, Rpc!Verdicts
    <3>2. \A t \in Tests : t[1] = r => pc[t] = "absent"
      BY <2>5, CoreFailsFacts
    <3> QED
      BY <2>1, <3>1, <3>2
  <2>6. ASSUME NEW t \in Tests, NEW v \in Rpc!Verdicts, NEW k \in {"none"} \cup Kinds,
               CoreDecidesTest(t, v, k)
        PROVE  VerdictsAreInOrder'
    <3>1. Decides(t)
      BY <2>6 DEF CoreDecidesTest, Rpc!Decide
    <3> QED
      BY <2>2, <3>1
  <2>7. CASE verdict' = verdict
    BY <1>1, <1>2, <2>7
  <2>8. CASE CoreStep
    <3>1. ASSUME NEW r \in Runs, CoreStartsTests(r) PROVE verdict' = verdict
      BY <3>1 DEF CoreStartsTests, coreVars
    <3>2. ConnectionBreaks => verdict' = verdict
      BY DEF ConnectionBreaks
    <3> QED
      BY <2>8, <2>3, <2>4, <2>5, <2>6, <2>7, <3>1, <3>2 DEF CoreStep
  <2>9. CASE UserStep \/ (\E t \in Tests : TestStep(t)) \/ UNCHANGED vars
    <3>1. verdict' = verdict
      BY <2>9, UserFrame, TestFrame DEF coreVars, vars
    <3> QED
      BY <3>1, <2>7
  <2> QED
    BY <2>8, <2>9 DEF Next
<1>3. ASSUME NEW r \in Runs, CoreStartsTests(r)
      PROVE  VerdictsAreInOrder'
  <2>1. verdict' = verdict /\ calls' = calls
    BY <1>3 DEF CoreStartsTests, coreVars
  <2>2. verdict[RunCall(r)] = "none"
    BY <1>3, CoreStartsFacts
  <2>3. \A t \in Tests : pc'[t] = pc[t] \/ t[1] = r
    BY <1>3, CoreStartsFacts
  <2> QED
    BY <2>1, <2>2, <2>3
<1>4. CASE CoreStep
  BY <1>4, <1>2, <1>3, CoreFrame
<1>5. CASE UserStep \/ UNCHANGED vars
  <2>1. verdict' = verdict /\ pc' = pc
    BY <1>5, UserFrame DEF coreVars, testVars, vars
  <2> QED
    BY <1>1, <2>1
<1>6. ASSUME NEW t \in Tests, TestStep(t)
      PROVE  VerdictsAreInOrder'
  <2>1. pc'[t] # "absent" => pc[t] # "absent"
    BY <1>6 DEF TypeOK, TestStep, TestInvokes, TestRefused, TestReturns, TestThrows,
       AddReads, AddStores, Responds, Goes
  <2> QED
    BY <1>1, <1>6, <2>1, TestFrame DEF coreVars
<1> QED
  BY <1>4, <1>5, <1>6 DEF Next

-----------------------------------------------------------------------------
VerInv ==
  /\ TypeOK
  /\ TestsFollowTheirCalls
  /\ TestsFollowTheirRuns
  /\ UserFollowsTheRun
  /\ ListHoldsFailures
  /\ VerdictsAreInOrder

LEMMA VerInvInit == Init => VerInv
<1> SUFFICES ASSUME Init PROVE VerInv
  OBVIOUS
<1>1. \A i \in CallIds : calls[i] = "unused" /\ verdict[i] = "none"
  BY DEF Init, Rpc!Init
<1>2. \A t \in Tests : pc[t] = "absent"
  BY DEF Init
<1>3. TestsFollowTheirCalls /\ TestsFollowTheirRuns
  BY <1>1, <1>2, CallFacts DEF TestsFollowTheirCalls, TestsFollowTheirRuns
<1>4. UserFollowsTheRun
  BY <1>1, CallFacts DEF Init, UserFollowsTheRun
<1>5. ListHoldsFailures /\ VerdictsAreInOrder
  BY <1>1, <1>2 DEF Init, ListHoldsFailures, VerdictsAreInOrder, Recorded, Rpc!Verdicts
<1> QED
  BY <1>3, <1>4, <1>5, TypeInit DEF VerInv

LEMMA VerInvStep == VerInv /\ [Next]_vars => VerInv'
  BY TypeStep, TestsFollowTheirCallsStep, TestsFollowTheirRunsStep, UserFollowsTheRunStep,
     ListStep, VerdictsStep DEF VerInv

(* The inductive invariant of a verifier: its test threads, its user and   *)
(* its list of failures agree with what the calls to the core returned.    *)
THEOREM VerInvCorrect == Spec => []VerInv
  BY VerInvInit, VerInvStep, PTL DEF Spec

(* However the adds race, once a failure was put into the list it is not   *)
(* empty, and begins with that of a test that failed; others may be lost.  *)
THEOREM SomeFailureIsKept == Spec => []SomeFailureStays
<1>1. VerInv => SomeFailureStays
  BY DEF VerInv, TypeOK, ListHoldsFailures, SomeFailureStays
<1> QED
  BY <1>1, VerInvCorrect, PTL

(* A run that returns normally returns when no failure was put into the    *)
(* list yet.                                                               *)
THEOREM NoFailureIsDropped == Spec => NoRecordedFailureIsDropped
<1> DEFINE Dropped == \A r \in Runs :
                        outcome[r] = "none" /\ outcome'[r] = "returned"
                          => \A t \in Tests : ~Recorded(t)
<1>1. VerInv /\ [Next]_vars => Dropped
  <2> SUFFICES ASSUME VerInv, [Next]_vars, NEW r \in Runs,
                      outcome[r] = "none", outcome'[r] = "returned"
               PROVE  \A t \in Tests : ~Recorded(t)
    OBVIOUS
  <2> USE DEF VerInv
  <2>1. CASE FindsNoFailure
    BY <2>1 DEF FindsNoFailure, ListHoldsFailures
  <2>2. CASE FindsFailure
    <3>1. calls[first] \in {"failure", "error"} /\ first \in Tests
      BY <2>2 DEF FindsFailure, ListHoldsFailures, TypeOK
    <3>2. Raised(calls[first], kind[first]) \in {"configuration", "none"} \cup Kinds
      BY <3>1, CallFacts DEF Raised, TypeOK
    <3> QED
      BY <2>2, <3>2, TestsAssumption DEF FindsFailure, TypeOK
  <2>3. CASE RunReturns
    <3>1. run \in Runs
      BY <2>3 DEF RunReturns, UserFollowsTheRun
    <3>2. Raised(calls'[RunCall(run)], kind[RunCall(run)]) \in {"configuration", "none"} \cup Kinds
      BY <3>1, CallFacts DEF Raised, TypeOK
    <3> QED
      BY <2>3, <3>2, TestsAssumption DEF RunReturns, TypeOK
  <2>4. CASE RunRefused
    BY <2>4 DEF RunRefused, TypeOK
  <2>5. CASE Construct \/ EndConstruct \/ RunVerification \/ Close
    BY <2>5 DEF Construct, EndConstruct, RunVerification, Close
  <2>6. CASE (\E t \in Tests : TestStep(t)) \/ CoreStep \/ UNCHANGED vars
    BY <2>6, TestFrame, CoreFrame DEF vars, userVars
  <2> QED
    BY <2>1, <2>2, <2>3, <2>4, <2>5, <2>6 DEF Next, UserStep
<1>2. VerInv /\ [Next]_vars => [Dropped]_vars
  BY <1>1
<1> QED
  BY <1>2, VerInvCorrect, PTL DEF Spec, NoRecordedFailureIsDropped

-----------------------------------------------------------------------------
(* What a failure is thrown as does not change any more.                   *)
LEMMA RaisedIsKept ==
  VerInv /\ [Next]_vars =>
    \A t \in Tests : calls[t] \in {"failure", "error"} =>
      calls'[t] = calls[t] /\ Raised(calls'[t], kind'[t]) = Raised(calls[t], kind[t])
<1> SUFFICES ASSUME VerInv, [Next]_vars, NEW t \in Tests, calls[t] \in {"failure", "error"}
             PROVE  calls'[t] = calls[t] /\ (calls[t] = "failure" => kind'[t] = kind[t])
  BY DEF Raised
<1> USE CallFacts DEF VerInv
<1>1. calls'[t] = calls[t]
  BY CallsAreKept
<1>2. ASSUME calls[t] = "failure", kind'[t] # kind[t] PROVE FALSE
  <2>1. verdict[t] # "none"
    BY <1>2 DEF VerdictsAreInOrder, Rpc!Verdicts
  <2>2. CASE UserStep \/ (\E s \in Tests : TestStep(s)) \/ UNCHANGED vars
    BY <1>2, <2>2, UserFrame, TestFrame DEF coreVars, vars
  <2>3. ASSUME NEW s \in Tests, NEW v \in Rpc!Verdicts, NEW k \in {"none"} \cup Kinds,
               CoreDecidesTest(s, v, k)
        PROVE  FALSE
    BY <1>2, <2>1, <2>3 DEF CoreDecidesTest, Rpc!Decide, TypeOK
  <2>4. ASSUME NEW r \in Runs, NEW k \in Kinds, CoreFailsRun(r, k) PROVE FALSE
    BY <1>2, <2>4 DEF CoreFailsRun, TypeOK
  <2>5. ASSUME NEW r \in Runs, CoreStartsTests(r) \/ CoreFinishesRun(r) PROVE FALSE
    BY <1>2, <2>5 DEF CoreStartsTests, CoreFinishesRun, coreVars
  <2>6. ASSUME NEW v \in Rpc!Verdicts, CoreBegins(v) PROVE FALSE
    BY <1>2, <2>6 DEF CoreBegins
  <2>7. CASE ConnectionBreaks
    BY <1>2, <2>7 DEF ConnectionBreaks
  <2> QED
    BY <2>2, <2>3, <2>4, <2>5, <2>6, <2>7 DEF Next, CoreStep
<1> QED
  BY <1>1, <1>2

LEMMA NoFalseAlarmsStep == VerInv /\ NoFalseAlarms /\ [Next]_vars => NoFalseAlarms'
<1> DEFINE Founded(r) == \/ \E t \in FailedBy(r) : outcome[r] = Raised(calls[t], kind[t])
                         \/ outcome[r] = "core" /\ \E t, u \in FailedBy(r) : t # u
<1> SUFFICES ASSUME VerInv, NoFalseAlarms, [Next]_vars, NEW r \in Runs,
                    outcome'[r] \in Thrown, calls'[RunCall(r)] = "success"
             PROVE  Founded(r)'
  BY DEF NoFalseAlarms
<1> USE CallFacts DEF VerInv
<1>1. \A t \in FailedBy(r) : /\ t \in Tests /\ t \in FailedBy(r)'
                            /\ Raised(calls'[t], kind'[t]) = Raised(calls[t], kind[t])
  BY RaisedIsKept DEF FailedBy
<1>2. CASE outcome'[r] = outcome[r] /\ outcome[r] \in Thrown /\ calls[RunCall(r)] = "success"
  <2>1. Founded(r)
    BY <1>2 DEF NoFalseAlarms
  <2> QED
    BY <1>1, <1>2, <2>1
<1>3. CASE outcome' = outcome
  <2>1. calls[RunCall(r)] # "success" => calls[RunCall(r)] \in {"unused", "open"}
    BY CallsAreKept
  <2>2. calls[RunCall(r)] \in {"unused", "open"} => outcome[r] = "none"
    BY DEF UserFollowsTheRun
  <2>3. "none" \notin Thrown
    BY TestsAssumption DEF Thrown
  <2> QED
    BY <1>2, <1>3, <2>1, <2>2, <2>3
<1>4. CASE FindsFailure
  <2>1. calls' = calls /\ kind' = kind /\ run \in Runs
    BY <1>4 DEF FindsFailure, UserFollowsTheRun, coreVars
  <2>2. r # run => outcome'[r] = outcome[r]
    BY <1>4 DEF FindsFailure, TypeOK
  <2>3. /\ first \in Tests /\ calls[first] \in {"failure", "error"}
        /\ pc[first] \in {"recorded", "finished"}
    BY <1>4 DEF FindsFailure, ListHoldsFailures, TypeOK
  <2>4. \A t \in Tests : pc[t] # "absent" => t[1] \in Runs /\ t[1] <= run
    BY DEF TestsFollowTheirRuns
  <2>5. \A t \in Tests : pc[t] = "storing" => calls[t] \in {"failure", "error"}
    BY DEF TestsFollowTheirCalls
  <2>6. CASE r = run
    <3>1. first \in FailedBy(r)
      BY <2>3, <2>4, <2>6 DEF FailedBy
    <3>2. CASE outcome'[r] = Raised(calls[first], kind[first])
      BY <2>1, <3>1, <3>2, <1>1
    <3>3. ASSUME NEW t \in Tests, pc[t] = "storing", outcome'[r] = "core"
          PROVE  Founded(r)'
      <4>1. t \in FailedBy(r) /\ t # first
        BY <2>3, <2>4, <2>5, <2>6, <3>3 DEF FailedBy
      <4> QED
        BY <1>1, <3>1, <3>3, <4>1
    <3> QED
      BY <1>4, <2>6, <3>2, <3>3 DEF FindsFailure, TypeOK
  <2> QED
    BY <1>2, <2>1, <2>2, <2>6
<1>5. CASE FindsNoFailure
  <2>1. calls' = calls
    BY <1>5 DEF FindsNoFailure
  <2>2. r # run => outcome'[r] = outcome[r]
    BY <1>5 DEF FindsNoFailure, TypeOK
  <2>3. r = run => outcome'[r] = "returned"
    BY <1>5 DEF FindsNoFailure, TypeOK
  <2>4. "returned" \notin Thrown
    BY TestsAssumption DEF Thrown
  <2> QED
    BY <1>2, <2>1, <2>2, <2>3, <2>4
<1>6. CASE RunReturns
  <2>1. run \in Runs
    BY <1>6 DEF RunReturns, UserFollowsTheRun
  <2>2. r # run => calls'[RunCall(r)] = calls[RunCall(r)] /\ outcome'[r] = outcome[r]
    BY <1>6, <2>1 DEF RunReturns, Rpc!Return, TypeOK
  <2>3. r = run => outcome' = outcome
    BY <1>6 DEF RunReturns
  <2> QED
    BY <1>2, <1>3, <2>2, <2>3
<1>7. CASE RunRefused
  <2>1. run + 1 \in 0 .. MaxRuns
    BY <1>7, TestsAssumption DEF RunRefused, TypeOK
  <2>2. r # run + 1 => calls'[RunCall(r)] = calls[RunCall(r)] /\ outcome'[r] = outcome[r]
    BY <1>7, <2>1 DEF RunRefused, Rpc!Refuse, TypeOK
  <2>3. calls'[RunCall(run + 1)] = "error"
    BY <1>7, <2>1 DEF RunRefused, Rpc!Refuse, TypeOK
  <2> QED
    BY <1>2, <2>2, <2>3
<1>8. CASE Construct \/ EndConstruct \/ RunVerification \/ Close
  BY <1>3, <1>8 DEF Construct, EndConstruct, RunVerification, Close
<1>9. CASE (\E t \in Tests : TestStep(t)) \/ CoreStep \/ UNCHANGED vars
  BY <1>3, <1>9, TestFrame, CoreFrame DEF vars, userVars
<1> QED
  BY <1>4, <1>5, <1>6, <1>7, <1>8, <1>9 DEF Next, UserStep

(* What a run throws after the core called it a success is what a test of  *)
(* its own or of a run before it failed with, or a core error when two did.*)
THEOREM AlarmsAreTrue == Spec => []NoFalseAlarms
<1>1. Init => NoFalseAlarms
  BY CallFacts DEF Init, Rpc!Init, NoFalseAlarms
<1> QED
  BY <1>1, NoFalseAlarmsStep, VerInvCorrect, PTL DEF Spec

LEMMA TestsMeetTheirConfigStep ==
  VerInv /\ TestsMeetTheirConfig /\ [Next]_vars => TestsMeetTheirConfig'
<1> SUFFICES ASSUME VerInv, TestsMeetTheirConfig, [Next]_vars,
                    \A r \in Runs : calls'[RunCall(r)] # "error"
             PROVE  \A t \in Tests : usedConfig'[t] \subseteq {t[1]}
  BY DEF TestsMeetTheirConfig
<1> USE CallFacts DEF VerInv
<1>1. \A r \in Runs : calls[RunCall(r)] # "error"
  BY CallsAreKept
<1>2. \A t \in Tests : usedConfig[t] \subseteq {t[1]}
  BY <1>1 DEF TestsMeetTheirConfig
<1>3. ASSUME NEW t \in Tests, NEW v \in Rpc!Verdicts, NEW k \in {"none"} \cup Kinds,
             CoreDecidesTest(t, v, k)
      PROVE  \A s \in Tests : usedConfig'[s] \subseteq {s[1]}
  <2>1. calls[t] # "unused" /\ verdict[t] = "none"
    BY <1>3 DEF CoreDecidesTest, Rpc!Decide
  <2>2. pc[t] # "absent"
    BY <2>1 DEF TestsFollowTheirCalls
  <2>3. verdict[RunCall(t[1])] = "none"
    BY <2>1, <2>2 DEF VerdictsAreInOrder
  <2>4. calls[RunCall(t[1])] \notin Rpc!Verdicts
    BY <2>3 DEF VerdictsAreInOrder, Rpc!Verdicts
  <2>5. calls[RunCall(t[1])] = "open"
    BY <1>1, <2>2, <2>4 DEF TestsFollowTheirRuns, TypeOK
  <2>6. t[1] = config
    BY <2>5 DEF UserFollowsTheRun
  <2>7. \A s \in Tests :
          usedConfig'[s] = IF s = t THEN usedConfig[s] \cup {config} ELSE usedConfig[s]
    BY <1>3 DEF CoreDecidesTest, TypeOK
  <2> QED
    BY <1>2, <2>6, <2>7
<1>4. CASE usedConfig' = usedConfig
  BY <1>2, <1>4
<1>5. CASE CoreStep
  <2>1. ASSUME NEW v \in Rpc!Verdicts, CoreBegins(v) PROVE usedConfig' = usedConfig
    BY <2>1 DEF CoreBegins
  <2>2. ASSUME NEW r \in Runs, CoreStartsTests(r) \/ CoreFinishesRun(r)
        PROVE  usedConfig' = usedConfig
    BY <2>2 DEF CoreStartsTests, CoreFinishesRun, coreVars
  <2>3. ASSUME NEW r \in Runs, NEW k \in Kinds, CoreFailsRun(r, k)
        PROVE  usedConfig' = usedConfig
    BY <2>3 DEF CoreFailsRun
  <2>4. ConnectionBreaks => usedConfig' = usedConfig
    BY DEF ConnectionBreaks
  <2> QED
    BY <1>3, <1>4, <1>5, <2>1, <2>2, <2>3, <2>4 DEF CoreStep
<1>6. CASE UserStep \/ (\E t \in Tests : TestStep(t)) \/ UNCHANGED vars
  <2>1. usedConfig' = usedConfig
    BY <1>6, UserFrame, TestFrame DEF coreVars, vars
  <2> QED
    BY <1>4, <2>1
<1> QED
  BY <1>5, <1>6 DEF Next

(* Unless a run was given up, a test meets the handlers of its own run.    *)
THEOREM TestsMeetTheirOwn == Spec => []TestsMeetTheirConfig
<1>1. Init => TestsMeetTheirConfig
  BY DEF Init, TestsMeetTheirConfig
<1> QED
  BY <1>1, TestsMeetTheirConfigStep, VerInvCorrect, PTL DEF Spec
=============================================================================
