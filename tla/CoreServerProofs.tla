-------------------------- MODULE CoreServerProofs --------------------------
(***************************************************************************)
(* Theorems about CoreServer, for every set of examples, names, runs,      *)
(* contracts and mocks.  The definer's and the verifier's invariants are   *)
(* independent: a step of one side leaves the other's variables alone, and *)
(* only the server's own changes on both.                                  *)
(***************************************************************************)
EXTENDS CoreServer, TLAPS

(* What the mutex's queues do with a sequence.                             *)
LEMMA HeadFacts ==
  ASSUME NEW S, NEW s \in Seq(S), s # <<>>
  PROVE  Head(s) \in S /\ Tail(s) \in Seq(S)
  OBVIOUS

LEMMA AppendFacts ==
  ASSUME NEW S, NEW s \in Seq(S), NEW x \in S
  PROVE  Append(s, x) \in Seq(S)
  OBVIOUS

-----------------------------------------------------------------------------
(* The definer keeps its types.                                            *)
LEMMA DefTypeStep ==
  ASSUME Def!TypeOK, Def!Next
  PROVE  Def!TypeOK'
<1> USE DEF Def!TypeOK, Def!Calls, Def!Mentions
<1>1. CASE Def!BeginDefinition
  BY <1>1 DEF Def!BeginDefinition
<1>2. ASSUME NEW e \in Examples, Def!RunExample(e) PROVE Def!TypeOK'
  <2>1. queue' \in Seq(Examples)
    BY <1>2, AppendFacts DEF Def!RunExample
  <2> QED
    BY <1>2, <2>1 DEF Def!RunExample, Def!Goes
<1>3. ASSUME NEW c \in Def!Calls, Def!Refuse(c) PROVE Def!TypeOK'
  BY <1>3 DEF Def!Refuse, Def!Goes
<1>4. CASE Def!StartExample
  <2>1. Head(queue) \in Examples /\ queue' \in Seq(Examples)
    BY <1>4, HeadFacts DEF Def!StartExample
  <2>2. PICK says \in [Names -> Def!Mentions] :
          LET clash == \E n \in Names : Def!Clashes(n, says[n])
          IN  /\ Def!SaveNames(says, clash)
              /\ \/ /\ Def!Goes(Head(queue), "queued", "ended")
                    /\ answer' = [answer EXCEPT ![Head(queue)] = "failure"]
                    /\ UNCHANGED matched
                 \/ /\ Def!Goes(Head(queue), "queued", "running")
                    /\ matched' = [matched EXCEPT ![Head(queue)] =
                         [n \in Names |-> IF says[n] = Absent THEN Absent ELSE lookup'[n]]]
                    /\ UNCHANGED answer
    BY <1>4 DEF Def!StartExample
  <2>3. lookup' \in [Names -> Children \cup {Absent}]
    BY <2>2 DEF Def!SaveNames
  <2>4. matched' \in [Examples -> [Names -> Def!Mentions]]
    BY <2>1, <2>2, <2>3
  <2> QED
    BY <1>4, <2>1, <2>2, <2>3, <2>4 DEF Def!StartExample, Def!Goes
<1>5. ASSUME NEW e \in Examples,
             Def!ExamplePasses(e) \/ Def!ExampleFails(e) \/ Def!ExampleErrs(e)
      PROVE  Def!TypeOK'
  <2>1. matched' \in [Examples -> [Names -> Def!Mentions]]
    BY <1>5 DEF Def!ExamplePasses, Def!ExampleFails, Def!ExampleErrs, Def!Forgets
  <2>2. /\ server' = server
        /\ place' \in [Def!Calls -> {"unasked", "queued", "running", "publishing", "ended"}]
    BY <1>5 DEF Def!ExamplePasses, Def!ExampleFails, Def!ExampleErrs, Def!Goes
  <2>3. CASE Def!ExamplePasses(e)
    BY <2>1, <2>2, <2>3 DEF Def!ExamplePasses
  <2>4. CASE Def!ExampleFails(e)
    BY <2>1, <2>2, <2>4 DEF Def!ExampleFails
  <2>5. CASE Def!ExampleErrs(e)
    BY <2>1, <2>2, <2>5 DEF Def!ExampleErrs
  <2> QED
    BY <1>5, <2>3, <2>4, <2>5
<1>6. CASE Def!EndFails \/ Def!EndWrites \/ Def!EndPublishes
  BY <1>6 DEF Def!EndFails, Def!EndWrites, Def!EndPublishes, Def!Goes
<1> QED
  BY <1>1, <1>2, <1>3, <1>4, <1>5, <1>6 DEF Def!Next, Def!ExampleSteps

(* What an example was answered and what the contract has recorded of it   *)
(* agree, once it has ended; until then there is neither.                  *)
AnswersAgree ==
  \A e \in Examples :
    /\ place[e] # "ended" => recorded[e] = "none" /\ answer[e] = "none"
    /\ recorded[e] = "VERIFIED" => answer[e] = "success"
    /\ answer[e] = "success" => recorded[e] # "none"

(* The names of an example mean what the table says, from its start on.    *)
NamesAgree ==
  \A e \in Examples, n \in Names : matched[e][n] \in {Absent, lookup[n]} \cup Falsy

DefInv == Def!TypeOK /\ AnswersAgree /\ NamesAgree

LEMMA AnswersAgreeStep ==
  ASSUME Def!TypeOK, AnswersAgree, Def!Next
  PROVE  AnswersAgree'
<1> USE DEF Def!TypeOK, Def!Calls, AnswersAgree
<1>1. CASE UNCHANGED <<place, recorded, answer>>
  BY <1>1
<1>2. ASSUME NEW e \in Examples, Def!RunExample(e) PROVE AnswersAgree'
  BY <1>2 DEF Def!RunExample, Def!Goes
<1>3. ASSUME NEW c \in Def!Calls, Def!Refuse(c) PROVE AnswersAgree'
  BY <1>3 DEF Def!Refuse, Def!Goes
<1>4. CASE Def!StartExample
  <2>1. Head(queue) \in Examples /\ UNCHANGED recorded
    BY <1>4, HeadFacts DEF Def!StartExample
  <2>2. \/ /\ Def!Goes(Head(queue), "queued", "ended")
           /\ answer' = [answer EXCEPT ![Head(queue)] = "failure"]
        \/ Def!Goes(Head(queue), "queued", "running") /\ UNCHANGED answer
    BY <1>4 DEF Def!StartExample
  <2> QED
    BY <2>1, <2>2 DEF Def!Goes
<1>5. ASSUME NEW e \in Examples,
             Def!ExamplePasses(e) \/ Def!ExampleFails(e) \/ Def!ExampleErrs(e)
      PROVE  AnswersAgree'
  BY <1>5 DEF Def!ExamplePasses, Def!ExampleFails, Def!ExampleErrs, Def!Goes
<1>6. CASE Def!EndFails \/ Def!EndWrites \/ Def!EndPublishes
  BY <1>6, NamesAssumption DEF Def!EndFails, Def!EndWrites, Def!EndPublishes, Def!Goes,
     Def!NamesDiffer
<1> QED
  BY <1>1, <1>2, <1>3, <1>4, <1>5, <1>6
     DEF Def!Next, Def!ExampleSteps, Def!BeginDefinition

LEMMA NamesAgreeStep ==
  ASSUME Def!TypeOK, NamesAgree, Def!Next
  PROVE  NamesAgree'
<1> USE DEF Def!TypeOK, NamesAgree
<1>1. CASE UNCHANGED <<matched, lookup>>
  BY <1>1
<1>2. CASE Def!StartExample
  <2>1. Head(queue) \in Examples
    BY <1>2, HeadFacts DEF Def!StartExample
  <2>2. PICK says \in [Names -> Def!Mentions] :
          /\ Def!SaveNames(says, \E n \in Names : Def!Clashes(n, says[n]))
          /\ \/ UNCHANGED matched
             \/ matched' = [matched EXCEPT ![Head(queue)] =
                  [n \in Names |-> IF says[n] = Absent THEN Absent ELSE lookup'[n]]]
    BY <1>2 DEF Def!StartExample
  <2>3. \A n \in Names : lookup'[n] = lookup[n] \/ lookup[n] \in Falsy \cup {Absent}
    BY <2>2 DEF Def!SaveNames, Def!Clashes
  <2>4. CASE UNCHANGED matched
    BY <2>3, <2>4
  <2>5. CASE matched' = [matched EXCEPT ![Head(queue)] =
               [n \in Names |-> IF says[n] = Absent THEN Absent ELSE lookup'[n]]]
    <3> SUFFICES ASSUME NEW e \in Examples, NEW n \in Names
                 PROVE  matched'[e][n] \in {Absent, lookup'[n]} \cup Falsy
      OBVIOUS
    <3>1. CASE e = Head(queue)
      BY <2>1, <2>5, <3>1
    <3>2. CASE e # Head(queue)
      BY <2>3, <2>5, <3>2
    <3> QED
      BY <3>1, <3>2
  <2> QED
    BY <2>2, <2>4, <2>5
<1>3. ASSUME NEW e \in Examples, Def!Forgets(e), UNCHANGED lookup
      PROVE  NamesAgree'
  BY <1>3 DEF Def!Forgets
<1> QED
  BY <1>1, <1>2, <1>3
     DEF Def!Next, Def!ExampleSteps, Def!BeginDefinition, Def!RunExample, Def!Refuse,
         Def!ExamplePasses, Def!ExampleFails, Def!ExampleErrs, Def!EndFails,
         Def!EndWrites, Def!EndPublishes

(* The definer's invariant is kept by every step of the process.           *)
LEMMA DefInvInit == Init => DefInv
<1> SUFFICES ASSUME Init PROVE DefInv
  OBVIOUS
<1>1. <<>> \in Seq(Examples)
  OBVIOUS
<1> QED
  BY <1>1 DEF Init, Def!Init, DefInv, Def!TypeOK, Def!Calls, Def!Mentions, AnswersAgree,
     NamesAgree

LEMMA DefInvStep ==
  ASSUME DefInv, [Next]_vars, server' \in {"up", "dead"}
  PROVE  DefInv'
<1>1. CASE Def!Next
  BY <1>1, DefTypeStep, AnswersAgreeStep, NamesAgreeStep DEF DefInv
<1>2. CASE UNCHANGED definition
  BY <1>2 DEF DefInv, definition, Def!TypeOK, AnswersAgree, NamesAgree
<1> QED
  BY <1>1, <1>2 DEF Next, vars

-----------------------------------------------------------------------------
(* The verifier.  Only offered tests are anywhere, and only runs that were *)
(* asked for are answered.                                                 *)
TestsAreOfRunsAsked ==
  /\ \A t \in Ver!Tests : stage[t] # "absent" => t[1] \in asked
  /\ \A r \in Runs : reply[r] # "none" => r \in asked

(* Examples have no result before they end, and the status of a reader is  *)
(* FAILED exactly when an example of it has failed.                        *)
StatusIsTheExamples ==
  /\ \A t \in Ver!ExampleTests : stage[t] # "ended" => result[t] = "none"
  /\ \A k \in Ver!Readers :
       status[k] = "FAILED" <=> \E t \in Ver!ExamplesOf(k) : result[t] = "FAILED"

(* Tests that have ended were answered, and so were all of a run's that is *)
(* called a success.                                                       *)
RepliesFollowTests ==
  /\ \A t \in Ver!Tests : stage[t] = "ended" => reply[t] # "none"
  /\ \A r \in Runs : reply[r] = "success" =>
       \A t \in Ver!TestsOf(r) : stage[t] \in {"absent", "ended"}

(* A run that was asked for is answered or has tests, or the process is    *)
(* dead; a run that was failed has none, and tests are answered when they  *)
(* end.                                                                    *)
RunsHaveTests ==
  /\ \A t \in Ver!Tests : stage[t] # "ended" => reply[t] = "none"
  /\ \A r \in Runs : reply[r] = "failure" => \A t \in Ver!TestsOf(r) : stage[t] = "absent"
  /\ \A r \in asked :
       server = "up" /\ reply[r] = "none" => \E t \in Ver!TestsOf(r) : stage[t] # "absent"

VerInv ==
  /\ Ver!TypeOK /\ TestsAreOfRunsAsked /\ StatusIsTheExamples /\ RepliesFollowTests
  /\ RunsHaveTests

(* Tests, readers and runs are what their names say.                       *)
LEMMA TestFacts ==
  /\ Ver!ExampleTests \subseteq Ver!Tests
  /\ \A k \in Ver!Readers : Ver!FinalTest(k) \in Ver!Tests \ Ver!ExampleTests
  /\ \A t \in Ver!Tests : Ver!Reader(t) \in Ver!Readers /\ t[1] \in Runs
  /\ \A t \in Ver!Tests : t \notin Runs
  /\ \A k \in Ver!Readers : Ver!ExamplesOf(k) \subseteq Ver!ExampleTests
<1> USE DEF Ver!Tests, Ver!ExampleTests, Ver!Readers, Ver!FinalTest, Ver!Reader,
            Ver!ExamplesOf
<1>1. \A k \in Ver!Readers : Ver!FinalTest(k) \in Ver!Tests \ Ver!ExampleTests
  <2> SUFFICES ASSUME NEW k \in Ver!Readers
               PROVE  Ver!FinalTest(k) \in Ver!Tests \ Ver!ExampleTests
    OBVIOUS
  <2>1. Ver!FinalTest(k)[3] = Final
    OBVIOUS
  <2>2. \A t \in Ver!ExampleTests : t[3] \in Mocks
    OBVIOUS
  <2> QED
    BY <2>1, <2>2, NamesAssumption DEF Ver!TestsDiffer
<1>2. \A t \in Ver!Tests : Ver!Reader(t) \in Ver!Readers /\ t[1] \in Runs
  <2> SUFFICES ASSUME NEW t \in Ver!Tests
               PROVE  Ver!Reader(t) \in Ver!Readers /\ t[1] \in Runs
    OBVIOUS
  <2>1. CASE t \in Ver!ExampleTests
    BY <2>1
  <2>2. ASSUME NEW k \in Ver!Readers, t = Ver!FinalTest(k)
        PROVE  Ver!Reader(t) \in Ver!Readers /\ t[1] \in Runs
    BY <2>2
  <2> QED
    BY <2>1, <2>2
<1>3. \A t \in Ver!Tests : t \notin Runs
  BY NamesAssumption DEF Ver!TestsDiffer
<1> QED
  BY <1>1, <1>2, <1>3

LEMMA VerTypeStep ==
  ASSUME Ver!TypeOK, Ver!Next
  PROVE  Ver!TypeOK'
<1> USE TestFacts DEF Ver!TypeOK, Ver!Stages
<1>1. CASE Ver!BeginVerification
  BY <1>1 DEF Ver!BeginVerification, Ver!Up
<1>2. ASSUME NEW r \in Runs, Ver!RunVerification(r) PROVE Ver!TypeOK'
  <2>1. stage' \in [Ver!Tests -> Ver!Stages]
    BY <1>2 DEF Ver!RunVerification
  <2>2. asked' \subseteq Runs
    BY <1>2 DEF Ver!RunVerification, Ver!Asks
  <2> QED
    BY <1>2, <2>1, <2>2 DEF Ver!RunVerification, Ver!Up
<1>8. ASSUME NEW r \in Runs,
             Ver!RunRejected(r) \/ Ver!RunMisconfigured(r) \/ Ver!RunEnds(r)
      PROVE  Ver!TypeOK'
  BY <1>8 DEF Ver!RunRejected, Ver!RunMisconfigured, Ver!RunEnds, Ver!Up, Ver!Asks
<1>3. ASSUME NEW t \in Ver!ExampleTests, Ver!InvokeTest(t) PROVE Ver!TypeOK'
  <2>1. line' \in [Ver!Readers -> Seq(Ver!ExampleTests)]
    <3>1. Append(line[Ver!Reader(t)], t) \in Seq(Ver!ExampleTests)
      BY AppendFacts
    <3> QED
      BY <1>3, <3>1 DEF Ver!InvokeTest
  <2> QED
    BY <1>3, <2>1 DEF Ver!InvokeTest, Ver!Goes, Ver!Up
<1>4. ASSUME NEW t \in Ver!ExampleTests, Ver!TestEnds(t) PROVE Ver!TypeOK'
  BY <1>4 DEF Ver!TestEnds, Ver!Goes, Ver!Up, Ver!RecordExample
<1>5. ASSUME NEW k \in Ver!Readers, Ver!StartTest(k) PROVE Ver!TypeOK'
  <2>1. line' \in [Ver!Readers -> Seq(Ver!ExampleTests)] /\ Head(line[k]) \in Ver!ExampleTests
    <3>1. Tail(line[k]) \in Seq(Ver!ExampleTests) /\ Head(line[k]) \in Ver!ExampleTests
      BY <1>5, HeadFacts DEF Ver!StartTest
    <3> QED
      BY <1>5, <3>1 DEF Ver!StartTest
  <2> QED
    BY <1>5, <2>1 DEF Ver!StartTest, Ver!Goes, Ver!Up
<1>6. ASSUME NEW k \in Ver!Readers, Ver!InvokeFinal(k) PROVE Ver!TypeOK'
  <2> USE <1>6 DEF Ver!InvokeFinal, Ver!Goes, Ver!Up
  <2>1. Ver!FinalTest(k) \in Ver!Tests
    OBVIOUS
  <2>2. stage' \in [Ver!Tests -> Ver!Stages] /\ server' = "up"
    BY <2>1
  <2>3. status' \in [Ver!Readers -> {"UNKNOWN", "SUCCESS", "FAILED"}]
    OBVIOUS
  <2>4. published' \in [Ver!Readers -> {"nothing", "success", "failure"}]
    OBVIOUS
  <2>5. reply' \in [Runs \cup Ver!Tests -> {"none", "success", "failure"}]
    OBVIOUS
  <2> QED
    BY <2>2, <2>3, <2>4, <2>5
<1>7. ASSUME NEW k \in Ver!Readers, Ver!FinalEnds(k) PROVE Ver!TypeOK'
  BY <1>7 DEF Ver!FinalEnds, Ver!Goes, Ver!Up
<1> QED
  BY <1>1, <1>2, <1>3, <1>4, <1>5, <1>6, <1>7, <1>8 DEF Ver!Next, Ver!TestSteps

LEMMA TestsAreOfRunsAskedStep ==
  ASSUME Ver!TypeOK, TestsAreOfRunsAsked, Ver!Next
  PROVE  TestsAreOfRunsAsked'
<1> USE TestFacts DEF Ver!TypeOK, TestsAreOfRunsAsked
<1>1. CASE UNCHANGED <<stage, reply, asked>>
  BY <1>1
<1>2. ASSUME NEW r \in Runs, Ver!RunVerification(r) PROVE TestsAreOfRunsAsked'
  BY <1>2 DEF Ver!RunVerification, Ver!Asks
<1>3. ASSUME NEW r \in Runs,
             Ver!RunRejected(r) \/ Ver!RunMisconfigured(r) \/ Ver!RunEnds(r)
      PROVE  TestsAreOfRunsAsked'
  BY <1>3 DEF Ver!RunRejected, Ver!RunMisconfigured, Ver!RunEnds, Ver!Asks
<1>4. ASSUME NEW t \in Ver!ExampleTests, Ver!InvokeTest(t) \/ Ver!TestEnds(t)
      PROVE  TestsAreOfRunsAsked'
  BY <1>4 DEF Ver!InvokeTest, Ver!TestEnds, Ver!Goes
<1>5. ASSUME NEW k \in Ver!Readers, Ver!StartTest(k) PROVE TestsAreOfRunsAsked'
  <2>1. Head(line[k]) \in Ver!ExampleTests
    BY <1>5, HeadFacts DEF Ver!StartTest
  <2> QED
    BY <1>5, <2>1 DEF Ver!StartTest, Ver!Goes
<1>6. ASSUME NEW k \in Ver!Readers, Ver!InvokeFinal(k) \/ Ver!FinalEnds(k)
      PROVE  TestsAreOfRunsAsked'
  BY <1>6 DEF Ver!InvokeFinal, Ver!FinalEnds, Ver!Goes
<1> QED
  BY <1>1, <1>2, <1>3, <1>4, <1>5, <1>6
     DEF Ver!Next, Ver!TestSteps, Ver!BeginVerification

LEMMA StatusIsTheExamplesStep ==
  ASSUME Ver!TypeOK, TestsAreOfRunsAsked, StatusIsTheExamples, Ver!Next
  PROVE  StatusIsTheExamples'
<1> USE TestFacts DEF Ver!TypeOK, StatusIsTheExamples
<1>1. CASE UNCHANGED <<stage, status, result>>
  BY <1>1 DEF Ver!ExamplesOf
<1>2. ASSUME NEW r \in Runs, Ver!RunVerification(r) PROVE StatusIsTheExamples'
  <2>1. \A t \in Ver!Tests : stage'[t] = stage[t] \/ stage[t] = "absent"
    BY <1>2 DEF Ver!RunVerification, Ver!Asks, TestsAreOfRunsAsked
  <2>2. UNCHANGED <<status, result>>
    BY <1>2 DEF Ver!RunVerification
  <2> QED
    BY <2>1, <2>2 DEF Ver!ExamplesOf
<1>3. ASSUME NEW t \in Ver!ExampleTests, Ver!InvokeTest(t) PROVE StatusIsTheExamples'
  BY <1>3 DEF Ver!InvokeTest, Ver!Goes, Ver!ExamplesOf
<1>4. ASSUME NEW t \in Ver!ExampleTests, Ver!TestEnds(t) PROVE StatusIsTheExamples'
  <2>1. stage[t] = "running" /\ result[t] = "none" /\ stage' = [stage EXCEPT ![t] = "ended"]
    BY <1>4 DEF Ver!TestEnds, Ver!Goes
  <2>2. PICK x \in {"VERIFIED", "FAILED", "error"} :
          /\ result' = [result EXCEPT ![t] = x]
          /\ status' = Ver!RecordExample(Ver!Reader(t), x)
    BY <1>4 DEF Ver!TestEnds
  <2>3. ASSUME NEW k \in Ver!Readers, k # Ver!Reader(t)
        PROVE  /\ status'[k] = status[k]
               /\ \A u \in Ver!ExamplesOf(k) : result'[u] = result[u]
    BY <2>1, <2>2, <2>3 DEF Ver!RecordExample, Ver!ExamplesOf
  <2>4. ASSUME NEW k \in Ver!Readers, k = Ver!Reader(t)
        PROVE  status'[k] = "FAILED" <=> \E u \in Ver!ExamplesOf(k) : result'[u] = "FAILED"
    <3>1. t \in Ver!ExamplesOf(k)
      BY <2>4 DEF Ver!ExamplesOf
    <3>2. \A u \in Ver!ExamplesOf(k) : u # t => result'[u] = result[u]
      BY <2>2
    <3>3. result'[t] = x /\ status'[k] = IF x = "FAILED" THEN "FAILED" ELSE status[k]
      BY <2>2, <2>4 DEF Ver!RecordExample
    <3>4. CASE x = "FAILED"
      BY <3>1, <3>3, <3>4
    <3>5. CASE x # "FAILED"
      <4>1. \A u \in Ver!ExamplesOf(k) : result'[u] = "FAILED" <=> result[u] = "FAILED"
        BY <2>1, <3>2, <3>3, <3>5
      <4> QED
        BY <3>3, <3>5, <4>1
    <3> QED
      BY <3>4, <3>5
  <2>5. \A u \in Ver!ExampleTests : stage'[u] # "ended" => result'[u] = "none"
    BY <2>1, <2>2
  <2>6. ASSUME NEW k \in Ver!Readers
        PROVE  status'[k] = "FAILED" <=> \E u \in Ver!ExamplesOf(k) : result'[u] = "FAILED"
    <3>1. CASE k = Ver!Reader(t)
      BY <2>4, <3>1
    <3>2. CASE k # Ver!Reader(t)
      <4>1. status'[k] = status[k] /\ \A u \in Ver!ExamplesOf(k) : result'[u] = result[u]
        BY <2>3, <3>2
      <4>2. status[k] = "FAILED" <=> \E u \in Ver!ExamplesOf(k) : result[u] = "FAILED"
        OBVIOUS
      <4> QED
        BY <4>1, <4>2
    <3> QED
      BY <3>1, <3>2
  <2> QED
    BY <2>5, <2>6 DEF Ver!ExamplesOf
<1>5. ASSUME NEW k \in Ver!Readers, Ver!StartTest(k) PROVE StatusIsTheExamples'
  <2>1. Head(line[k]) \in Ver!ExampleTests
    BY <1>5, HeadFacts DEF Ver!StartTest
  <2> QED
    BY <1>5, <2>1 DEF Ver!StartTest, Ver!Goes, Ver!ExamplesOf
<1>6. ASSUME NEW k \in Ver!Readers, Ver!InvokeFinal(k) PROVE StatusIsTheExamples'
  <2>1. \A t \in Ver!ExampleTests : stage'[t] = stage[t]
    BY <1>6 DEF Ver!InvokeFinal, Ver!Goes
  <2>2. \A j \in Ver!Readers : status'[j] = "FAILED" <=> status[j] = "FAILED"
    BY <1>6 DEF Ver!InvokeFinal
  <2>3. UNCHANGED result
    BY <1>6 DEF Ver!InvokeFinal
  <2> QED
    BY <2>1, <2>2, <2>3 DEF Ver!ExamplesOf
<1>7. ASSUME NEW k \in Ver!Readers, Ver!FinalEnds(k) PROVE StatusIsTheExamples'
  BY <1>7 DEF Ver!FinalEnds, Ver!Goes, Ver!ExamplesOf
<1> QED
  BY <1>1, <1>2, <1>3, <1>4, <1>5, <1>6, <1>7
     DEF Ver!Next, Ver!TestSteps, Ver!BeginVerification, Ver!RunRejected,
         Ver!RunMisconfigured, Ver!RunEnds

LEMMA RepliesFollowTestsStep ==
  ASSUME Ver!TypeOK, TestsAreOfRunsAsked, RepliesFollowTests, Ver!Next
  PROVE  RepliesFollowTests'
<1> USE TestFacts DEF Ver!TypeOK, RepliesFollowTests, Ver!TestsOf
<1>1. CASE UNCHANGED <<stage, reply>>
  BY <1>1
<1>2. ASSUME NEW r \in Runs, Ver!RunVerification(r) PROVE RepliesFollowTests'
  BY <1>2 DEF Ver!RunVerification, Ver!Asks, TestsAreOfRunsAsked
<1>3. ASSUME NEW r \in Runs, Ver!RunMisconfigured(r) \/ Ver!RunEnds(r)
      PROVE  RepliesFollowTests'
  BY <1>3 DEF Ver!RunMisconfigured, Ver!RunEnds
<1>4. ASSUME NEW t \in Ver!ExampleTests, Ver!InvokeTest(t) PROVE RepliesFollowTests'
  BY <1>4 DEF Ver!InvokeTest, Ver!Goes
<1>7. ASSUME NEW t \in Ver!ExampleTests, Ver!TestEnds(t) PROVE RepliesFollowTests'
  <2>1. stage' = [stage EXCEPT ![t] = "ended"]
    BY <1>7 DEF Ver!TestEnds, Ver!Goes
  <2>2. PICK a \in {"success", "failure"} : reply' = [reply EXCEPT ![t] = a]
    BY <1>7 DEF Ver!TestEnds
  <2>3. t \in Ver!Tests /\ \A r \in Runs : reply'[r] = reply[r]
    BY <2>2
  <2>4. \A u \in Ver!Tests : stage'[u] = "ended" => reply'[u] # "none"
    BY <2>1, <2>2, <2>3
  <2>5. \A u \in Ver!Tests : stage[u] \in {"absent", "ended"} => stage'[u] \in {"absent", "ended"}
    BY <2>1, <2>3
  <2> QED
    BY <2>3, <2>4, <2>5
<1>5. ASSUME NEW k \in Ver!Readers, Ver!StartTest(k) PROVE RepliesFollowTests'
  <2>1. Head(line[k]) \in Ver!ExampleTests
    BY <1>5, HeadFacts DEF Ver!StartTest
  <2> QED
    BY <1>5, <2>1 DEF Ver!StartTest, Ver!Goes
<1>6. ASSUME NEW k \in Ver!Readers, Ver!InvokeFinal(k) \/ Ver!FinalEnds(k)
      PROVE  RepliesFollowTests'
  <2> DEFINE f == Ver!FinalTest(k)
  <2>1. f \in Ver!Tests /\ f \notin Runs
    OBVIOUS
  <2>2. stage[f] \notin {"absent", "ended"}
    BY <1>6 DEF Ver!InvokeFinal, Ver!FinalEnds, Ver!Goes
  <2>3. \/ stage' = [stage EXCEPT ![f] = "publishing"] /\ UNCHANGED reply
        \/ /\ stage' = [stage EXCEPT ![f] = "ended"]
           /\ \E a \in {"success", "failure"} : reply' = [reply EXCEPT ![f] = a]
    BY <1>6 DEF Ver!InvokeFinal, Ver!FinalEnds, Ver!Goes
  <2> HIDE DEF f
  <2>4. \A r \in Runs : reply'[r] = reply[r]
    BY <2>1, <2>3
  <2>5. \A u \in Ver!Tests : u # f => stage'[u] = stage[u] /\ reply'[u] = reply[u]
    BY <2>1, <2>3
  <2>6. stage'[f] = "ended" => reply'[f] # "none"
    BY <2>1, <2>3
  <2>7. \A r \in Runs : reply[r] = "success" => f \notin Ver!TestsOf(r)
    BY <2>1, <2>2
  <2> QED
    BY <2>4, <2>5, <2>6, <2>7
<1> QED
  BY <1>1, <1>2, <1>3, <1>4, <1>5, <1>6, <1>7
     DEF Ver!Next, Ver!TestSteps, Ver!BeginVerification, Ver!RunRejected

(* RunVerification begins tests of every contract that matches, at least   *)
(* the one that publishes.                                                 *)
LEMMA RunBegins ==
  ASSUME Ver!TypeOK, TestsAreOfRunsAsked, NEW r \in Runs, Ver!RunVerification(r)
  PROVE  /\ r \notin asked /\ asked' = asked \cup {r} /\ UNCHANGED <<server, reply>>
         /\ \A t \in Ver!TestsOf(r) : stage[t] = "absent"
         /\ \A t \in Ver!Tests :
              stage'[t] = stage[t] \/ (t \in Ver!TestsOf(r) /\ stage'[t] = "offered")
         /\ \E t \in Ver!TestsOf(r) : stage'[t] = "offered"
<1> USE TestFacts DEF Ver!TestsOf, Ver!TypeOK
<1>1. /\ r \notin asked /\ asked' = asked \cup {r} /\ UNCHANGED <<server, reply>>
      /\ \A t \in Ver!TestsOf(r) : stage[t] = "absent"
  BY DEF Ver!RunVerification, Ver!Asks, Ver!Up, TestsAreOfRunsAsked
<1>2. PICK matching \in (SUBSET Contracts) \ {{}} :
        stage' = [t \in Ver!Tests |->
                   IF t[1] = r /\ t[2] \in matching THEN "offered" ELSE stage[t]]
  BY DEF Ver!RunVerification
<1>3. PICK c \in matching : c \in Contracts
  BY <1>2
<1>4. <<r, c>> \in Ver!Readers
  BY <1>3 DEF Ver!Readers
<1>5. Ver!FinalTest(<<r, c>>) \in Ver!Tests
  BY <1>4
<1>6. Ver!FinalTest(<<r, c>>)[1] = r /\ Ver!FinalTest(<<r, c>>)[2] = c
  BY DEF Ver!FinalTest
<1> QED
  BY <1>1, <1>2, <1>3, <1>5, <1>6

LEMMA RunsHaveTestsStep ==
  ASSUME Ver!TypeOK, TestsAreOfRunsAsked, RepliesFollowTests, RunsHaveTests, Ver!Next
  PROVE  RunsHaveTests'
<1> USE TestFacts DEF Ver!TypeOK, RunsHaveTests, Ver!TestsOf
<1>1. CASE Ver!BeginVerification
  BY <1>1 DEF Ver!BeginVerification, Ver!Up
<1>2. ASSUME NEW r \in Runs, Ver!RunVerification(r) PROVE RunsHaveTests'
  <2>1. reply' = reply /\ server' = server
    BY <1>2, RunBegins
  <2>2. \A t \in Ver!Tests : stage'[t] # "ended" => reply'[t] = "none"
    BY <1>2, <2>1, RunBegins
  <2>3. reply[r] = "none"
    BY <1>2, RunBegins DEF TestsAreOfRunsAsked
  <2>4. ASSUME NEW q \in Runs, reply'[q] = "failure"
        PROVE  \A t \in Ver!TestsOf(q) : stage'[t] = "absent"
    BY <1>2, <2>1, <2>3, <2>4, RunBegins
  <2>5. ASSUME NEW q \in asked', server' = "up", reply'[q] = "none"
        PROVE  \E t \in Ver!TestsOf(q) : stage'[t] # "absent"
    <3>1. CASE q = r
      BY <1>2, <3>1, RunBegins
    <3>2. CASE q # r
      <4>1. q \in asked
        BY <1>2, <2>5, <3>2, RunBegins
      <4>2. PICK t \in Ver!TestsOf(q) : stage[t] # "absent"
        BY <2>1, <2>5, <4>1
      <4>3. stage'[t] = stage[t] \/ stage'[t] = "offered"
        BY <1>2, RunBegins
      <4> QED
        BY <4>2, <4>3
    <3> QED
      BY <3>1, <3>2
  <2> QED
    BY <2>2, <2>4, <2>5
<1>3. ASSUME NEW r \in Runs, Ver!RunRejected(r) PROVE RunsHaveTests'
  BY <1>3 DEF Ver!RunRejected
<1>4. ASSUME NEW r \in Runs, Ver!RunMisconfigured(r) PROVE RunsHaveTests'
  <2>1. \A t \in Ver!TestsOf(r) : stage[t] = "absent"
    BY <1>4 DEF Ver!RunMisconfigured, Ver!Asks, TestsAreOfRunsAsked
  <2> QED
    BY <1>4, <2>1 DEF Ver!RunMisconfigured, Ver!Asks, Ver!Up
<1>5. ASSUME NEW r \in Runs, Ver!RunEnds(r) PROVE RunsHaveTests'
  BY <1>5 DEF Ver!RunEnds, Ver!Up
<1>6. ASSUME NEW t \in Ver!Tests, NEW to \in {"waiting", "running", "publishing"},
             stage[t] # "absent", stage[t] # "ended", stage' = [stage EXCEPT ![t] = to],
             UNCHANGED <<server, asked, reply>>
      PROVE  RunsHaveTests'
  BY <1>6
<1>7. ASSUME NEW t \in Ver!Tests, NEW a,
             stage[t] # "absent", stage' = [stage EXCEPT ![t] = "ended"],
             reply' = [reply EXCEPT ![t] = a], UNCHANGED <<server, asked>>
      PROVE  RunsHaveTests'
  <2>1. \A r \in Runs : reply'[r] = reply[r]
    BY <1>7
  <2>2. \A u \in Ver!Tests : u # t => stage'[u] = stage[u] /\ reply'[u] = reply[u]
    BY <1>7
  <2>3. stage'[t] = "ended"
    BY <1>7
  <2> QED
    BY <1>7, <2>1, <2>2, <2>3
<1>8. ASSUME NEW t \in Ver!ExampleTests, Ver!InvokeTest(t) PROVE RunsHaveTests'
  BY <1>6, <1>8 DEF Ver!InvokeTest, Ver!Goes, Ver!Up
<1>9. ASSUME NEW t \in Ver!ExampleTests, Ver!TestEnds(t) PROVE RunsHaveTests'
  BY <1>7, <1>9 DEF Ver!TestEnds, Ver!Goes, Ver!Up
<1>10. ASSUME NEW k \in Ver!Readers, Ver!StartTest(k) PROVE RunsHaveTests'
  <2>1. Head(line[k]) \in Ver!ExampleTests
    BY <1>10, HeadFacts DEF Ver!StartTest
  <2> QED
    BY <1>6, <1>10, <2>1 DEF Ver!StartTest, Ver!Goes, Ver!Up
<1>11. ASSUME NEW k \in Ver!Readers, Ver!InvokeFinal(k) \/ Ver!FinalEnds(k)
       PROVE  RunsHaveTests'
  <2>1. \/ /\ stage[Ver!FinalTest(k)] = "offered"
           /\ stage' = [stage EXCEPT ![Ver!FinalTest(k)] = "publishing"] /\ UNCHANGED reply
        \/ /\ stage[Ver!FinalTest(k)] # "absent"
           /\ stage' = [stage EXCEPT ![Ver!FinalTest(k)] = "ended"]
           /\ \E a \in {"success", "failure"} :
                reply' = [reply EXCEPT ![Ver!FinalTest(k)] = a]
    BY <1>11 DEF Ver!InvokeFinal, Ver!FinalEnds, Ver!Goes
  <2>2. UNCHANGED <<server, asked>> /\ Ver!FinalTest(k) \in Ver!Tests
    BY <1>11 DEF Ver!InvokeFinal, Ver!FinalEnds, Ver!Goes, Ver!Up
  <2> QED
    BY <1>6, <1>7, <2>1, <2>2
<1> QED
  BY <1>1, <1>2, <1>3, <1>4, <1>5, <1>8, <1>9, <1>10, <1>11 DEF Ver!Next, Ver!TestSteps

(* The verifier's invariant is kept by every step of the process.          *)
LEMMA VerInvInit == Init => VerInv
<1> SUFFICES ASSUME Init PROVE VerInv
  OBVIOUS
<1>1. <<>> \in Seq(Ver!ExampleTests)
  OBVIOUS
<1>2. Ver!TypeOK
  BY <1>1 DEF Init, Ver!Init, Ver!TypeOK, Ver!Stages
<1>3. TestsAreOfRunsAsked /\ StatusIsTheExamples /\ RepliesFollowTests /\ RunsHaveTests
  BY TestFacts DEF Init, Ver!Init, TestsAreOfRunsAsked, StatusIsTheExamples,
     RepliesFollowTests, RunsHaveTests, Ver!TestsOf
<1> QED
  BY <1>2, <1>3 DEF VerInv

LEMMA VerInvStep ==
  ASSUME VerInv, [Next]_vars, server' \in {"up", "dead"}, server' = "up" => server = "up"
  PROVE  VerInv'
<1>1. CASE Ver!Next
  BY <1>1, VerTypeStep, TestsAreOfRunsAskedStep, StatusIsTheExamplesStep,
     RepliesFollowTestsStep, RunsHaveTestsStep DEF VerInv
<1>2. CASE UNCHANGED verification
  BY <1>2 DEF VerInv, verification, Ver!TypeOK, TestsAreOfRunsAsked, StatusIsTheExamples,
     RepliesFollowTests, RunsHaveTests, Ver!TestsOf, Ver!ExamplesOf
<1> QED
  BY <1>1, <1>2 DEF Next, vars

-----------------------------------------------------------------------------
(* Both invariants together: the server's own variable is typed by either. *)
CoreInv == DefInv /\ VerInv

LEMMA CoreInvStep == CoreInv /\ [Next]_vars => CoreInv'
<1> SUFFICES ASSUME CoreInv, [Next]_vars PROVE CoreInv'
  OBVIOUS
<1>1. server' \in {"up", "dead"}
  <2>1. CASE Def!Next
    BY <2>1, DefTypeStep DEF CoreInv, DefInv, Def!TypeOK
  <2>2. CASE Ver!Next
    BY <2>2, VerTypeStep DEF CoreInv, VerInv, Ver!TypeOK
  <2> QED
    BY <2>1, <2>2 DEF Next, vars, CoreInv, DefInv, Def!TypeOK
<1>2. server' = "up" => server = "up"
  <2>1. CASE Def!Next
    BY <2>1 DEF Def!Next, Def!ExampleSteps, Def!BeginDefinition, Def!RunExample, Def!Refuse,
       Def!StartExample, Def!ExamplePasses, Def!ExampleFails, Def!ExampleErrs, Def!EndFails,
       Def!EndWrites, Def!EndPublishes, Def!Goes
  <2>2. CASE Ver!Next
    BY <2>2 DEF Ver!Next, Ver!TestSteps, Ver!BeginVerification, Ver!RunVerification,
       Ver!RunRejected, Ver!RunMisconfigured, Ver!RunEnds, Ver!InvokeTest, Ver!StartTest,
       Ver!TestEnds, Ver!InvokeFinal, Ver!FinalEnds, Ver!Goes, Ver!Up
  <2> QED
    BY <2>1, <2>2 DEF Next, vars
<1> QED
  BY <1>1, <1>2, DefInvStep, VerInvStep DEF CoreInv

(* The inductive invariant of the process.                                 *)
THEOREM CoreInvCorrect == Spec => []CoreInv
<1>1. Init => CoreInv
  BY DefInvInit, VerInvInit DEF CoreInv
<1> QED
  BY <1>1, CoreInvStep, PTL DEF Spec

(* Every variable of both sides keeps its type.                            *)
THEOREM TypeCorrect == Spec => []TypeOK
<1>1. CoreInv => TypeOK
  BY DEF CoreInv, DefInv, VerInv, TypeOK
<1> QED
  BY <1>1, CoreInvCorrect, PTL

(* What a name stood for in a verified example it stands for ever after,   *)
(* but for definitions that are false to JavaScript.                       *)
THEOREM NamesKeep == Spec => []NamesKeepTheirMeaning
<1>1. CoreInv => NamesKeepTheirMeaning
  BY DEF CoreInv, DefInv, NamesAgree, NamesKeepTheirMeaning, Def!NamesKeepTheirMeaning
<1> QED
  BY <1>1, CoreInvCorrect, PTL

(* What a reader publishes, in the order of events that happened, is what  *)
(* had become of its examples by then.                                     *)
THEOREM PublishedAreVerified == Spec => PublishedAsVerified
<1>1. ASSUME CoreInv, [Next]_vars
      PROVE  [\A k \in Ver!Readers : published'[k] # published[k] =>
                (published'[k] = "failure" <=>
                   \E t \in Ver!ExamplesOf(k) : result[t] = "FAILED")]_(Ver!vars)
  <2> SUFFICES ASSUME NEW k \in Ver!Readers, published'[k] # published[k]
               PROVE  published'[k] = "failure" <=>
                        \E t \in Ver!ExamplesOf(k) : result[t] = "FAILED"
    OBVIOUS
  <2>1. Ver!TypeOK /\ (status[k] = "FAILED" <=>
                          \E t \in Ver!ExamplesOf(k) : result[t] = "FAILED")
    BY <1>1 DEF CoreInv, VerInv, StatusIsTheExamples
  <2>2. Ver!Next
    BY <1>1 DEF Next, vars, verification
  <2>3. PICK j \in Ver!Readers : Ver!InvokeFinal(j)
    BY <2>2 DEF Ver!Next, Ver!TestSteps, Ver!BeginVerification, Ver!RunVerification,
       Ver!RunRejected, Ver!RunMisconfigured, Ver!RunEnds, Ver!InvokeTest, Ver!TestEnds,
       Ver!StartTest, Ver!FinalEnds
  <2>4. published'[k] = IF status[k] = "FAILED" THEN "failure" ELSE "success"
    BY <2>1, <2>3 DEF Ver!InvokeFinal, Ver!TypeOK
  <2> QED
    BY <2>1, <2>4
<1> QED
  BY <1>1, CoreInvCorrect, PTL DEF Spec, PublishedAsVerified, Ver!PublishedAsVerified

(* The contract that is written holds exactly the examples answered with   *)
(* success, and none that failed.                                          *)
THEOREM ContractsAreSuccesses == Spec => ContractIsWhatSucceeded
<1>1. ASSUME CoreInv, [Next]_vars
      PROVE  [file' # file =>
               /\ file' = {e \in Examples : answer[e] = "success"}
               /\ \A e \in Examples : recorded[e] # "FAILED"]_(Def!vars)
  <2>1. CASE Def!EndWrites
    BY <1>1, <2>1 DEF CoreInv, DefInv, Def!TypeOK, AnswersAgree, Def!EndWrites,
       Def!HasFailure
  <2>2. CASE UNCHANGED file
    BY <2>2
  <2> QED
    BY <1>1, <2>1, <2>2
       DEF Next, vars, definition, Def!Next, Def!ExampleSteps, Def!BeginDefinition,
           Def!RunExample, Def!Refuse, Def!StartExample, Def!ExamplePasses,
           Def!ExampleFails, Def!ExampleErrs, Def!EndFails, Def!EndPublishes
<1> QED
  BY <1>1, CoreInvCorrect, PTL DEF Spec, ContractIsWhatSucceeded,
     Def!ContractIsWhatSucceeded

-----------------------------------------------------------------------------
(* The core implements what the wrapper's side is built on.  To a wrapper  *)
(* a run is the tests it began and the answers; where they wait, what is   *)
(* published and what other streams do is hidden.                          *)
LEMMA RunSideInit == Init => RunSide!Init
<1> SUFFICES ASSUME Init PROVE RunSide!Init
  OBVIOUS
<1>1. BegunTests = {}
  BY DEF Init, Ver!Init, BegunTests
<1> QED
  BY <1>1 DEF Init, Ver!Init, RunSide!Init

LEMMA BegunFacts ==
  /\ \A t \in Ver!Tests : TestRuns[t] = t[1]
  /\ \A r \in Runs : RunSide!TestsOf(r) = Ver!TestsOf(r)
  /\ \A t : t \in BegunTests <=> t \in Ver!Tests /\ stage[t] # "absent"
  BY DEF TestRuns, RunSide!TestsOf, Ver!TestsOf, BegunTests

LEMMA HiddenFromRuns ==
  ASSUME \A t \in Ver!Tests : stage[t] = "absent" <=> stage'[t] = "absent"
  PROVE  BegunTests' = BegunTests
  BY DEF BegunTests

(* The end of a test, wherever it is answered, decides it.                 *)
LEMMA TestDecided ==
  ASSUME VerInv, NEW t \in Ver!Tests, NEW a \in {"success", "failure"},
         stage[t] \notin {"absent", "ended"}, stage' = [stage EXCEPT ![t] = "ended"],
         reply' = [reply EXCEPT ![t] = a]
  PROVE  RunSide!Next
<1>1. t \in BegunTests /\ t[1] \in Runs /\ TestRuns[t] = t[1]
  BY TestFacts, BegunFacts
<1>2. reply[t] = "none" /\ t \in Ver!TestsOf(t[1])
  BY DEF VerInv, RunsHaveTests, Ver!TestsOf
<1>3. reply[t[1]] = "none"
  BY <1>1, <1>2 DEF VerInv, Ver!TypeOK, RunsHaveTests, RepliesFollowTests
<1>4. BegunTests' = BegunTests
  BY HiddenFromRuns DEF VerInv, Ver!TypeOK
<1>5. RunSide!DecideTest(t, a)
  BY <1>1, <1>2, <1>3, <1>4 DEF RunSide!DecideTest
<1> QED
  BY <1>5 DEF RunSide!Next

LEMMA RunSideStep == VerInv /\ [Next]_vars => [RunSide!Next]_(RunSide!vars)
<1> SUFFICES ASSUME VerInv, [Next]_vars PROVE [RunSide!Next]_(RunSide!vars)
  OBVIOUS
<1> USE BegunFacts
<1>1. CASE UNCHANGED <<stage, reply>>
  <2>1. BegunTests' = BegunTests
    BY <1>1 DEF BegunTests
  <2> QED
    BY <1>1, <2>1 DEF RunSide!vars
<1>2. ASSUME NEW t \in Ver!Tests, NEW to \in {"waiting", "running", "publishing"},
             stage[t] # "absent", stage' = [stage EXCEPT ![t] = to], UNCHANGED reply
      PROVE  UNCHANGED RunSide!vars
  <2>1. BegunTests' = BegunTests
    BY <1>2, HiddenFromRuns DEF VerInv, Ver!TypeOK
  <2> QED
    BY <1>2, <2>1 DEF RunSide!vars
<1>3. ASSUME NEW r \in Runs, Ver!RunVerification(r) PROVE RunSide!Next
  <2>1. /\ r \notin asked /\ UNCHANGED reply
        /\ \A t \in Ver!TestsOf(r) : stage[t] = "absent"
        /\ \A t \in Ver!Tests :
             stage'[t] = stage[t] \/ (t \in Ver!TestsOf(r) /\ stage'[t] = "offered")
        /\ \E t \in Ver!TestsOf(r) : stage'[t] = "offered"
    BY <1>3, RunBegins DEF VerInv
  <2>2. reply[r] = "none"
    BY <2>1 DEF VerInv, Ver!TypeOK, TestsAreOfRunsAsked
  <2>3. RunSide!BegunOf(r) = {}
    BY <2>1 DEF RunSide!BegunOf
  <2> DEFINE S == {t \in Ver!TestsOf(r) : stage'[t] = "offered"}
  <2>4. S \in (SUBSET RunSide!TestsOf(r)) \ {{}}
    BY <2>1
  <2>5. BegunTests' = BegunTests \cup S
    <3>1. \A t : t \in BegunTests' <=> t \in Ver!Tests /\ stage'[t] # "absent"
      BY DEF BegunTests
    <3>2. S \subseteq Ver!Tests
      BY DEF Ver!TestsOf
    <3>3. \A t \in Ver!Tests : stage'[t] # "absent" <=> (stage[t] # "absent" \/ t \in S)
      BY <2>1
    <3> QED
      BY <3>1, <3>2, <3>3
  <2>6. RunSide!Start(r)
    BY <2>1, <2>2, <2>3, <2>4, <2>5 DEF RunSide!Start
  <2> QED
    BY <2>6 DEF RunSide!Next
<1>4. ASSUME NEW r \in Runs, Ver!RunMisconfigured(r) PROVE RunSide!Next
  <2>1. /\ reply[r] = "none" /\ \A t \in Ver!TestsOf(r) : stage[t] = "absent"
        /\ reply' = [reply EXCEPT ![r] = "failure"] /\ stage' = stage
    BY <1>4 DEF Ver!RunMisconfigured, Ver!Asks, VerInv, Ver!TypeOK, TestsAreOfRunsAsked,
       Ver!TestsOf
  <2>2. RunSide!Fail(r)
    BY <2>1 DEF RunSide!Fail, RunSide!BegunOf, BegunTests
  <2> QED
    BY <2>2 DEF RunSide!Next
<1>5. ASSUME NEW r \in Runs, Ver!RunEnds(r) PROVE RunSide!Next
  <2>1. /\ r \in asked /\ reply[r] = "none" /\ server = "up"
        /\ \A t \in Ver!TestsOf(r) : stage[t] \in {"absent", "ended"}
        /\ reply' = [reply EXCEPT ![r] = "success"] /\ stage' = stage
    BY <1>5 DEF Ver!RunEnds, Ver!Up
  <2>2. \E t \in Ver!TestsOf(r) : stage[t] # "absent"
    BY <2>1 DEF VerInv, RunsHaveTests
  <2>3. RunSide!BegunOf(r) # {} /\ \A t \in RunSide!BegunOf(r) : reply[t] # "none"
    BY <2>1, <2>2 DEF RunSide!BegunOf, VerInv, RepliesFollowTests, Ver!TestsOf
  <2>4. RunSide!Finish(r)
    BY <2>1, <2>3 DEF RunSide!Finish, BegunTests
  <2> QED
    BY <2>4 DEF RunSide!Next
<1>6. ASSUME NEW t \in Ver!ExampleTests, Ver!InvokeTest(t)
      PROVE  UNCHANGED RunSide!vars
  BY <1>2, <1>6, TestFacts DEF Ver!InvokeTest, Ver!Goes
<1>7. ASSUME NEW k \in Ver!Readers, Ver!StartTest(k)
      PROVE  UNCHANGED RunSide!vars
  <2>1. Head(line[k]) \in Ver!ExampleTests
    BY <1>7, HeadFacts DEF Ver!StartTest, VerInv, Ver!TypeOK
  <2> QED
    BY <1>2, <1>7, <2>1, TestFacts DEF Ver!StartTest, Ver!Goes
<1>8. ASSUME NEW t \in Ver!ExampleTests, Ver!TestEnds(t) PROVE RunSide!Next
  BY <1>8, TestDecided, TestFacts DEF Ver!TestEnds, Ver!Goes
<1>9. ASSUME NEW k \in Ver!Readers, Ver!InvokeFinal(k) \/ Ver!FinalEnds(k)
      PROVE  [RunSide!Next]_(RunSide!vars)
  <2>1. Ver!FinalTest(k) \in Ver!Tests
    BY TestFacts
  <2>2. \/ /\ stage[Ver!FinalTest(k)] = "offered"
           /\ stage' = [stage EXCEPT ![Ver!FinalTest(k)] = "publishing"] /\ UNCHANGED reply
        \/ /\ stage[Ver!FinalTest(k)] \in {"offered", "publishing"}
           /\ stage' = [stage EXCEPT ![Ver!FinalTest(k)] = "ended"]
           /\ \E a \in {"success", "failure"} :
                reply' = [reply EXCEPT ![Ver!FinalTest(k)] = a]
    BY <1>9 DEF Ver!InvokeFinal, Ver!FinalEnds, Ver!Goes
  <2> QED
    BY <1>2, <2>1, <2>2, TestDecided
<1> QED
  BY <1>1, <1>3, <1>4, <1>5, <1>6, <1>7, <1>8, <1>9
  DEF Next, vars, verification, Ver!Next, Ver!TestSteps, Ver!BeginVerification,
      Ver!RunRejected

(* What the core promises of runs, it keeps.                               *)
THEOREM RunRefinement == Spec => ImplementsRunContract
<1>1. CoreInv => VerInv
  BY DEF CoreInv
<1> QED
  BY <1>1, RunSideInit, RunSideStep, CoreInvCorrect, PTL
  DEF Spec, ImplementsRunContract, RunSide!Spec

-----------------------------------------------------------------------------
(* To a wrapper a definer is the example that runs and the answers.        *)
LEMMA ExampleSideInit == Init => ExampleSide!Init
<1> SUFFICES ASSUME Init PROVE ExampleSide!Init
  OBVIOUS
<1>1. RunningExamples = {}
  BY DEF Init, Def!Init, Def!Calls, RunningExamples
<1>2. ExampleAnswers = [e \in Examples |-> "none"]
  BY DEF Init, Def!Init, Def!Calls, ExampleAnswers
<1> QED
  BY <1>1, <1>2 DEF ExampleSide!Init

LEMMA RunningFacts ==
  /\ \A e : e \in RunningExamples <=> e \in Examples /\ place[e] = "running"
  /\ \A e \in Examples : ExampleAnswers[e] = answer[e]
  BY DEF RunningExamples, ExampleAnswers

(* An example that is answered without running is refused.                 *)
LEMMA ExampleRefused ==
  ASSUME DefInv, NEW e \in Examples, place[e] \notin {"running", "ended"},
         place' = [place EXCEPT ![e] = "ended"], answer' = [answer EXCEPT ![e] = "failure"]
  PROVE  ExampleSide!Next
<1> USE DEF DefInv, Def!TypeOK, Def!Calls
<1>1. e \notin RunningExamples /\ ExampleAnswers[e] = "none"
  BY RunningFacts DEF AnswersAgree
<1>2. RunningExamples' = RunningExamples
  BY DEF RunningExamples
<1>3. ExampleAnswers' = [ExampleAnswers EXCEPT ![e] = "failure"]
  BY DEF ExampleAnswers
<1>4. ExampleSide!Refuse(e)
  BY <1>1, <1>2, <1>3 DEF ExampleSide!Refuse
<1> QED
  BY <1>4 DEF ExampleSide!Next

(* The mutex: one example at most runs.                                    *)
OneRuns == \A e, f \in Examples : place[e] = "running" /\ place[f] = "running" => e = f

LEMMA OneRunsStep == DefInv /\ OneRuns /\ [Next]_vars => OneRuns'
<1> SUFFICES ASSUME DefInv, OneRuns, [Next]_vars PROVE OneRuns'
  OBVIOUS
<1> USE DEF DefInv, OneRuns, Def!TypeOK, Def!Calls
<1>1. CASE UNCHANGED place
  BY <1>1
<1>2. ASSUME NEW c \in Def!Calls, NEW to \in {"queued", "publishing", "ended"},
             place' = [place EXCEPT ![c] = to]
      PROVE  OneRuns'
  BY <1>2
<1>3. CASE Def!StartExample
  <2>1. Head(queue) \in Examples /\ \A e \in Examples : place[e] # "running"
    BY <1>3, HeadFacts DEF Def!StartExample, Def!MutexIsFree
  <2>2. \E to \in {"ended", "running"} : place' = [place EXCEPT ![Head(queue)] = to]
    BY <1>3 DEF Def!StartExample, Def!Goes
  <2> QED
    BY <2>1, <2>2
<1> QED
  BY <1>1, <1>2, <1>3
  DEF Next, vars, definition, Def!Next, Def!ExampleSteps, Def!BeginDefinition,
      Def!RunExample, Def!Refuse, Def!ExamplePasses, Def!ExampleFails, Def!ExampleErrs,
      Def!EndFails, Def!EndWrites, Def!EndPublishes, Def!Goes

(* An example that ends was the one that ran, and is decided.              *)
LEMMA ExampleDecided ==
  ASSUME DefInv, OneRuns, NEW e \in Examples, place[e] = "running",
         place' = [place EXCEPT ![e] = "ended"],
         NEW a \in {"success", "failure"}, answer' = [answer EXCEPT ![e] = a]
  PROVE  ExampleSide!Next
<1> USE DEF DefInv, Def!TypeOK, Def!Calls
<1>1. e \in RunningExamples /\ ExampleAnswers[e] = "none"
  BY RunningFacts DEF AnswersAgree
<1>2. RunningExamples' = {}
  BY DEF RunningExamples, OneRuns
<1>3. ExampleAnswers' = [ExampleAnswers EXCEPT ![e] = a]
  BY DEF ExampleAnswers
<1>4. ExampleSide!Decide(e, a)
  BY <1>1, <1>2, <1>3 DEF ExampleSide!Decide
<1> QED
  BY <1>4 DEF ExampleSide!Next

LEMMA ExampleSideStep ==
  DefInv /\ OneRuns /\ [Next]_vars => [ExampleSide!Next]_(ExampleSide!vars)
<1> SUFFICES ASSUME DefInv, OneRuns, [Next]_vars
             PROVE  [ExampleSide!Next]_(ExampleSide!vars)
  OBVIOUS
<1> USE DEF DefInv, Def!TypeOK, Def!Calls
<1>1. ASSUME UNCHANGED <<place, answer>> PROVE UNCHANGED ExampleSide!vars
  BY <1>1 DEF RunningExamples, ExampleAnswers, ExampleSide!vars
<1>2. ASSUME NEW e \in Examples, Def!RunExample(e) PROVE UNCHANGED ExampleSide!vars
  <2>1. RunningExamples' = RunningExamples
    BY <1>2 DEF Def!RunExample, Def!Goes, RunningExamples
  <2>2. ExampleAnswers' = ExampleAnswers
    BY <1>2 DEF Def!RunExample, ExampleAnswers
  <2> QED
    BY <2>1, <2>2 DEF ExampleSide!vars
<1>3. ASSUME NEW to, place[End] # "running", to # "running",
             place' = [place EXCEPT ![End] = to],
             answer' = answer \/ \E a : answer' = [answer EXCEPT ![End] = a]
      PROVE  UNCHANGED ExampleSide!vars
  <2>1. End \notin Examples
    BY NamesAssumption DEF Def!NamesDiffer
  <2>2. RunningExamples' = RunningExamples
    BY <1>3, <2>1 DEF RunningExamples
  <2>3. ExampleAnswers' = ExampleAnswers
    BY <1>3, <2>1 DEF ExampleAnswers
  <2> QED
    BY <2>2, <2>3 DEF ExampleSide!vars
<1>4. ASSUME NEW c \in Def!Calls, Def!Refuse(c) PROVE [ExampleSide!Next]_(ExampleSide!vars)
  <2>1. /\ place[c] = "unasked" /\ place' = [place EXCEPT ![c] = "ended"]
        /\ answer' = [answer EXCEPT ![c] = "failure"]
    BY <1>4 DEF Def!Refuse, Def!Goes
  <2>2. CASE c \in Examples
    BY <2>1, <2>2, ExampleRefused
  <2>3. CASE c = End
    BY <1>3, <2>1, <2>3
  <2> QED
    BY <2>2, <2>3
<1>5. CASE Def!StartExample
  <2> DEFINE e == Head(queue)
  <2>1. e \in Examples /\ \A f \in Examples : place[f] # "running"
    BY <1>5, HeadFacts DEF Def!StartExample, Def!MutexIsFree
  <2>2. place[e] = "queued"
    BY <1>5 DEF Def!StartExample, Def!Goes
  <2>3. \/ place' = [place EXCEPT ![e] = "ended"] /\ answer' = [answer EXCEPT ![e] = "failure"]
        \/ place' = [place EXCEPT ![e] = "running"] /\ UNCHANGED answer
    BY <1>5 DEF Def!StartExample, Def!Goes
  <2> HIDE DEF e
  <2>4. CASE place' = [place EXCEPT ![e] = "running"] /\ UNCHANGED answer
    <3>1. RunningExamples = {} /\ RunningExamples' = {e}
      BY <2>1, <2>4 DEF RunningExamples
    <3>2. ExampleAnswers[e] = "none" /\ ExampleAnswers' = ExampleAnswers
      BY <2>1, <2>2, <2>4 DEF AnswersAgree, ExampleAnswers
    <3>3. ExampleSide!Start(e)
      BY <3>1, <3>2 DEF ExampleSide!Start
    <3> QED
      BY <2>1, <3>3 DEF ExampleSide!Next
  <2> QED
    BY <2>1, <2>2, <2>3, <2>4, ExampleRefused
<1>6. ASSUME NEW e \in Examples,
             Def!ExamplePasses(e) \/ Def!ExampleFails(e) \/ Def!ExampleErrs(e)
      PROVE  ExampleSide!Next
  BY <1>6, ExampleDecided DEF Def!ExamplePasses, Def!ExampleFails, Def!ExampleErrs, Def!Goes
<1>7. CASE Def!EndFails \/ Def!EndWrites \/ Def!EndPublishes
  BY <1>3, <1>7 DEF Def!EndFails, Def!EndWrites, Def!EndPublishes, Def!Goes
<1> QED
  BY <1>1, <1>2, <1>4, <1>5, <1>6, <1>7
  DEF Next, vars, definition, Def!Next, Def!ExampleSteps, Def!BeginDefinition

(* What the core promises of examples, it keeps.                           *)
THEOREM ExampleRefinement == Spec => ImplementsExampleContract
<1>1. CoreInv => DefInv
  BY DEF CoreInv
<1>2. Init => OneRuns
  BY DEF Init, Def!Init, Def!Calls, OneRuns
<1> QED
  BY <1>1, <1>2, OneRunsStep, ExampleSideInit, ExampleSideStep, CoreInvCorrect, PTL
  DEF Spec, ImplementsExampleContract, ExampleSide!Spec
=============================================================================
