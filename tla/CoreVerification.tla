-------------------------- MODULE CoreVerification --------------------------
(***************************************************************************)
(* A verifier of the bundled core: what contractVerification does for one  *)
(* stream of a wrapper, down to ReadingCaseContract.  A run reads the      *)
(* contracts that match; for each it offers the wrapper a test for every   *)
(* example and a final one that publishes the results.  All are offered at *)
(* once, and begin when the wrapper invokes them: examples of a contract   *)
(* one at a time, the final test at any time.                              *)
(***************************************************************************)
EXTENDS Sequences

CONSTANTS
  Runs,       \* the calls of runVerification a wrapper makes
  Contracts,  \* the contracts in the store
  Mocks,      \* the examples of a contract
  Final       \* names its last test

Readers == Runs \X Contracts        \* a ReadingCaseContract each
ExampleTests == Runs \X Contracts \X Mocks
FinalTest(k) == <<k[1], k[2], Final>>
Tests == ExampleTests \cup {FinalTest(k) : k \in Readers}
Reader(t) == <<t[1], t[2]>>

(* What CoreServer, which instantiates this module, assumes.               *)
TestsDiffer == Final \notin Mocks /\ Runs \cap Tests = {}

VARIABLES
  server,     \* "up", or "dead": the process, which serves all streams
  verifier,   \* "none" or "begun"
  asked,      \* the runs asked for
  stage,      \* where each test is
  line,       \* the tests waiting for each ReadingCaseContract.mutex
  status,     \* ReadingCaseContract.status
  result,     \* what became of each example
  published,  \* what each reader sent to the broker
  reply       \* the BoundaryResult of each run and test

own == <<verifier, asked, stage, line, status, result, published, reply>>
vars == <<server, own>>

Init ==
  /\ server = "up"
  /\ verifier = "none"
  /\ asked = {}
  /\ stage = [t \in Tests |-> "absent"]
  /\ line = [k \in Readers |-> <<>>]
  /\ status = [k \in Readers |-> "UNKNOWN"]
  /\ result = [t \in ExampleTests |-> "none"]
  /\ published = [k \in Readers |-> "nothing"]
  /\ reply = [c \in Runs \cup Tests |-> "none"]

Up == server = "up" /\ UNCHANGED server
Goes(t, from, to) ==
  /\ Up
  /\ stage[t] = from
  /\ stage' = [stage EXCEPT ![t] = to]
ExamplesOf(k) == {t \in ExampleTests : Reader(t) = k}
TestsOf(r) == {t \in Tests : t[1] = r}

-----------------------------------------------------------------------------
BeginVerification ==
  /\ Up
  /\ verifier = "none"
  /\ verifier' = "begun"
  /\ UNCHANGED <<asked, stage, line, status, result, published, reply>>

Asks(r) == verifier = "begun" /\ r \notin asked /\ asked' = asked \cup {r}

(* verifyContract of each contract of the provider and the consumer.       *)
RunVerification(r) ==
  /\ Up
  /\ Asks(r)
  /\ \E matching \in (SUBSET Contracts) \ {{}} :
       stage' = [t \in Tests |->
                  IF t[1] = r /\ t[2] \in matching THEN "offered" ELSE stage[t]]
  /\ UNCHANGED <<verifier, line, status, result, published, reply>>

(* No provider name, no file, no contract that matches, or an example in   *)
(* one that is not VERIFIED: nobody handles the rejected promise, and Node *)
(* ends the process.                                                       *)
RunRejected(r) ==
  /\ server = "up"
  /\ Asks(r)
  /\ server' = "dead"
  /\ UNCHANGED <<verifier, stage, line, status, result, published, reply>>

(* A configuration mapConfig cannot map is answered.                       *)
RunMisconfigured(r) ==
  /\ Up
  /\ Asks(r)
  /\ reply' = [reply EXCEPT ![r] = "failure"]
  /\ UNCHANGED <<verifier, stage, line, status, result, published>>

-----------------------------------------------------------------------------
(* The wrapper invokes a test (external), at any time after its offer.     *)

InvokeTest(t) ==
  /\ Goes(t, "offered", "waiting")
  /\ line' = [line EXCEPT ![Reader(t)] = Append(@, t)]
  /\ UNCHANGED <<verifier, asked, status, result, published, reply>>

StartTest(k) ==
  /\ line[k] # <<>>
  /\ \A t \in ExamplesOf(k) : stage[t] # "running"
  /\ Goes(Head(line[k]), "waiting", "running")
  /\ line' = [line EXCEPT ![k] = Tail(@)]
  /\ UNCHANGED <<verifier, asked, status, result, published, reply>>

(* Mutant: the last example decides. *)
RecordExampleLast(k, r) == [status EXCEPT ![k] = IF r = "FAILED" THEN "FAILED" ELSE "SUCCESS"]

(* recordExample; a core error gets there not at all.                      *)
RecordExample(k, r) == [status EXCEPT ![k] = IF r = "FAILED" THEN "FAILED" ELSE @]

(* handleResult throws, and the answer is a failure, for a configuration   *)
(* or trigger error, and for others with throwOnFail.                      *)
TestEnds(t) ==
  /\ Goes(t, "running", "ended")
  /\ \E r \in {"VERIFIED", "FAILED", "error"}, a \in {"success", "failure"} :
       /\ r = "VERIFIED" => a = "success"
       /\ r = "error" => a = "failure"
       /\ result' = [result EXCEPT ![t] = r]
       /\ status' = RecordExample(Reader(t), r)
       /\ reply' = [reply EXCEPT ![t] = a]
  /\ UNCHANGED <<verifier, asked, line, published>>

(* endRecord, which does not wait for the mutex, with a token of a broker  *)
(* or without.                                                             *)
InvokeFinal(k) ==
  LET found == IF status[k] = "UNKNOWN" THEN "SUCCESS" ELSE status[k]
  IN  /\ status' = [status EXCEPT ![k] = found]
      /\ \/ /\ Goes(FinalTest(k), "offered", "publishing")
            /\ published' = [published EXCEPT
                 ![k] = IF found = "SUCCESS" THEN "success" ELSE "failure"]
            /\ UNCHANGED reply
         \/ /\ Goes(FinalTest(k), "offered", "ended")
            /\ reply' = [reply EXCEPT ![FinalTest(k)] = "success"]
            /\ UNCHANGED published
      /\ UNCHANGED <<verifier, asked, line, result>>

FinalEnds(k) ==
  /\ Goes(FinalTest(k), "publishing", "ended")
  /\ \E a \in {"success", "failure"} : reply' = [reply EXCEPT ![FinalTest(k)] = a]
  /\ UNCHANGED <<verifier, asked, line, status, result, published>>

(* Mutant: the run is answered without waiting for the final test. *)
RunEndsWithExamples(r) ==
  /\ Up
  /\ r \in asked /\ reply[r] = "none"
  /\ \A t \in TestsOf(r) : t[3] # Final => stage[t] \in {"absent", "ended"}
  /\ \E t \in TestsOf(r) : stage[t] = "ended"
  /\ reply' = [reply EXCEPT ![r] = "success"]
  /\ UNCHANGED <<verifier, asked, stage, line, status, result, published>>

(* Mutant: a test that was answered with a failure rejects the Promise.all. *)
RunEndsUnlessFailed(r) ==
  /\ Up
  /\ r \in asked /\ reply[r] = "none"
  /\ \A t \in TestsOf(r) : stage[t] \in {"absent", "ended"} /\ reply[t] # "failure"
  /\ reply' = [reply EXCEPT ![r] = "success"]
  /\ UNCHANGED <<verifier, asked, stage, line, status, result, published>>

(* Promise.all of the tests' ends, whatever they were: its answer follows  *)
(* the last test's by one turn of Node's queue of microtasks.              *)
RunEnds(r) ==
  /\ Up
  /\ r \in asked /\ reply[r] = "none"
  /\ \A t \in TestsOf(r) : stage[t] \in {"absent", "ended"}
  /\ reply' = [reply EXCEPT ![r] = "success"]
  /\ UNCHANGED <<verifier, asked, stage, line, status, result, published>>

-----------------------------------------------------------------------------
TestSteps ==
  \/ \E t \in ExampleTests : InvokeTest(t) \/ TestEnds(t)
  \/ \E k \in Readers : StartTest(k) \/ InvokeFinal(k) \/ FinalEnds(k)

Next ==
  \/ BeginVerification
  \/ \E r \in Runs :
       RunVerification(r) \/ RunRejected(r) \/ RunMisconfigured(r) \/ RunEnds(r)
  \/ TestSteps

Spec == Init /\ [][Next]_vars

-----------------------------------------------------------------------------
Stages == {"absent", "offered", "waiting", "running", "publishing", "ended"}

TypeOK ==
  /\ server \in {"up", "dead"}
  /\ verifier \in {"none", "begun"}
  /\ asked \subseteq Runs
  /\ stage \in [Tests -> Stages]
  /\ line \in [Readers -> Seq(ExampleTests)]
  /\ status \in [Readers -> {"UNKNOWN", "SUCCESS", "FAILED"}]
  /\ result \in [ExampleTests -> {"none", "VERIFIED", "FAILED", "error"}]
  /\ published \in [Readers -> {"nothing", "success", "failure"}]
  /\ reply \in [Runs \cup Tests -> {"none", "success", "failure"}]

(* What is published, whenever the final test comes, is what had become of *)
(* the examples by then: a failure if one of them had failed, whatever     *)
(* passed after it, and else a success.  (An example that ended in a core  *)
(* error leaves no trace; that others may still be under way is what       *)
(* SuccessesWereVerified is about.)                                        *)
PublishedAsVerified ==
  [][\A k \in Readers :
       published'[k] # published[k] =>
         (published'[k] = "failure" <=> \E t \in ExamplesOf(k) : result[t] = "FAILED")]_vars

(* "Always publish contracts and verification statuses", PublishType 10:   *)
(* a success that is published is the status of a contract whose examples  *)
(* were verified.                                                          *)
SuccessesWereVerified ==
  \A k \in Readers :
    published[k] = "success" => \A t \in ExamplesOf(k) : result[t] = "VERIFIED"
=============================================================================
