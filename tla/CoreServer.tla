----------------------------- MODULE CoreServer -----------------------------
(***************************************************************************)
(* The bundled core as the process the wrapper starts: one Node process    *)
(* serves the streams of all definers and verifiers of a JVM.  Here it has *)
(* one of each; what they share is that they live and die together.        *)
(***************************************************************************)
EXTENDS Sequences

CONSTANTS
  Examples, End, Names, Children, Falsy, Absent, Refers,
  Runs, Contracts, Mocks, Final

VARIABLES
  server,
  definer, place, queue, recorded, answer, matched, lookup, file,
  verifier, asked, stage, line, status, result, published, reply

Def == INSTANCE CoreDefinition
Ver == INSTANCE CoreVerification

ASSUME NamesAssumption == Def!NamesDiffer /\ Ver!TestsDiffer

definition == <<definer, place, queue, recorded, answer, matched, lookup, file>>
verification == <<verifier, asked, stage, line, status, result, published, reply>>
vars == <<server, definition, verification>>

Init == Def!Init /\ Ver!Init

Next ==
  \/ Def!Next /\ UNCHANGED verification
  \/ Ver!Next /\ UNCHANGED definition

Spec == Init /\ [][Next]_vars

(* Node comes to every event; an example ends, since the wrapper answers   *)
(* what it is asked while one runs and invokes the tests it is offered     *)
(* (RequestsAreAnswered); the broker answers, or its connection fails.     *)
(* One condition for each stream is enough: it has finitely many steps.    *)
Fairness ==
  /\ WF_vars((Def!ExampleSteps \/ Def!EndPublishes) /\ UNCHANGED verification)
  /\ WF_vars((Ver!TestSteps \/ \E r \in Runs : Ver!RunEnds(r)) /\ UNCHANGED definition)

LiveSpec == Spec /\ Fairness

-----------------------------------------------------------------------------
(* The types and the properties of both sides.                             *)
TypeOK == Def!TypeOK /\ Ver!TypeOK
(* The contract that endRecord writes holds what its users were told.      *)
ContractIsWhatSucceeded == Def!ContractIsWhatSucceeded
(* The contract's table of names means what was verified.                  *)
NamesKeepTheirMeaning == Def!NamesKeepTheirMeaning
(* Published results are those of the examples at that time.               *)
PublishedAsVerified == Ver!PublishedAsVerified
(* Published successes were verified.                                      *)
SuccessesWereVerified == Ver!SuccessesWereVerified

(* In the end every call the core has taken is answered, however many wait *)
(* for one mutex, as long as the process lives; only a run that cannot     *)
(* start, of any verifier, ends it for all.                                *)
CallsAreAnswered ==
  <>[](\/ server = "dead"
       \/ /\ \A c \in Def!Calls : place[c] # "unasked" => answer[c] # "none"
          /\ \A r \in asked : reply[r] # "none")

-----------------------------------------------------------------------------
(* What the wrapper's side is built on.                                    *)
TestRuns == [t \in Ver!Tests |-> t[1]]
BegunTests == {t \in Ver!Tests : stage[t] # "absent"}
RunSide == INSTANCE RunContract WITH
  Tests <- Ver!Tests, RunOf <- TestRuns, begun <- BegunTests, verdict <- reply

(* A run is called a success only after every test of it was answered, the *)
(* one that publishes included, and a test only while its run is not: the  *)
(* wrapper, which looks at its failures then, would miss a later one.      *)
ImplementsRunContract == RunSide!Spec

RunningExamples == {e \in Examples : place[e] = "running"}
ExampleAnswers == [e \in Examples |-> answer[e]]
ExampleSide == INSTANCE ExampleContract WITH
  running <- RunningExamples, verdict <- ExampleAnswers

(* However many calls wait for the mutex or were given up by the wrapper,  *)
(* one example runs at a time, and each is answered once, when it has run, *)
(* or refused without running.                                             *)
ImplementsExampleContract == ExampleSide!Spec
=============================================================================
