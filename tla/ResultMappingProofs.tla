------------------------ MODULE ResultMappingProofs -------------------------
(***************************************************************************)
(* Theorems about ResultMapping: what every path through the mappers makes *)
(* of what the user's functions did, worked out stage by stage.  The       *)
(* provers do not enumerate the inputs: they show why.                     *)
(***************************************************************************)
EXTENDS ResultMapping, TLAPS

(* What the example fails with when the functions before the assertions    *)
(* went well.                                                              *)
FailureFound ==
  CASE input.finds = "differs"       -> "CaseFailedAssertionError"
    [] input.finds = "configuration" -> "CaseConfigurationError"
    [] input.finds = "core"          -> "CaseCoreError"
    [] OTHER                         -> None

(* The function that the core takes for the setup is the teardown.         *)
SetupFails == input.teardown = "throws" \/ input.state = "withVariables"

FailureBefore ==
  IF input.core = "client"
  THEN IF SetupFails THEN "CaseConfigurationError" ELSE None
  ELSE CASE input.info = "invalid" -> "CaseCoreError"
         [] input.info # "invalid" /\ TriggerEndsWrong -> "CaseTriggerError"
         [] input.info # "invalid" /\ ~TriggerEndsWrong /\ input.response = "throws" ->
              "VerifyTriggerReturnObjectError"
         [] OTHER -> None

FailureExpected == IF FailureBefore = None THEN FailureFound ELSE FailureBefore

StreamBreaks == input.core = "server" /\ ~MapsStruct(input.variables)

(* What Record makes of a failure.                                         *)
RecordOf(error) ==
  IF error = None THEN "VERIFIED" ELSE IF error = "CaseCoreError" THEN None ELSE "FAILED"
IsThrown(error) ==
  \/ error \in {"CaseCoreError", "CaseTriggerError", "CaseConfigurationError"}
  \/ error \in {"CaseFailedAssertionError", "VerifyTriggerReturnObjectError"} /\ input.throwOnFail
AnswerTo(error) ==
  IF IsThrown(error) THEN Wire("FAILURE", error, None) ELSE Wire("SUCCESS", None, None)
OutcomeOf(error) == IF IsThrown(error) THEN Raised(error) ELSE "returned"

(* The inductive invariant: at each stage, what has been decided follows   *)
(* from the input.                                                         *)
Before ==
  stage \in {"setup", "trigger", "asserting", "recording"} =>
    recorded = None /\ answer = NoWire /\ stream = "open"
Undone == stage # "done" => outcome = "running"
AtSetup == stage = "setup" => ran = <<>> /\ failure = None
SetupAnswer ==
  IF input.teardown = "throws" THEN Wire("FAILURE", "CaseConfigurationError", None)
                               ELSE Wire("SUCCESS", None, None)
SetupIsHeard ==
  /\ stage # "setup" /\ input.core = "client" => heard["setup"] = SetupAnswer
  /\ input.core = "server" => heard["setup"] = NoWire
AtTrigger ==
  stage = "trigger" => input.core = "server" /\ ran = <<>> /\ failure = None
AtAssertion ==
  stage = "asserting" =>
    ~StreamBreaks /\ failure = None /\ FailureBefore = None /\ Len(ran) <= 1
AtRecording == stage = "recording" => ~StreamBreaks /\ failure = FailureExpected
Answered ==
  stage \in {"answered", "done"} =>
    /\ StreamBreaks <=> stream = "broken"
    /\ ~StreamBreaks =>
         recorded = RecordOf(FailureExpected) /\ answer = AnswerTo(FailureExpected)
AtTheEnd ==
  stage = "done" =>
    outcome = IF StreamBreaks THEN "ContractCaseConfigurationError"
              ELSE OutcomeOf(FailureExpected)

MappingInv ==
  /\ TypeOK /\ Before /\ Undone /\ AtSetup /\ AtTrigger /\ AtAssertion
  /\ AtRecording /\ Answered /\ AtTheEnd /\ SetupIsHeard

-----------------------------------------------------------------------------
(* The facts about inputs and mappers that the steps need.                 *)
LEMMA InputFacts ==
  ASSUME input \in Inputs
  PROVE  /\ input.core \in {"server", "client"}
         /\ input.throwOnFail \in BOOLEAN
         /\ input.state \in {"plain", "withVariables"}
         /\ input.variables \in {"plain", "withNull"}
         /\ input.setup \in {"null", "throws", "plain", "withNull"}
         /\ input.teardown \in {"returns", "throws", "throwsLater"}
         /\ input.example \in {"success", "throwing"}
         /\ input.info \in {"valid", "invalid"}
         /\ input.trigger \in {"returns", "throws"}
         /\ input.response \in {"returns", "throws"}
         /\ input.finds \in {"matches", "differs", "configuration", "core"}
  BY DEF Inputs, Payloads, Found

(* Whatever the stage, the core's request is served by the second handle   *)
(* it was sent.                                                            *)
LEMMA TeardownServes == \A request : HandleFor(request) = "teardown"
<1>1. Len(StageHandles) = 2 /\ StageHandles[2] = "teardown"
  BY DEF StageHandles
<1> QED
  BY <1>1 DEF HandleFor

(* On the wire a result of a state handler is a success without variables  *)
(* or a configuration error.                                               *)
LEMMA StateHandlerAsked ==
  ASSUME NEW request, AsksStateHandler(request)
  PROVE  /\ ran' = Append(ran, "teardown")
         /\ heard' = [heard EXCEPT ![request] =
              IF TeardownNow = "throws" THEN Wire("FAILURE", "CaseConfigurationError", None)
                                        ELSE Wire("SUCCESS", None, None)]
<1>1. HandleFor(request) = "teardown"
  BY TeardownServes
<1>2. CASE TeardownNow = "throws"
  BY <1>1, <1>2 DEF AsksStateHandler, RunStateHandler, MapTeardown, MapAsStateFailure,
     ConnectorFailure, MapResult
<1>3. CASE TeardownNow # "throws"
  BY <1>1, <1>3 DEF AsksStateHandler, RunStateHandler, MapTeardown, ConnectorSuccess,
     MapResult
<1> QED
  BY <1>2, <1>3

LEMMA RanFacts ==
  ASSUME NEW s \in Seq({"setup", "teardown"})
  PROVE  /\ Len(s) \in Nat
         /\ Len(Append(s, "teardown")) = Len(s) + 1
         /\ Append(s, "teardown") \in Seq({"setup", "teardown"})
         /\ s = <<>> => Len(s) = 0
  OBVIOUS

(* The results a mapper may put on the wire.                               *)
LEMMA WireFacts ==
  /\ NoWire \in WireResults
  /\ Wire("SUCCESS", None, None) \in WireResults
  /\ \A k \in Kinds : Wire("FAILURE", k, None) \in WireResults
  BY DEF WireResults

(* What the core hears of its trigger request follows from what the user's *)
(* functions do, one case for each way to fail.                            *)
TriggerResult ==
  IF input.example = "success" THEN MapTrigger(input.info, input.trigger, input.response)
  ELSE MapThrowingTrigger(input.info, input.trigger, input.response)

LEMMA TriggerAsked ==
  ASSUME input \in Inputs, input.core = "server"
  PROVE  MapResult(TriggerResult) =
           IF FailureBefore = None THEN Wire("SUCCESS", None, None)
                                   ELSE Wire("FAILURE", FailureBefore, None)
<1>1. \A k : MapResult(ConnectorFailure(k)) = Wire("FAILURE", k, None)
  BY DEF MapResult, ConnectorFailure
<1>2. MapResult(ConnectorSuccess) = Wire("SUCCESS", None, None)
  BY DEF MapResult, ConnectorSuccess
<1> USE InputFacts DEF None, TriggerEndsWrong
<1>3. CASE input.info = "invalid"
  <2>1. TriggerResult = ConnectorFailure("CaseCoreError")
    BY <1>3 DEF TriggerResult, MapTrigger, MapThrowingTrigger, MapException
  <2>2. FailureBefore = "CaseCoreError"
    BY <1>3 DEF FailureBefore
  <2> QED
    BY <1>1, <2>1, <2>2
<1>4. CASE input.info = "valid" /\ TriggerEndsWrong
  <2>1. TriggerResult = ConnectorFailure("CaseTriggerError")
    BY <1>4 DEF TriggerResult, MapTrigger, MapThrowingTrigger, MapAsTriggerFailure
  <2>2. FailureBefore = "CaseTriggerError"
    BY <1>4 DEF FailureBefore
  <2> QED
    BY <1>1, <2>1, <2>2
<1>5. CASE input.info = "valid" /\ ~TriggerEndsWrong /\ input.response = "throws"
  <2>1. TriggerResult = ConnectorFailure("VerifyTriggerReturnObjectError")
    BY <1>5 DEF TriggerResult, MapTrigger, MapThrowingTrigger, MapAsVerifyFailure
  <2>2. FailureBefore = "VerifyTriggerReturnObjectError"
    BY <1>5 DEF FailureBefore
  <2> QED
    BY <1>1, <2>1, <2>2
<1>6. CASE input.info = "valid" /\ ~TriggerEndsWrong /\ input.response = "returns"
  <2>1. TriggerResult = ConnectorSuccess
    BY <1>6 DEF TriggerResult, MapTrigger, MapThrowingTrigger
  <2>2. FailureBefore = None
    BY <1>6 DEF FailureBefore
  <2> QED
    BY <1>2, <2>1, <2>2
<1> QED
  BY <1>3, <1>4, <1>5, <1>6

(* How the core judges an error, and what becomes of it on the way back to *)
(* the user.                                                               *)
LEMMA ErrorJudged ==
  ASSUME input \in Inputs, NEW error \in Kinds \ {"BrokerError"}
  PROVE  HandleResult(ErrorType(error), input.throwOnFail) =
           IF IsThrown(error) THEN error ELSE None
  BY InputFacts DEF Kinds, HandleResult, ErrorType, IsThrown, None

LEMMA AnswerMapped ==
  ASSUME NEW error \in Kinds \cup {None}
  PROVE  LET thrown == MapVoid(MapBoundaryResult(AnswerTo(error)))
         IN  (IF thrown = "returned" THEN "returned" ELSE Rethrown(thrown)) = OutcomeOf(error)
<1> DEFINE thrown == MapVoid(MapBoundaryResult(AnswerTo(error)))
<1>1. CASE IsThrown(error)
  <2>1. thrown = Raised(error)
    BY <1>1 DEF AnswerTo, Wire, MapBoundaryResult, ConnectorFailure, MapVoid
  <2>2. Raised(error) \in Exceptions
    BY DEF Raised, Exceptions
  <2>3. \A e \in Exceptions : e # "returned" /\ Rethrown(e) = e
    BY DEF Exceptions, Rethrown
  <2> QED
    BY <1>1, <2>1, <2>2, <2>3 DEF OutcomeOf
<1>2. CASE ~IsThrown(error)
  <2>1. thrown = "returned"
    BY <1>2 DEF AnswerTo, Wire, MapBoundaryResult, ConnectorSuccess, MapVoid
  <2> QED
    BY <1>2, <2>1 DEF OutcomeOf
<1> QED
  BY <1>1, <1>2

(* What can be the error of an example.                                    *)
LEMMA FailureKinds ==
  ASSUME input \in Inputs
  PROVE  /\ FailureExpected \in (Kinds \ {"BrokerError"}) \cup {None}
         /\ FailureFound \in (Kinds \ {"BrokerError"}) \cup {None}
         /\ FailureBefore \in (Kinds \ {"BrokerError"}) \cup {None}
<1> USE InputFacts DEF Kinds, None
<1>1. FailureFound \in (Kinds \ {"BrokerError"}) \cup {None}
  BY DEF FailureFound
<1>2. FailureBefore \in (Kinds \ {"BrokerError"}) \cup {None}
  BY DEF FailureBefore
<1> QED
  BY <1>1, <1>2 DEF FailureExpected

-----------------------------------------------------------------------------
(* Each step keeps the invariant.                                          *)
LEMMA MappingInvInit == Init => MappingInv
<1> SUFFICES ASSUME Init PROVE MappingInv
  OBVIOUS
<1>1. ran \in Seq({"setup", "teardown"}) /\ Len(ran) <= 2
  BY DEF Init
<1>2. heard \in [Handlers -> WireResults] /\ answer \in WireResults
  BY WireFacts DEF Init
<1>3. TypeOK
  BY <1>1, <1>2 DEF Init, TypeOK
<1> QED
  BY <1>3 DEF Init, Handlers, MappingInv, Before, Undone, AtSetup, AtTrigger, AtAssertion,
     AtRecording, Answered, AtTheEnd, SetupIsHeard

LEMMA RunSetupStep == MappingInv /\ RunSetup => MappingInv'
<1> SUFFICES ASSUME MappingInv, RunSetup PROVE MappingInv'
  OBVIOUS
<1> DEFINE w == IF TeardownNow = "throws" THEN Wire("FAILURE", "CaseConfigurationError", None)
                                         ELSE Wire("SUCCESS", None, None)
<1>1. /\ input' = input /\ input \in Inputs /\ input.core = "client" /\ stage = "setup"
      /\ UNCHANGED <<recorded, answer, stream, outcome>>
      /\ ran \in Seq({"setup", "teardown"}) /\ heard \in [Handlers -> WireResults]
      /\ ran = <<>> /\ failure = None
      /\ recorded = None /\ answer = NoWire /\ stream = "open" /\ outcome = "running"
  BY DEF RunSetup, MappingInv, TypeOK, AtSetup, Before, Undone
<1>2. ran' = Append(ran, "teardown") /\ heard' = [heard EXCEPT !["setup"] = w]
  BY StateHandlerAsked DEF RunSetup
<1>3. "setup" \in Handlers /\ w \in WireResults
  BY WireFacts DEF Handlers, Kinds
<1>4. ran' \in Seq({"setup", "teardown"}) /\ Len(ran') = 1 /\ heard' \in [Handlers -> WireResults]
  BY <1>1, <1>2, <1>3, RanFacts
<1>5. heard'["setup"] = w
  BY <1>1, <1>2, <1>3
<1>6. TeardownNow = "throws" <=> input.teardown = "throws"
  BY <1>1, InputFacts DEF TeardownNow
<1>7. /\ Failed(w) <=> input.teardown = "throws"
      /\ ~Failed(w) => w.case = "SUCCESS"
  BY <1>6 DEF Failed, Wire
<1>8. IF SetupFails THEN stage' = "recording" /\ failure' = "CaseConfigurationError"
                    ELSE stage' = "asserting" /\ failure' = None
  BY <1>1, <1>5, <1>7 DEF RunSetup, SetupFails
<1>9. ~StreamBreaks /\ (SetupFails => FailureExpected = "CaseConfigurationError")
                    /\ (~SetupFails => FailureBefore = None)
  BY <1>1 DEF StreamBreaks, FailureBefore, FailureExpected, None
<1>10. TypeOK'
  BY <1>1, <1>4, <1>8, WireFacts DEF TypeOK, Kinds
<1>11. w = SetupAnswer
  BY <1>6 DEF SetupAnswer
<1> QED
  BY <1>1, <1>4, <1>5, <1>8, <1>9, <1>10, <1>11
  DEF MappingInv, Before, Undone, AtSetup, AtTrigger, AtAssertion, AtRecording, Answered,
      AtTheEnd, SetupIsHeard, SetupAnswer, StreamBreaks, FailureExpected, FailureBefore,
      FailureFound, SetupFails, TriggerEndsWrong

LEMMA RunTriggerStep == MappingInv /\ RunTrigger => MappingInv'
<1> SUFFICES ASSUME MappingInv, RunTrigger PROVE MappingInv'
  OBVIOUS
<1> DEFINE w == IF FailureBefore = None THEN Wire("SUCCESS", None, None)
                                        ELSE Wire("FAILURE", FailureBefore, None)
<1>1. /\ input' = input /\ input \in Inputs /\ input.core = "server" /\ stage = "trigger"
      /\ MapsStruct(input.variables)
      /\ UNCHANGED <<ran, recorded, answer, stream, outcome>>
      /\ ran \in Seq({"setup", "teardown"}) /\ heard \in [Handlers -> WireResults]
      /\ ran = <<>> /\ failure = None
      /\ recorded = None /\ answer = NoWire /\ stream = "open" /\ outcome = "running"
  BY DEF RunTrigger, MappingInv, TypeOK, AtTrigger, Before, Undone
<1>2. heard' = [heard EXCEPT !["trigger"] = w]
  BY <1>1, TriggerAsked DEF RunTrigger, TriggerResult
<1>3. "trigger" \in Handlers /\ w \in WireResults
  BY <1>1, WireFacts, FailureKinds DEF Handlers
<1>4. heard' \in [Handlers -> WireResults] /\ heard'["trigger"] = w /\ Len(ran) = 0
  BY <1>1, <1>2, <1>3, RanFacts
<1>5. Failed(w) <=> FailureBefore # None
  BY DEF Failed, Wire
<1>6. FailureBefore # None => JsError(w.kind) = FailureBefore
  BY <1>1, InputFacts DEF Wire, JsError, FailureBefore, None
<1>7. IF FailureBefore = None THEN stage' = "asserting" /\ failure' = None
                             ELSE stage' = "recording" /\ failure' = FailureBefore
  BY <1>1, <1>4, <1>5, <1>6 DEF RunTrigger
<1>8. ~StreamBreaks /\ (FailureBefore # None => FailureExpected = FailureBefore)
  BY <1>1 DEF StreamBreaks, FailureExpected
<1>9. TypeOK'
  BY <1>1, <1>4, <1>7, WireFacts, FailureKinds DEF TypeOK
<1>10. heard'["setup"] = NoWire
  BY <1>1, <1>2, <1>3 DEF MappingInv, SetupIsHeard, Handlers
<1> QED
  BY <1>1, <1>4, <1>7, <1>8, <1>9, <1>10
  DEF MappingInv, Before, Undone, AtSetup, AtTrigger, AtAssertion, AtRecording, Answered,
      AtTheEnd, SetupIsHeard, SetupAnswer, StreamBreaks, FailureExpected, FailureBefore,
      FailureFound, SetupFails, TriggerEndsWrong

LEMMA AssertStep == MappingInv /\ Assert => MappingInv'
<1> SUFFICES ASSUME MappingInv, Assert PROVE MappingInv'
  OBVIOUS
<1>1. /\ input' = input /\ input \in Inputs /\ stage = "asserting" /\ stage' = "recording"
      /\ ~StreamBreaks /\ FailureBefore = None
      /\ UNCHANGED <<recorded, answer, stream, outcome>>
      /\ ran \in Seq({"setup", "teardown"}) /\ heard \in [Handlers -> WireResults]
      /\ Len(ran) <= 1
      /\ recorded = None /\ answer = NoWire /\ stream = "open" /\ outcome = "running"
  BY DEF Assert, MappingInv, TypeOK, AtAssertion, Before, Undone
<1>2. failure' = FailureFound /\ FailureFound = FailureExpected
  BY <1>1 DEF Assert, FailureFound, FailureExpected
<1>3. /\ ran' \in Seq({"setup", "teardown"}) /\ Len(ran') <= 2
      /\ heard' \in [Handlers -> WireResults]
      /\ heard'["setup"] = heard["setup"]
  <2>1. CASE UNCHANGED <<ran, heard>>
    BY <1>1, <2>1, RanFacts
  <2>2. CASE AsksStateHandler("teardown")
    <3>1. ran' = Append(ran, "teardown")
      BY <2>2, StateHandlerAsked
    <3>2. PICK w \in WireResults : heard' = [heard EXCEPT !["teardown"] = w]
      BY <2>2, StateHandlerAsked, WireFacts DEF Kinds
    <3>3. ran' \in Seq({"setup", "teardown"}) /\ Len(ran') <= 2
      BY <1>1, <3>1, RanFacts
    <3>4. heard' \in [Handlers -> WireResults] /\ heard'["setup"] = heard["setup"]
      BY <1>1, <3>2 DEF Handlers
    <3> QED
      BY <3>3, <3>4
  <2> QED
    BY <2>1, <2>2 DEF Assert
<1>4. TypeOK'
  BY <1>1, <1>2, <1>3, WireFacts, FailureKinds DEF TypeOK
<1> QED
  BY <1>1, <1>2, <1>3, <1>4
  DEF MappingInv, Before, Undone, AtSetup, AtTrigger, AtAssertion, AtRecording, Answered,
      AtTheEnd, SetupIsHeard, SetupAnswer, StreamBreaks, FailureExpected, FailureBefore,
      FailureFound, SetupFails, TriggerEndsWrong

LEMMA RecordStep == MappingInv /\ Record => MappingInv'
<1> SUFFICES ASSUME MappingInv, Record PROVE MappingInv'
  OBVIOUS
<1>1. /\ input' = input /\ input \in Inputs /\ stage = "recording" /\ stage' = "answered"
      /\ ~StreamBreaks /\ failure = FailureExpected
      /\ UNCHANGED <<ran, heard, failure, stream, outcome>>
      /\ stream = "open" /\ outcome = "running"
  BY DEF Record, MappingInv, TypeOK, AtRecording, Before, Undone
<1>2. recorded' = RecordOf(failure)
  BY <1>1, FailureKinds DEF Record, RecordOf, ErrorType, Kinds, None
<1>3. answer' = AnswerTo(failure)
  <2>1. CASE failure = None
    BY <2>1 DEF Record, AnswerTo, IsThrown, None
  <2>2. CASE failure # None
    <3>1. failure \in Kinds \ {"BrokerError"} /\ failure # None
      BY <1>1, <2>2, FailureKinds
    <3>2. HandleResult(ErrorType(failure), input.throwOnFail) =
            IF IsThrown(failure) THEN failure ELSE None
      BY <1>1, <3>1, ErrorJudged
    <3> QED
      BY <2>2, <3>2 DEF Record, AnswerTo
  <2> QED
    BY <2>1, <2>2
<1>4. answer' \in WireResults /\ recorded' \in {None, "VERIFIED", "FAILED"}
  <2>1. failure = None \/ failure \in Kinds
    BY <1>1, FailureKinds
  <2>2. IsThrown(failure) => failure # None
    BY DEF IsThrown, None
  <2> QED
    BY <1>2, <1>3, <2>1, <2>2, WireFacts DEF AnswerTo, RecordOf
<1>5. TypeOK'
  BY <1>1, <1>4 DEF MappingInv, TypeOK
<1>6. (StreamBreaks <=> StreamBreaks') /\ FailureExpected' = FailureExpected
  BY <1>1 DEF StreamBreaks, FailureExpected, FailureBefore, FailureFound, SetupFails,
     TriggerEndsWrong
<1>7. AnswerTo(failure)' = AnswerTo(failure)
  BY <1>1 DEF AnswerTo, IsThrown
<1> QED
  BY <1>1, <1>2, <1>3, <1>5, <1>6, <1>7
  DEF MappingInv, Before, Undone, AtSetup, AtTrigger, AtAssertion, AtRecording, Answered,
      AtTheEnd, SetupIsHeard, SetupAnswer

LEMMA SkipStep == MappingInv /\ (SkipSetup \/ TriggerUnmappable) => MappingInv'
<1> SUFFICES ASSUME MappingInv, SkipSetup \/ TriggerUnmappable PROVE MappingInv'
  OBVIOUS
<1>1. /\ input' = input /\ input \in Inputs /\ input.core = "server"
      /\ UNCHANGED <<ran, heard, failure, recorded, answer, outcome>>
      /\ ran = <<>> /\ failure = None /\ outcome = "running" /\ stream = "open"
      /\ recorded = None /\ answer = NoWire
  BY DEF SkipSetup, TriggerUnmappable, MappingInv, TypeOK, AtSetup, AtTrigger, Before, Undone
<1>2. \/ stage' = "trigger" /\ stream' = "open"
      \/ stage' = "answered" /\ stream' = "broken" /\ StreamBreaks
  BY <1>1 DEF SkipSetup, TriggerUnmappable, StreamBreaks
<1>3. TypeOK'
  BY <1>1, <1>2 DEF MappingInv, TypeOK
<1>4. StreamBreaks <=> StreamBreaks'
  BY <1>1 DEF StreamBreaks
<1> QED
  BY <1>1, <1>2, <1>3, <1>4
  DEF MappingInv, Before, Undone, AtSetup, AtTrigger, AtAssertion, AtRecording, Answered,
      AtTheEnd, SetupIsHeard, SetupAnswer

LEMMA CallReturnsStep == MappingInv /\ CallReturns => MappingInv'
<1> SUFFICES ASSUME MappingInv, CallReturns PROVE MappingInv'
  OBVIOUS
<1>1. /\ input' = input /\ input \in Inputs /\ stage = "answered" /\ stage' = "done"
      /\ UNCHANGED <<ran, heard, failure, recorded, answer, stream>>
      /\ stream \in {"open", "broken"} /\ (StreamBreaks <=> stream = "broken")
      /\ ~StreamBreaks =>
           recorded = RecordOf(FailureExpected) /\ answer = AnswerTo(FailureExpected)
  BY DEF CallReturns, MappingInv, TypeOK, Answered
<1>2. FailureExpected \in Kinds \cup {None}
  BY <1>1, FailureKinds
<1>3. outcome' = IF StreamBreaks THEN "ContractCaseConfigurationError"
                 ELSE OutcomeOf(FailureExpected)
  <2>1. CASE StreamBreaks
    <3>1. MapVoid(ConnectorFailure("CaseConfigurationError")) = "ContractCaseConfigurationError"
      BY DEF MapVoid, ConnectorFailure, Raised
    <3> QED
      BY <1>1, <2>1, <3>1 DEF CallReturns, Rethrown
  <2>2. CASE ~StreamBreaks
    <3>1. stream = "open" /\ answer = AnswerTo(FailureExpected)
      BY <1>1, <2>2
    <3>2. outcome' = LET thrown == MapVoid(MapBoundaryResult(AnswerTo(FailureExpected)))
                     IN  IF thrown = "returned" THEN "returned" ELSE Rethrown(thrown)
      BY <3>1 DEF CallReturns
    <3> QED
      BY <1>2, <2>2, <3>2, AnswerMapped
  <2> QED
    BY <2>1, <2>2
<1>4. outcome' \in {"returned"} \cup Exceptions
  BY <1>3 DEF OutcomeOf, Raised, Exceptions
<1>5. TypeOK'
  BY <1>1, <1>4 DEF MappingInv, TypeOK
<1>6. (StreamBreaks <=> StreamBreaks') /\ FailureExpected' = FailureExpected
  BY <1>1 DEF StreamBreaks, FailureExpected, FailureBefore, FailureFound, SetupFails,
     TriggerEndsWrong
<1>7. AnswerTo(FailureExpected)' = AnswerTo(FailureExpected)
  BY <1>1, <1>6 DEF AnswerTo, IsThrown
<1>8. OutcomeOf(FailureExpected)' = OutcomeOf(FailureExpected)
  BY <1>1, <1>6 DEF OutcomeOf, IsThrown
<1> QED
  BY <1>1, <1>3, <1>5, <1>6, <1>7, <1>8
  DEF MappingInv, Before, Undone, AtSetup, AtTrigger, AtAssertion, AtRecording, Answered,
      AtTheEnd, SetupIsHeard, SetupAnswer

LEMMA MappingInvStep == MappingInv /\ [Next]_vars => MappingInv'
<1>1. MappingInv /\ UNCHANGED vars => MappingInv'
  BY DEF vars, MappingInv, TypeOK, Before, Undone, AtSetup, AtTrigger, AtAssertion,
     AtRecording, SetupIsHeard, SetupAnswer, Answered, AtTheEnd, StreamBreaks,
     FailureExpected, FailureBefore, FailureFound, SetupFails, TriggerEndsWrong, AnswerTo,
     OutcomeOf, IsThrown
<1> QED
  BY <1>1, RunSetupStep, RunTriggerStep, AssertStep, RecordStep, SkipStep, CallReturnsStep
  DEF Next

-----------------------------------------------------------------------------
(* The theorems.                                                           *)

(* The inductive invariant: error, record, answer and outcome are, at each *)
(* stage, what the input says.                                             *)
THEOREM MappingInvCorrect == Spec => []MappingInv
<1> QED
  BY MappingInvInit, MappingInvStep, PTL DEF Spec

(* Every mapper meets only results and kinds that it knows.                *)
THEOREM TypeCorrect == Spec => []TypeOK
<1>1. MappingInv => TypeOK
  BY DEF MappingInv
<1> QED
  BY <1>1, MappingInvCorrect, PTL

(* What the user's call throws is the documented kind of exception for     *)
(* what has failed, unless it is a teardown, whose failure the core loses. *)
THEOREM FailuresAreBlamed == Spec => []FailuresAreBlamedAsDocumented
<1>1. MappingInv => FailuresAreBlamedAsDocumented
  <2> SUFFICES ASSUME MappingInv, stage = "done", input.core = "server" => input.info = "valid",
                      ~TeardownFailureIsLost
               PROVE  outcome =
                 CASE ConfigurationFails -> "ContractCaseConfigurationError"
                   [] ~ConfigurationFails /\ ExpectationsFail ->
                        IF input.throwOnFail THEN "ContractCaseExpectationsNotMet"
                                             ELSE "returned"
                   [] ~ConfigurationFails /\ ~ExpectationsFail
                      /\ input.finds = "configuration" -> "ContractCaseConfigurationError"
                   [] ~ConfigurationFails /\ ~ExpectationsFail /\ input.finds = "core" ->
                        "ContractCaseCoreError"
                   [] OTHER -> "returned"
    BY DEF FailuresAreBlamedAsDocumented
  <2>1. input \in Inputs /\ outcome = IF StreamBreaks THEN "ContractCaseConfigurationError"
                                      ELSE OutcomeOf(FailureExpected)
    BY DEF MappingInv, TypeOK, AtTheEnd
  <2>2. ConfigurationFails <=>
          IF input.core = "client" THEN SetupFails
          ELSE TriggerEndsWrong \/ input.variables = "withNull"
    <3>1. CASE input.core = "client"
      <4>1. heard["setup"] = SetupAnswer
        BY <3>1 DEF MappingInv, SetupIsHeard
      <4>2. /\ Failed(heard["setup"]) <=> input.teardown = "throws"
            /\ heard["setup"].case = "SUCCESS" <=> input.teardown # "throws"
        BY <4>1 DEF SetupAnswer, Wire, Failed
      <4> QED
        BY <3>1, <4>2 DEF ConfigurationFails, SetupFails, VariablesAreMissing,
           TeardownFailureIsLost
    <3>2. CASE input.core = "server"
      <4>1. heard["setup"] = NoWire
        BY <3>2 DEF MappingInv, SetupIsHeard
      <4>2. ~Failed(heard["setup"])
        BY <4>1 DEF NoWire, Wire, Failed, None
      <4> QED
        BY <3>2, <4>2 DEF ConfigurationFails, TeardownFailureIsLost
    <3> QED
      BY <2>1, <3>1, <3>2, InputFacts
  <2> USE <2>1, InputFacts DEF None
  <2>3. CASE ConfigurationFails
    <3>1. ~StreamBreaks => FailureExpected \in {"CaseConfigurationError", "CaseTriggerError"}
      BY <2>3, <2>2 DEF StreamBreaks, MapsStruct, FailureExpected, FailureBefore,
         SetupFails, TriggerEndsWrong
    <3> QED
      BY <2>3, <3>1 DEF OutcomeOf, IsThrown, Raised
  <2>4. CASE ~ConfigurationFails
    <3>1. ~StreamBreaks
      BY <2>4, <2>2 DEF StreamBreaks, MapsStruct
    <3>2. FailureBefore = IF ResponseFails THEN "VerifyTriggerReturnObjectError" ELSE None
      BY <2>4, <2>2 DEF ResponseFails, FailureBefore, SetupFails, TriggerEndsWrong
    <3>3. CASE ExpectationsFail
      <4>1. FailureExpected \in {"CaseFailedAssertionError", "VerifyTriggerReturnObjectError"}
        BY <3>2, <3>3 DEF ExpectationsFail, FailureExpected, FailureFound
      <4> QED
        BY <2>4, <3>1, <3>3, <4>1 DEF OutcomeOf, IsThrown, Raised
    <3>4. CASE ~ExpectationsFail
      <4>1. FailureExpected = FailureFound /\ input.finds # "differs"
        BY <3>2, <3>4 DEF ExpectationsFail, FailureExpected
      <4> QED
        BY <2>4, <3>1, <3>4, <4>1 DEF OutcomeOf, IsThrown, Raised, FailureFound
    <3> QED
      BY <3>3, <3>4
  <2> QED
    BY <2>3, <2>4
<1> QED
  BY <1>1, MappingInvCorrect, PTL

(* An example that returned to its user is in the contract, as verified or *)
(* as failed.                                                              *)
THEOREM ReturnedIsRecorded == Spec => []ReturnsAreRecorded
<1>1. MappingInv => ReturnsAreRecorded
  <2> SUFFICES ASSUME MappingInv, outcome = "returned"
               PROVE  recorded = "VERIFIED" \/ (recorded = "FAILED" /\ ~input.throwOnFail)
    BY DEF ReturnsAreRecorded
  <2>1. stage = "done" /\ input \in Inputs
    BY DEF MappingInv, Undone, TypeOK
  <2>2. ~StreamBreaks /\ OutcomeOf(FailureExpected) = "returned"
    BY <2>1 DEF MappingInv, AtTheEnd
  <2>3. recorded = RecordOf(FailureExpected)
    BY <2>1, <2>2 DEF MappingInv, Answered
  <2>4. ~IsThrown(FailureExpected)
    BY <2>2 DEF OutcomeOf, Raised
  <2>5. FailureExpected \in (Kinds \ {"BrokerError"}) \cup {None}
    BY <2>1, FailureKinds
  <2> QED
    BY <2>3, <2>4, <2>5 DEF IsThrown, RecordOf, Kinds, None
<1> QED
  BY <1>1, MappingInvCorrect, PTL
=============================================================================
