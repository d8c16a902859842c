---------------------------- MODULE ResultMapping ----------------------------
(***************************************************************************)
(* What becomes of an example's outcome on its way through the mappers:    *)
(* the user's state handler, trigger and response functions return or      *)
(* throw; that is made a ConnectorResult, sent to the core as a            *)
(* BoundaryResult, made a JavaScript error there, recorded and judged,     *)
(* sent back as the result of the call, made a ConnectorResult again and   *)
(* then an exception, or none, of the user's runExample,                   *)
(* runThrowingExample or runVerification.                                  *)
(*                                                                         *)
(* Messages, locations and stack traces are left out: of a payload only    *)
(* what a mapper stumbles over is kept.                                    *)
(***************************************************************************)
EXTENDS Naturals, Sequences

None == "none"
Payloads == {"plain", "withNull"}
Kinds ==
  {"CaseConfigurationError", "CaseCoreError", "CaseFailedAssertionError",
   "CaseTriggerError", "VerifyTriggerReturnObjectError", "BrokerError"}
Exceptions ==
  {"ContractCaseConfigurationError", "ContractCaseCoreError",
   "ContractCaseExpectationsNotMet"}

(* ConnectorResult and its subclasses.                                     *)
ConnectorSuccess == [type |-> "Success", kind |-> None, payload |-> None]
ConnectorSuccessWithMap(p) == [type |-> "SuccessMap", kind |-> None, payload |-> p]
ConnectorSuccessWithAny(p) == [type |-> "SuccessAny", kind |-> None, payload |-> p]
ConnectorFailure(k) == [type |-> "Failure", kind |-> k, payload |-> None]
ConnectorResults ==
  {ConnectorSuccess} \cup {ConnectorFailure(k) : k \in Kinds}
    \cup {ConnectorSuccessWithMap(p) : p \in Payloads}
    \cup {ConnectorSuccessWithAny(p) : p \in Payloads}

(* BoundaryResult: which of its oneof is set, and with what.               *)
Wire(case, k, p) == [case |-> case, kind |-> k, payload |-> p]
WireCases == {"SUCCESS", "SUCCESS_HAS_MAP", "SUCCESS_HAS_ANY", "FAILURE"}

-----------------------------------------------------------------------------
(* The mappers.                                                            *)

(* Mutant: a kind that ConnectorFailureKindConstants does not have.        *)
MapAsStateFailureOfItsOwn == ConnectorFailure("CaseStateHandlerError")

MapAsStateFailure == ConnectorFailure("CaseConfigurationError")
MapAsTriggerFailure == ConnectorFailure("CaseTriggerError")
MapAsVerifyFailure == ConnectorFailure("VerifyTriggerReturnObjectError")

(* ConnectorExceptionMapper.map, by the class of what was thrown.          *)
MapException(class) ==
  ConnectorFailure(IF class = "ContractCaseConfigurationError"
                   THEN "CaseConfigurationError" ELSE "CaseCoreError")

MapSetup(setup) ==
  CASE setup = "throws" -> MapAsStateFailure
    [] setup = "null"   -> ConnectorSuccess
    [] OTHER            -> ConnectorSuccessWithMap(setup)

MapTeardown(teardown) ==
  IF teardown = "throws" THEN MapAsStateFailure ELSE ConnectorSuccess

(* A trigger with a TestResponseFunction.                                  *)
MapTrigger(info, trigger, response) ==
  IF info = "invalid" THEN MapException("ContractCaseCoreError")
  ELSE IF trigger = "throws" THEN MapAsTriggerFailure
  ELSE IF response = "throws" THEN MapAsVerifyFailure
  ELSE ConnectorSuccess

(* Mutant: that the trigger returned is taken for a success. *)
MapThrowingTriggerLenient(info, trigger, response) ==
  IF info = "invalid" THEN MapException("ContractCaseCoreError")
  ELSE IF trigger = "returns" THEN ConnectorSuccess
  ELSE IF response = "throws" THEN MapAsVerifyFailure
  ELSE ConnectorSuccess

(* A trigger with a TestErrorResponseFunction: it has to throw.            *)
MapThrowingTrigger(info, trigger, response) ==
  IF info = "invalid" THEN MapException("ContractCaseCoreError")
  ELSE IF trigger = "returns" THEN MapAsTriggerFailure
  ELSE IF response = "throws" THEN MapAsVerifyFailure
  ELSE ConnectorSuccess

MapResult(r) ==
  CASE r.type = "Success"    -> Wire("SUCCESS", None, None)
    [] r.type = "Failure"    -> Wire("FAILURE", r.kind, None)
    [] r.type = "SuccessMap" -> Wire("SUCCESS_HAS_MAP", None, r.payload)
    [] r.type = "SuccessAny" -> Wire("SUCCESS_HAS_ANY", None, r.payload)

(* Map.entry, which map(Struct) makes of every field, refuses null.        *)
MapsStruct(payload) == payload # "withNull"

MapBoundaryResult(w) ==
  CASE w.case = "SUCCESS"         -> ConnectorSuccess
    [] w.case = "FAILURE"         -> ConnectorFailure(w.kind)
    [] w.case = "SUCCESS_HAS_MAP" -> ConnectorSuccessWithMap(w.payload)
    [] w.case = "SUCCESS_HAS_ANY" -> ConnectorSuccessWithAny(w.payload)

(* mapFailure of both result mappers. *)
Raised(kind) ==
  CASE kind \in {"BrokerError", "CaseConfigurationError", "CaseTriggerError"} ->
         "ContractCaseConfigurationError"
    [] kind \in {"CaseFailedAssertionError", "VerifyTriggerReturnObjectError"} ->
         "ContractCaseExpectationsNotMet"
    [] OTHER -> "ContractCaseCoreError"

(* ConnectorResultMapper.mapVoid: what it throws, or "returned".           *)
MapVoid(r) ==
  CASE r.type = "Success" -> "returned"
    [] r.type = "Failure" -> Raised(r.kind)
    [] OTHER              -> "ContractCaseCoreError"

(* BoundaryCrashReporter.handleAndRethrow, by the class of the exception.  *)
Rethrown(class) ==
  IF class \in {"ContractCaseConfigurationError", "ContractCaseExpectationsNotMet"}
  THEN class ELSE "ContractCaseCoreError"

-----------------------------------------------------------------------------
(* The bundled core's mappers.                                             *)

(* mapConfig sends every state handler twice, once for each stage.         *)
StageHandles == <<"setup", "teardown">>

(* mapStateHandlers: whatever the stage of a handle, it takes the place of *)
(* both functions of its name, so that the last one sent serves both.      *)
HandleFor(stage) == StageHandles[Len(StageHandles)]

(* failureToJsError: the name of the error.  Of the kinds it does not know *)
(* it makes configuration errors.                                          *)
JsError(kind) ==
  IF kind \in {"CaseCoreError", "CaseTriggerError", "CaseConfigurationError",
               "VerifyTriggerReturnObjectError"}
  THEN kind ELSE "CaseConfigurationError"

(* errorToFailedExample: what the failed example is recorded with; a core  *)
(* error is thrown on and nothing is recorded.                             *)
ErrorType(error) ==
  CASE error = "VerifyTriggerReturnObjectError" -> "response"
    [] error = "CaseTriggerError"               -> "trigger"
    [] error = "CaseFailedAssertionError"       -> "matching"
    [] error = "CaseCoreError"                  -> "core"
    [] OTHER                                    -> "configuration"

(* Mutant: one type of error is not checked. *)
HandleResultMissesTriggers(errorType, throwOnFail) ==
  CASE errorType = "core"                     -> "CaseCoreError"
    [] errorType = "matching" /\ throwOnFail  -> "CaseFailedAssertionError"
    [] errorType = "response" /\ throwOnFail  -> "VerifyTriggerReturnObjectError"
    [] errorType = "configuration"            -> "CaseConfigurationError"
    [] OTHER                                  -> None

(* handleResult: the name of the error it throws at its caller, or None.   *)
HandleResult(errorType, throwOnFail) ==
  CASE errorType = "core"                     -> "CaseCoreError"
    [] errorType = "trigger"                  -> "CaseTriggerError"
    [] errorType = "matching" /\ throwOnFail  -> "CaseFailedAssertionError"
    [] errorType = "response" /\ throwOnFail  -> "VerifyTriggerReturnObjectError"
    [] errorType = "configuration"            -> "CaseConfigurationError"
    [] OTHER                                  -> None

-----------------------------------------------------------------------------
(* The journey of one example, run or verified.  Of a mock the core either *)
(* plays the other side's server, so that the user's trigger is called and *)
(* states have their default variables, or its client, so that the user's  *)
(* state handlers are called and the trigger is the core's own.            *)

VARIABLES
  input,    \* what the user's functions do, and what the assertions find
  stage,    \* what is next
  ran,      \* the functions of the state handler that were called, in order
  heard,    \* the core's BoundaryResult of each of its requests
  failure,  \* None, or the error the example failed with
  recorded, \* the example's result in the core's contract
  answer,   \* the core's BoundaryResult of the call
  stream,   \* "open", or "broken" once a handler threw
  outcome   \* what the user's call returned or threw

vars == <<input, stage, ran, heard, failure, recorded, answer, stream, outcome>>

Handlers == {"setup", "trigger", "teardown"}
Found == {"matches", "differs", "configuration", "core"}
Inputs ==
  [core: {"server", "client"},
   throwOnFail: BOOLEAN,
   state: {"plain", "withVariables"},
   variables: Payloads,
   setup: {"null", "throws"} \cup Payloads,
   teardown: {"returns", "throws", "throwsLater"},
   example: {"success", "throwing"},
   info: {"valid", "invalid"},
   trigger: {"returns", "throws"},
   response: {"returns", "throws"},
   finds: Found]

NoWire == Wire(None, None, None)

Init ==
  /\ input \in Inputs
  /\ stage = "setup"
  /\ ran = <<>>
  /\ heard = [h \in Handlers |-> NoWire]
  /\ failure = None
  /\ recorded = None
  /\ answer = NoWire
  /\ stream = "open"
  /\ outcome = "running"

Failed(w) == w.case = "FAILURE"

(* A teardown function may well fail only when it is called once more.     *)
TeardownNow ==
  IF input.teardown = "throwsLater" /\ ran = <<>> THEN "returns"
  ELSE IF input.teardown = "returns" THEN "returns" ELSE "throws"

RunStateHandler(handle) ==
  IF handle = "setup" THEN MapSetup(input.setup) ELSE MapTeardown(TeardownNow)

AsksStateHandler(request) ==
  /\ ran' = Append(ran, HandleFor(request))
  /\ heard' = [heard EXCEPT ![request] = MapResult(RunStateHandler(HandleFor(request)))]

(* executeStateSetup: any error of the handler, and variables it does not  *)
(* return, fail the example, which is then neither triggered nor torn down.*)
RunSetup ==
  /\ stage = "setup"
  /\ input.core = "client"
  /\ AsksStateHandler("setup")
  /\ LET missing == input.state = "withVariables" /\ heard'["setup"].case = "SUCCESS"
     IN  IF Failed(heard'["setup"]) \/ missing
         THEN stage' = "recording" /\ failure' = "CaseConfigurationError"
         ELSE stage' = "asserting" /\ UNCHANGED failure
  /\ UNCHANGED <<input, recorded, answer, stream, outcome>>

SkipSetup ==
  /\ stage = "setup"
  /\ input.core = "server"
  /\ stage' = "trigger"
  /\ UNCHANGED <<input, ran, heard, failure, recorded, answer, stream, outcome>>

(* mapTrigger and invokeTrigger, which throws the errors it knows as they  *)
(* are; the assertions are drained in any case.                            *)
RunTrigger ==
  /\ stage = "trigger"
  /\ MapsStruct(input.variables)
  /\ heard' = [heard EXCEPT !["trigger"] = MapResult(
       IF input.example = "success"
       THEN MapTrigger(input.info, input.trigger, input.response)
       ELSE MapThrowingTrigger(input.info, input.trigger, input.response))]
  /\ IF Failed(heard'["trigger"])
     THEN stage' = "recording" /\ failure' = JsError(heard'["trigger"].kind)
     ELSE stage' = "asserting" /\ UNCHANGED failure
  /\ UNCHANGED <<input, ran, recorded, answer, stream, outcome>>

(* The variables come with the trigger's config.                           *)
TriggerUnmappable ==
  /\ stage = "trigger"
  /\ ~MapsStruct(input.variables)
  /\ stream' = "broken"
  /\ stage' = "answered"
  /\ UNCHANGED <<input, ran, heard, failure, recorded, answer, outcome>>

(* The assertions, and after them the teardown of the states.  The core's  *)
(* mapHandlerClass makes an error of a teardown's failure and does not     *)
(* throw it, so that executeStateTeardown never sees one.                  *)
Assert ==
  /\ stage = "asserting"
  /\ stage' = "recording"
  /\ failure' = CASE input.finds = "differs"       -> "CaseFailedAssertionError"
                  [] input.finds = "configuration" -> "CaseConfigurationError"
                  [] input.finds = "core"          -> "CaseCoreError"
                  [] OTHER                         -> None
  /\ IF input.core = "client" THEN AsksStateHandler("teardown")
                              ELSE UNCHANGED <<ran, heard>>
  /\ UNCHANGED <<input, recorded, answer, stream, outcome>>

(* recordExample and handleResult, jsErrorToFailure.                       *)
Record ==
  /\ stage = "recording"
  /\ stage' = "answered"
  /\ recorded' = CASE failure = None              -> "VERIFIED"
                   [] ErrorType(failure) = "core" -> None
                   [] OTHER                       -> "FAILED"
  /\ LET error == IF failure = None THEN None
                  ELSE HandleResult(ErrorType(failure), input.throwOnFail)
     IN  answer' = IF error = None THEN Wire("SUCCESS", None, None)
                   ELSE Wire("FAILURE", error, None)
  /\ UNCHANGED <<input, ran, heard, failure, stream, outcome>>

(* Without an answer the call ends in the wrapper's own failure.           *)
CallReturns ==
  /\ stage = "answered"
  /\ stage' = "done"
  /\ LET result == IF stream = "open" THEN MapBoundaryResult(answer)
                   ELSE ConnectorFailure("CaseConfigurationError")
         thrown == MapVoid(result)
     IN  outcome' = IF thrown = "returned" THEN "returned" ELSE Rethrown(thrown)
  /\ UNCHANGED <<input, ran, heard, failure, recorded, answer, stream>>

Next ==
  \/ RunSetup \/ SkipSetup \/ RunTrigger \/ TriggerUnmappable
  \/ Assert \/ Record \/ CallReturns

Spec == Init /\ [][Next]_vars

-----------------------------------------------------------------------------
(* Every variable has its type: in particular every result on the wire has *)
(* a case, and every failure there a kind, that the other side knows.      *)
WireResults ==
  {NoWire, Wire("SUCCESS", None, None)}
    \cup {Wire("FAILURE", k, None) : k \in Kinds}
    \cup {Wire("SUCCESS_HAS_MAP", None, p) : p \in Payloads}
TypeOK ==
  /\ input \in Inputs
  /\ stage \in {"setup", "trigger", "asserting", "recording", "answered", "done"}
  /\ ran \in Seq({"setup", "teardown"}) /\ Len(ran) <= 2
  /\ heard \in [Handlers -> WireResults]
  /\ failure \in Kinds \cup {None}
  /\ recorded \in {None, "VERIFIED", "FAILED"}
  /\ answer \in WireResults
  /\ stream \in {"open", "broken"}
  /\ outcome \in {"running", "returned"} \cup Exceptions

(* "Note that any configuration errors will still fail the suite           *)
(* regardless of this setting.  This includes exceptions thrown during     *)
(* trigger functions, but does not include exceptions thrown by            *)
(* testResponse functions": ContractCaseConfig 49-51, of throwOnFail.  A   *)
(* state handler that threw when it was called, one that leaves out        *)
(* variables the state has, a trigger that ended the wrong way and         *)
(* variables that cannot be sent are configuration errors.                 *)
VariablesAreMissing ==
  input.state = "withVariables" /\ heard["setup"].case = "SUCCESS"
TriggerEndsWrong ==
  input.trigger # (IF input.example = "success" THEN "returns" ELSE "throws")
ConfigurationFails ==
  \/ \E handler \in {"setup", "teardown"} : Failed(heard[handler])
  \/ input.core = "client" /\ VariablesAreMissing
  \/ input.core = "server" /\ (TriggerEndsWrong \/ input.variables = "withNull")
ResponseFails == input.core = "server" /\ input.response = "throws"
ExpectationsFail == ResponseFails \/ input.finds = "differs"

(* The one configuration error that the core loses: the call returns as if *)
(* nothing had failed, and the documentation says that it throws.  It is   *)
(* exempt; every other configuration error has to be thrown.               *)
TeardownFailureIsLost == Failed(heard["teardown"])

FailuresAreBlamedAsDocumented ==
  /\ stage = "done"
  /\ input.core = "server" => input.info = "valid"
  /\ ~TeardownFailureIsLost
  =>
    outcome = CASE ConfigurationFails -> "ContractCaseConfigurationError"
                [] ~ConfigurationFails /\ ExpectationsFail ->
                     IF input.throwOnFail THEN "ContractCaseExpectationsNotMet"
                                          ELSE "returned"
                [] ~ConfigurationFails /\ ~ExpectationsFail /\ input.finds = "configuration" ->
                     "ContractCaseConfigurationError"
                [] ~ConfigurationFails /\ ~ExpectationsFail /\ input.finds = "core" ->
                     "ContractCaseCoreError"
                [] OTHER -> "returned"

(* Nothing is lost between the contract and the user's call: an example    *)
(* that returned to its user is in the contract, as verified or, when it   *)
(* was run without throwOnFail, as failed, so that endRecord will fail.    *)
ReturnsAreRecorded ==
  outcome = "returned" =>
    \/ recorded = "VERIFIED"
    \/ recorded = "FAILED" /\ ~input.throwOnFail

(* "Whether this is a setup or a teardown handler", of the stage of a      *)
(* handle, contract_case_stream.proto 69: the function called first is the *)
(* one that sets the state up.                                             *)
SetupRunsBeforeTeardown == ran = <<>> \/ ran[1] = "setup"
=============================================================================
