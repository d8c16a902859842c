---------------------------- MODULE RpcConnector ----------------------------
(***************************************************************************)
(* One connector of the Java wrapper (client/AbstractRpcConnector with its *)
(* SendingWorker and its ContractResponseStreamObserver): threads that     *)
(* call the core and wait for its answer, the one thread that writes to    *)
(* the gRPC stream, the listener thread that reads from it, and the pool   *)
(* threads that run the tests the core starts.  The core and the stream    *)
(* are external: they do what the bundled server and gRPC can do.          *)
(*                                                                         *)
(* A call is one run of executeCallAndWait.  Its id carries the reason and *)
(* the thread's name only to be readable: what makes it unique is nextId,  *)
(* so here the id is that number.                                          *)
(***************************************************************************)
EXTENDS Integers, Sequences

CONSTANTS
  Callers,    \* threads of the user: the ones that define and verify
  Tests,      \* START_TEST_EVENTs of the core; each runs on a pool thread
  Requests,   \* the core's requests answered on the listener thread: state
              \* handlers, triggers, log lines and print requests
  MaxCalls,   \* bound on the calls of a run (nextId of the code is unbounded)
  MaxCloses,  \* bound on the calls of close()
  NoCall      \* the id of no call

CallIds == 0 .. (MaxCalls - 1)
Threads == Callers \cup Tests
RequestIds == Requests \cup Tests

ASSUME BoundsAssumption == MaxCalls \in Nat /\ MaxCloses \in Nat
ASSUME ThreadsAssumption == Callers \cap Tests = {} /\ Requests \cap Tests = {}
ASSUME IdsAssumption ==
  /\ CallIds \cap RequestIds = {}
  /\ NoCall \notin CallIds \cup RequestIds

VARIABLES
  nextId,       \* AbstractRpcConnector.nextId
  pc,           \* where each thread is in executeCallAndWait or in its test
  callId,       \* id of the call each thread is in, or was in last
  registered,   \* the keys of responseFutures
  answer,       \* what each call's future was completed with
  outcome,      \* what each call's executeCallAndWait returned
  queue,        \* SendingWorker.queue
  worker,       \* SendingWorker.run: "running" or "stopped"
  closes,       \* how often close() was called
  listener,     \* the request whose handler runs on the listener thread
  errorStatus,  \* AbstractRpcConnector.errorStatus # null
  stream,       \* external: the gRPC stream as the client sees it
  halfClosed,   \* external: the core saw the client's onCompleted
  toClient,     \* external: messages on their way to the listener
  core,         \* external: what the core knows of each call
  request       \* external: what the core knows of each of its requests

callVars == <<nextId, pc, callId, registered, answer, outcome>>
sendVars == <<queue, worker, closes>>
listenVars == <<listener, errorStatus>>
coreVars == <<stream, halfClosed, toClient, core, request>>
vars == <<callVars, sendVars, listenVars, coreVars>>

Verdicts == {"success", "failure"}
Failures == {"refused", "broken", "timedOut", "interrupted", "threw"}
ThreadStates ==
  {"absent", "idle", "began", "registered", "waiting", "returned", "finished", "died"}
InCall == {"began", "registered", "waiting"}

Task == [type: {"call"}, id: CallIds]
   \cup [type: {"response"}, id: RequestIds]
   \cup [type: {"close"}, id: {NoCall}]
Message == [type: {"result"}, id: CallIds, value: Verdicts]
      \cup [type: {"startTest"}, id: Tests, value: {"none"}]
      \cup [type: {"callback"}, id: Requests, value: {"none"}]

Init ==
  /\ nextId = 0
  /\ pc = [t \in Threads |-> IF t \in Tests THEN "absent" ELSE "idle"]
  /\ callId = [t \in Threads |-> NoCall]
  /\ registered = {}
  /\ answer = [i \in CallIds |-> "none"]
  /\ outcome = [i \in CallIds |-> "none"]
  /\ queue = <<>>
  /\ worker = "running"
  /\ closes = 0
  /\ listener = NoCall
  /\ errorStatus = FALSE
  /\ stream = "open"
  /\ halfClosed = FALSE
  /\ toClient = <<>>
  /\ core = [i \in CallIds |-> "absent"]
  /\ request = [r \in RequestIds |-> "unsent"]

-----------------------------------------------------------------------------
(* executeCallAndWait, on a user thread or, for invokeTest, on a pool      *)
(* thread, which invokes its test at most once.  errorStatus is written by *)
(* the listener thread and is not volatile: a caller may read it as null   *)
(* although it has been set, so only the branches that found it set have a *)
(* guard.                                                                  *)

AfterCall(t) == IF t \in Tests THEN "returned" ELSE "idle"

Return(t, result) ==
  /\ pc' = [pc EXCEPT ![t] = AfterCall(t)]
  /\ outcome' = [outcome EXCEPT ![callId[t]] = result]

(* Mutant: a counter that is read and not advanced. *)
TakeIdAgain(t) ==
  /\ pc[t] = "idle"
  /\ nextId < MaxCalls
  /\ nextId' \in {nextId, nextId + 1}
  /\ callId' = [callId EXCEPT ![t] = nextId]

TakeId(t) ==
  /\ pc[t] = "idle"
  /\ nextId < MaxCalls
  /\ nextId' = nextId + 1
  /\ callId' = [callId EXCEPT ![t] = nextId]

BeginCall(t) ==
  /\ TakeId(t)
  /\ pc' = [pc EXCEPT ![t] = "began"]
  /\ UNCHANGED <<registered, answer, outcome, sendVars, listenVars, coreVars>>

RefuseCall(t) ==
  /\ TakeId(t)
  /\ errorStatus
  /\ pc' = [pc EXCEPT ![t] = AfterCall(t)]
  /\ outcome' = [outcome EXCEPT ![nextId] = "refused"]
  /\ UNCHANGED <<registered, answer, sendVars, listenVars, coreVars>>

RegisterFuture(t) ==
  /\ pc[t] = "began"
  /\ pc' = [pc EXCEPT ![t] = "registered"]
  /\ registered' = registered \cup {callId[t]}
  /\ UNCHANGED <<nextId, callId, answer, outcome, sendVars, listenVars, coreVars>>

SendCall(t) ==
  /\ pc[t] = "registered"
  /\ pc' = [pc EXCEPT ![t] = "waiting"]
  /\ queue' = Append(queue, [type |-> "call", id |-> callId[t]])
  /\ UNCHANGED <<nextId, callId, registered, answer, outcome, worker, closes,
                 listenVars, coreVars>>

(* queue.put throws in a thread that was interrupted; send rethrows, and   *)
(* the future stays in the map.                                            *)
SendInterrupted(t) ==
  /\ t \in Callers
  /\ pc[t] = "registered"
  /\ Return(t, "threw")
  /\ UNCHANGED <<nextId, callId, registered, answer, sendVars, listenVars, coreVars>>

ReturnAnswer(t) ==
  /\ pc[t] = "waiting"
  /\ answer[callId[t]] # "none"
  /\ \/ Return(t, answer[callId[t]])
     \/ errorStatus /\ Return(t, "broken")
  /\ UNCHANGED <<nextId, callId, registered, answer, sendVars, listenVars, coreVars>>

(* Mutant: the timeout tidies the map up. *)
TimeoutForgetsFuture(t) ==
  /\ pc[t] = "waiting"
  /\ answer[callId[t]] = "none"
  /\ Return(t, "timedOut")
  /\ registered' = registered \ {callId[t]}
  /\ UNCHANGED <<nextId, callId, answer, sendVars, listenVars, coreVars>>

(* Mutant: the timeout sends the request again and waits on. *)
TimeoutRetries(t) ==
  /\ pc[t] = "waiting"
  /\ answer[callId[t]] = "none"
  /\ queue' = Append(queue, [type |-> "call", id |-> callId[t]])
  /\ UNCHANGED <<callVars, worker, closes, listenVars, coreVars>>

(* Mutant: future.get() without a timeout. *)
TimeoutNever(t) ==
  /\ pc[t] = "waiting"
  /\ answer[callId[t]] # "none"
  /\ Return(t, answer[callId[t]])
  /\ UNCHANGED <<nextId, callId, registered, answer, sendVars, listenVars, coreVars>>

(* The timeout leaves the future in the map, where a late answer finds it. *)
Timeout(t) ==
  /\ pc[t] = "waiting"
  /\ answer[callId[t]] = "none"
  /\ \/ Return(t, "timedOut")
     \/ errorStatus /\ Return(t, "broken")
  /\ UNCHANGED <<nextId, callId, registered, answer, sendVars, listenVars, coreVars>>

WaitInterrupted(t) ==
  /\ t \in Callers
  /\ pc[t] = "waiting"
  /\ answer[callId[t]] = "none"
  /\ Return(t, "interrupted")
  /\ UNCHANGED <<nextId, callId, registered, answer, sendVars, listenVars, coreVars>>

CloseConnector(t) ==
  /\ t \in Callers
  /\ pc[t] = "idle"
  /\ closes < MaxCloses
  /\ closes' = closes + 1
  /\ queue' = Append(queue, [type |-> "close", id |-> NoCall])
  /\ UNCHANGED <<callVars, worker, listenVars, coreVars>>

-----------------------------------------------------------------------------
(* The task of a pool thread: runTest, then sendResponse.  The executor    *)
(* swallows whatever else it throws, and then no response is sent.         *)

(* Mutant: a response from the body and one more from a finally. *)
TestRespondsTwice(t) ==
  /\ t \in Tests
  /\ pc[t] \in {"idle", "returned"}
  /\ pc' = [pc EXCEPT ![t] = "finished"]
  /\ queue' = queue \o <<[type |-> "response", id |-> t],
                        [type |-> "response", id |-> t]>>
  /\ UNCHANGED <<nextId, callId, registered, answer, outcome, worker, closes,
                 listenVars, coreVars>>

TestResponds(t) ==
  /\ t \in Tests
  /\ pc[t] \in {"idle", "returned"}
  /\ pc' = [pc EXCEPT ![t] = "finished"]
  /\ queue' = Append(queue, [type |-> "response", id |-> t])
  /\ UNCHANGED <<nextId, callId, registered, answer, outcome, worker, closes,
                 listenVars, coreVars>>

TestDies(t) ==
  /\ t \in Tests
  /\ pc[t] \in {"idle", "returned"}
  /\ pc' = [pc EXCEPT ![t] = "died"]
  /\ UNCHANGED <<nextId, callId, registered, answer, outcome, sendVars,
                 listenVars, coreVars>>

-----------------------------------------------------------------------------
(* SendingWorker.run.  gRPC drops what is sent on a dead stream.           *)

WorkerSends ==
  /\ worker = "running"
  /\ queue # <<>>
  /\ Head(queue).type # "close"
  /\ queue' = Tail(queue)
  /\ core' = IF stream = "open" /\ Head(queue).type = "call"
             THEN [core EXCEPT ![Head(queue).id] = "working"] ELSE core
  /\ request' = IF stream = "open" /\ Head(queue).type = "response"
                THEN [request EXCEPT ![Head(queue).id] = "answered"] ELSE request
  /\ UNCHANGED <<callVars, worker, closes, listenVars, stream, halfClosed, toClient>>

(* Mutant: the loop goes on after CLOSE. *)
WorkerGoesOn ==
  /\ worker = "running"
  /\ queue # <<>>
  /\ Head(queue).type = "close"
  /\ queue' = Tail(queue)
  /\ halfClosed' = (halfClosed \/ stream = "open")
  /\ UNCHANGED <<callVars, worker, closes, listenVars, stream, toClient, core, request>>

WorkerCloses ==
  /\ worker = "running"
  /\ queue # <<>>
  /\ Head(queue).type = "close"
  /\ queue' = Tail(queue)
  /\ worker' = "stopped"
  /\ halfClosed' = (halfClosed \/ stream = "open")
  /\ UNCHANGED <<callVars, closes, listenVars, stream, toClient, core, request>>

-----------------------------------------------------------------------------
(* ContractResponseStreamObserver: gRPC calls it on one thread at a time,  *)
(* so the listener takes a message only when no handler is running.        *)

(* Mutant: onNext runs the test itself. *)
ListenerFreeOfTests ==
  /\ listener = NoCall
  /\ \A t \in Tests : pc[t] \in {"absent", "finished", "died"}

(* A test runs on a thread of the pool: the listener does not wait for it. *)
ListenerFree == listener = NoCall

Receives(type) ==
  /\ ListenerFree
  /\ toClient # <<>>
  /\ Head(toClient).type = type

(* gRPC cancels a call whose listener threw: nothing more is delivered,    *)
(* except onError.                                                         *)
CancelStream ==
  /\ stream' = "broken"
  /\ toClient' = <<>>

CompleteWait ==
  /\ Receives("result")
  /\ LET m == Head(toClient)
     IN  IF m.id \in registered
         THEN /\ answer' = [answer EXCEPT ![m.id] = m.value]
              /\ registered' = registered \ {m.id}
              /\ toClient' = Tail(toClient)
              /\ UNCHANGED stream
         ELSE /\ CancelStream
              /\ UNCHANGED <<answer, registered>>
  /\ UNCHANGED <<nextId, pc, callId, outcome, sendVars, listenVars,
                 halfClosed, core, request>>

(* Mutant: onNext runs the test as it runs the other handlers. *)
StartTestInline ==
  /\ Receives("startTest")
  /\ pc' = [pc EXCEPT ![Head(toClient).id] = "idle"]
  /\ listener' = Head(toClient).id
  /\ toClient' = Tail(toClient)
  /\ UNCHANGED <<nextId, callId, registered, answer, outcome, sendVars,
                 errorStatus, stream, halfClosed, core, request>>

StartTest ==
  /\ Receives("startTest")
  /\ pc' = [pc EXCEPT ![Head(toClient).id] = "idle"]
  /\ toClient' = Tail(toClient)
  /\ UNCHANGED <<nextId, callId, registered, answer, outcome, sendVars,
                 listenVars, stream, halfClosed, core, request>>

HandlerBegins ==
  /\ Receives("callback")
  /\ listener' = Head(toClient).id
  /\ toClient' = Tail(toClient)
  /\ UNCHANGED <<callVars, sendVars, errorStatus, stream, halfClosed, core, request>>

(* Mutant: a case of onNext that forgets sendResponse. *)
HandlerForgets ==
  /\ listener # NoCall
  /\ listener' = NoCall
  /\ UNCHANGED <<callVars, sendVars, errorStatus, coreVars>>

HandlerResponds ==
  /\ listener # NoCall
  /\ listener' = NoCall
  /\ queue' = Append(queue, [type |-> "response", id |-> listener])
  /\ UNCHANGED <<callVars, worker, closes, errorStatus, coreVars>>

(* No state handler or trigger of that name, an unknown stage, a message   *)
(* of no kind, a null where none is expected.                              *)
HandlerThrows ==
  /\ listener # NoCall
  /\ listener' = NoCall
  /\ CancelStream
  /\ UNCHANGED <<callVars, sendVars, errorStatus, halfClosed, core, request>>

(* Mutant: onError completes the futures that still wait, with a failure. *)
OnErrorCompletesWaiters ==
  /\ ListenerFree
  /\ stream = "broken"
  /\ toClient = <<>>
  /\ stream' = "failed"
  /\ errorStatus' = TRUE
  /\ answer' = [i \in CallIds |-> IF i \in registered THEN "failure" ELSE answer[i]]
  /\ registered' = {}
  /\ UNCHANGED <<nextId, pc, callId, outcome, sendVars, listener, halfClosed,
                 toClient, core, request>>

OnError ==
  /\ ListenerFree
  /\ stream = "broken"
  /\ toClient = <<>>
  /\ stream' = "failed"
  /\ errorStatus' = TRUE
  /\ UNCHANGED <<callVars, sendVars, listener, halfClosed, toClient, core, request>>

OnCompleted ==
  /\ ListenerFree
  /\ stream = "ended"
  /\ toClient = <<>>
  /\ stream' = "completed"
  /\ UNCHANGED <<callVars, sendVars, listenVars, halfClosed, toClient, core, request>>

-----------------------------------------------------------------------------
(* The core and the stream (external).  The core answers each call at most *)
(* once, in any order, sends each request once, and ends the stream after  *)
(* the client did.                                                         *)

CoreAnswers(i, verdict) ==
  /\ stream = "open"
  /\ core[i] = "working"
  /\ core' = [core EXCEPT ![i] = verdict]
  /\ toClient' = Append(toClient, [type |-> "result", id |-> i, value |-> verdict])
  /\ UNCHANGED <<callVars, sendVars, listenVars, stream, halfClosed, request>>

CoreRequests(r) ==
  /\ stream = "open"
  /\ request[r] = "unsent"
  /\ request' = [request EXCEPT ![r] = "awaiting"]
  /\ toClient' = Append(toClient,
       [type |-> IF r \in Tests THEN "startTest" ELSE "callback",
        id |-> r, value |-> "none"])
  /\ UNCHANGED <<callVars, sendVars, listenVars, stream, halfClosed, core>>

CoreEnds ==
  /\ stream = "open"
  /\ halfClosed
  /\ stream' = "ended"
  /\ UNCHANGED <<callVars, sendVars, listenVars, halfClosed, toClient, core, request>>

(* The core crashes or the connection is lost, and with it an unknown      *)
(* number of the last messages.                                            *)
ConnectionLost ==
  /\ stream \in {"open", "ended"}
  /\ stream' = "broken"
  /\ \E kept \in 0 .. Len(toClient) : toClient' = SubSeq(toClient, 1, kept)
  /\ UNCHANGED <<callVars, sendVars, listenVars, halfClosed, core, request>>

-----------------------------------------------------------------------------
CallStep(t) ==
  \/ BeginCall(t) \/ RefuseCall(t) \/ RegisterFuture(t) \/ SendCall(t)
  \/ SendInterrupted(t) \/ ReturnAnswer(t) \/ Timeout(t) \/ WaitInterrupted(t)
  \/ CloseConnector(t)

TestStep(t) == TestResponds(t) \/ TestDies(t)

WorkerStep == WorkerSends \/ WorkerCloses

ListenerStep ==
  \/ CompleteWait \/ StartTest \/ HandlerBegins
  \/ HandlerResponds \/ HandlerThrows \/ OnError \/ OnCompleted

CoreStep ==
  \/ \E i \in CallIds, verdict \in Verdicts : CoreAnswers(i, verdict)
  \/ \E r \in RequestIds : CoreRequests(r)
  \/ CoreEnds \/ ConnectionLost

Next ==
  \/ \E t \in Threads : CallStep(t) \/ TestStep(t)
  \/ WorkerStep \/ ListenerStep \/ CoreStep

Spec == Init /\ [][Next]_vars

-----------------------------------------------------------------------------
(* Every variable has its type: in particular results name calls, starts   *)
(* of tests name tests, and only a handler of a request that is no test    *)
(* runs on the listener thread.                                            *)
TypeOK ==
  /\ nextId \in 0 .. MaxCalls
  /\ pc \in [Threads -> ThreadStates]
  /\ callId \in [Threads -> CallIds \cup {NoCall}]
  /\ \A t \in Threads : pc[t] \in InCall => callId[t] # NoCall
  /\ registered \subseteq CallIds
  /\ answer \in [CallIds -> Verdicts \cup {"none"}]
  /\ outcome \in [CallIds -> Verdicts \cup Failures \cup {"none"}]
  /\ queue \in Seq(Task)
  /\ worker \in {"running", "stopped"}
  /\ closes \in 0 .. MaxCloses
  /\ listener \in Requests \cup {NoCall}
  /\ errorStatus \in BOOLEAN
  /\ stream \in {"open", "broken", "failed", "ended", "completed"}
  /\ halfClosed \in BOOLEAN
  /\ toClient \in Seq(Message)
  /\ core \in [CallIds -> {"absent", "working"} \cup Verdicts]
  /\ request \in [RequestIds -> {"unsent", "awaiting", "answered"}]

QueuedCalls == {k \in 1 .. Len(queue) : queue[k].type = "call"}
Results == {k \in 1 .. Len(toClient) : toClient[k].type = "result"}

(* completeWait (AbstractRpcConnector 141-155) never misses: whatever the  *)
(* core has still to answer, or has answered, has its future in the map,   *)
(* also when its caller has timed out or was interrupted.  A miss throws   *)
(* on the listener thread, which cancels the stream for every caller.      *)
AnswersFindTheirFuture ==
  /\ \A k \in QueuedCalls : queue[k].id \in registered
  /\ \A i \in CallIds : core[i] = "working" => i \in registered
  /\ \A k \in Results : toClient[k].id \in registered

(* A call is asked once: it is in one place of its way to the core and     *)
(* back, and there once.  (The core answers what it is asked as often as   *)
(* it is asked, and the second answer would find no future.)               *)
CallsAreAskedOnce ==
  /\ \A k \in QueuedCalls : core[queue[k].id] = "absent"
  /\ \A k \in Results :
       core[toClient[k].id] \in Verdicts /\ answer[toClient[k].id] = "none"
  /\ \A j, k \in QueuedCalls : queue[j].id = queue[k].id => j = k
  /\ \A j, k \in Results : toClient[j].id = toClient[k].id => j = k

Responses == {k \in 1 .. Len(queue) : queue[k].type = "response"}

(* A request of the core is answered at most once, and only after the core *)
(* made it: the core throws on a second response to the same id.  The test *)
(* path answers from the pool, the other paths from the listener thread.   *)
RequestsAreAnsweredOnce ==
  /\ \A k \in Responses : request[queue[k].id] = "awaiting"
  /\ \A j, k \in Responses : queue[j].id = queue[k].id => j = k

(* What a call returns as the core's success or failure is what the core   *)
(* decided for that call: never a timeout, a dead connection or the answer *)
(* to another call in disguise.                                            *)
VerdictsComeFromTheCore ==
  \A i \in CallIds : outcome[i] \in Verdicts => core[i] = outcome[i]

(* What makes the three properties above inductive: a thread in a call     *)
(* has an id of its own, which the counter will not issue again; before    *)
(* send its call is unknown to the queue and to the core, and from put on  *)
(* its future is in the map; the core's verdict, the message that carries  *)
(* it and the future it completes agree.                                   *)
CallsOwnTheirIds ==
  /\ \A t \in Threads :
       pc[t] \in InCall => callId[t] < nextId /\ outcome[callId[t]] = "none"
  /\ \A t, u \in Threads :
       pc[t] \in InCall /\ pc[u] \in InCall /\ callId[t] = callId[u] => t = u
IdsAreIssued ==
  /\ \A i \in CallIds : i >= nextId => core[i] = "absent" /\ outcome[i] = "none"
  /\ \A k \in QueuedCalls : queue[k].id < nextId
Unsent == {t \in Threads : pc[t] \in {"began", "registered"}}
UnsentCalls ==
  /\ \A t \in Unsent : core[callId[t]] = "absent"
  /\ \A t \in Unsent, k \in QueuedCalls : queue[k].id # callId[t]
  /\ \A t \in Threads : pc[t] = "registered" => callId[t] \in registered
AnswersAreTheCores ==
  /\ \A k \in Results : core[toClient[k].id] = toClient[k].value
  /\ \A i \in CallIds : answer[i] # "none" => core[i] = answer[i]

CallInv ==
  /\ TypeOK
  /\ CallsOwnTheirIds
  /\ IdsAreIssued
  /\ UnsentCalls
  /\ AnswersAreTheCores
  /\ CallsAreAskedOnce
  /\ AnswersFindTheirFuture
  /\ VerdictsComeFromTheCore

(* After the client's end of the stream is closed nothing more is handed   *)
(* to it: what threads enqueue after CLOSE (a call after endRecord, the    *)
(* response of a test that outlived close()) stays in the queue.           *)
NothingIsSentAfterHalfClose ==
  [][halfClosed =>
       /\ \A i \in CallIds : core[i] = "absent" => core'[i] = "absent"
       /\ \A r \in RequestIds : request[r] = "awaiting" => request'[r] = "awaiting"]_vars

-----------------------------------------------------------------------------
(* Fairness: the JVM runs every thread that can run, gRPC delivers what has *)
(* arrived, and the user's handlers and tests return.  Nothing makes the   *)
(* core answer, a caller call, or anybody close.                           *)
ThreadFairness ==
  /\ WF_vars(WorkerStep)
  /\ WF_vars(ListenerStep)
  /\ \A t \in Threads :
       /\ WF_vars(RegisterFuture(t))
       /\ WF_vars(SendCall(t) \/ SendInterrupted(t))
       /\ WF_vars(ReturnAnswer(t))
       /\ WF_vars(TestStep(t))

LiveSpec == Spec /\ ThreadFairness

(* future.get has a timeout on every call; what needs it says so, to tell  *)
(* "is delivered" from "times out".                                        *)
TimeoutFairness == \A t \in Threads : WF_vars(Timeout(t))

(* executeCallAndWait returns, also when the core never answers, the       *)
(* stream is dead or the worker has stopped: the timeout is what makes it  *)
(* true, since setErrorStatus and close() wake nobody.                     *)
CallsReturn ==
  TimeoutFairness => \A t \in Threads : pc[t] \in InCall ~> pc[t] \notin InCall

(* The listener thread never waits for an answer it has itself to deliver: *)
(* an answer that has arrived completes its future although no timeout     *)
(* ever fires, unless the stream dies.                                     *)
AnswersAreDelivered ==
  \A i \in CallIds :
    (\E k \in Results : toClient[k].id = i)
      ~> answer[i] # "none" \/ stream \notin {"open", "ended"}

(* Each request of the core gets its response while the connection stands, *)
(* unless the test's own thread died of it: a response that is missing     *)
(* would leave the core waiting without a timeout.                         *)
RequestsAreAnswered ==
  TimeoutFairness =>
    \A r \in RequestIds :
      request[r] = "awaiting" ~>
        \/ request[r] = "answered"
        \/ stream # "open" \/ closes > 0
        \/ r \in Tests /\ pc[r] = "died"

-----------------------------------------------------------------------------
(* The connector implements the contract of its calls.                     *)
CallOf(i) ==
  IF i >= nextId THEN "unused"
  ELSE IF outcome[i] = "none" THEN "open"
  ELSE IF outcome[i] \in Verdicts THEN outcome[i] ELSE "error"

ContractCalls == [i \in CallIds |-> CallOf(i)]
ContractVerdicts ==
  [i \in CallIds |-> IF core[i] \in Verdicts THEN core[i] ELSE "none"]

Contract == INSTANCE CallContract WITH
  calls <- ContractCalls, verdict <- ContractVerdicts

(* Each step of the connector is a step of CallContract or changes nothing *)
(* a caller can see.                                                       *)
ImplementsContract == Contract!Spec
=============================================================================
