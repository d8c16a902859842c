------------------------- MODULE RpcConnectorProofs -------------------------
(***************************************************************************)
(* Theorems about RpcConnector, for every set of callers, tests and        *)
(* requests and every bound on the calls and the closes.                   *)
(***************************************************************************)
EXTENDS RpcConnector, TLAPS

(* What the queue and the wire do with a sequence.                         *)
LEMMA AppendFacts ==
  ASSUME NEW S, NEW s \in Seq(S), NEW e \in S
  PROVE  /\ Append(s, e) \in Seq(S)
         /\ Len(s) \in Nat
         /\ Len(Append(s, e)) = Len(s) + 1
         /\ \A k \in 1 .. Len(s) : Append(s, e)[k] = s[k]
         /\ Append(s, e)[Len(s) + 1] = e
  OBVIOUS

LEMMA TailFacts ==
  ASSUME NEW S, NEW s \in Seq(S), s # <<>>
  PROVE  /\ Tail(s) \in Seq(S)
         /\ Head(s) \in S
         /\ Head(s) = s[1]
         /\ Len(s) \in Nat \ {0}
         /\ Len(Tail(s)) = Len(s) - 1
         /\ \A k \in 1 .. (Len(s) - 1) : Tail(s)[k] = s[k + 1]
  OBVIOUS

LEMMA PrefixFacts ==
  ASSUME NEW S, NEW s \in Seq(S), NEW n \in 0 .. Len(s)
  PROVE  /\ SubSeq(s, 1, n) \in Seq(S)
         /\ Len(SubSeq(s, 1, n)) = n
         /\ \A k \in 1 .. n : SubSeq(s, 1, n)[k] = s[k]
  OBVIOUS

-----------------------------------------------------------------------------
(* Type correctness is inductive: RpcConnector keeps its types.            *)
LEMMA TypeInit == Init => TypeOK
<1>1. SUFFICES ASSUME Init PROVE TypeOK
  OBVIOUS
<1>2. 0 \in 0 .. MaxCalls /\ 0 \in 0 .. MaxCloses
  BY BoundsAssumption
<1>3. NoCall \in CallIds \cup {NoCall} /\ <<>> \in Seq(Task) /\ <<>> \in Seq(Message)
  OBVIOUS
<1> QED
  BY <1>1, <1>2, <1>3 DEF Init, TypeOK, ThreadStates, InCall

LEMMA TypeStep == TypeOK /\ [Next]_vars => TypeOK'
<1> SUFFICES ASSUME TypeOK, [Next]_vars PROVE TypeOK'
  OBVIOUS
<1> USE DEF callVars, sendVars, listenVars, coreVars, ThreadStates, InCall
<1>1. ASSUME NEW t \in Threads, CallStep(t) PROVE TypeOK'
  <2>1. CASE BeginCall(t) \/ RefuseCall(t)
    <3>1. nextId \in CallIds /\ nextId + 1 \in 0 .. MaxCalls /\ nextId # NoCall
      <4>1. nextId \in 0 .. MaxCalls /\ nextId < MaxCalls
        BY <2>1 DEF BeginCall, RefuseCall, TakeId, TypeOK
      <4>2. nextId \in CallIds /\ nextId + 1 \in 0 .. MaxCalls
        BY <4>1, BoundsAssumption DEF CallIds
      <4> QED
        BY <4>2, IdsAssumption
    <3>2. /\ nextId' \in 0 .. MaxCalls
          /\ callId' \in [Threads -> CallIds \cup {NoCall}]
          /\ callId'[t] # NoCall
          /\ \A u \in Threads \ {t} : callId'[u] = callId[u] /\ pc'[u] = pc[u]
      BY <2>1, <3>1 DEF BeginCall, RefuseCall, TakeId, TypeOK
    <3>3. pc' \in [Threads -> ThreadStates]
      BY <2>1 DEF BeginCall, RefuseCall, TypeOK, AfterCall
    <3>4. outcome' \in [CallIds -> Verdicts \cup Failures \cup {"none"}]
      BY <2>1, <3>1 DEF BeginCall, RefuseCall, TypeOK, Failures
    <3>5. \A u \in Threads : pc'[u] \in InCall => callId'[u] # NoCall
      BY <3>2 DEF TypeOK
    <3> QED
      BY <2>1, <3>2, <3>3, <3>4, <3>5 DEF BeginCall, RefuseCall, TypeOK
  <2>2. CASE RegisterFuture(t)
    <3>1. callId[t] \in CallIds
      BY <2>2 DEF RegisterFuture, TypeOK
    <3> QED
      BY <2>2, <3>1 DEF RegisterFuture, TypeOK
  <2>3. CASE SendCall(t)
    <3>1. [type |-> "call", id |-> callId[t]] \in Task
      BY <2>3 DEF SendCall, TypeOK, Task
    <3>2. queue' \in Seq(Task)
      BY <2>3, <3>1, AppendFacts DEF SendCall, TypeOK
    <3> QED
      BY <2>3, <3>2 DEF SendCall, TypeOK
  <2>4. CASE SendInterrupted(t)
    BY <2>4 DEF SendInterrupted, TypeOK, Return, AfterCall, Failures
  <2>5. CASE ReturnAnswer(t)
    BY <2>5 DEF ReturnAnswer, TypeOK, Return, AfterCall, Failures
  <2>6. CASE Timeout(t)
    BY <2>6 DEF Timeout, TypeOK, Return, AfterCall, Failures
  <2>7. CASE WaitInterrupted(t)
    BY <2>7 DEF WaitInterrupted, TypeOK, Return, AfterCall, Failures
  <2>8. CASE CloseConnector(t)
    <3>1. [type |-> "close", id |-> NoCall] \in Task
      BY DEF Task
    <3>2. queue' \in Seq(Task) /\ closes' \in 0 .. MaxCloses
      BY <2>8, <3>1, AppendFacts, BoundsAssumption DEF CloseConnector, TypeOK
    <3> QED
      BY <2>8, <3>2 DEF CloseConnector, TypeOK
  <2> QED
    BY <1>1, <2>1, <2>2, <2>3, <2>4, <2>5, <2>6, <2>7, <2>8 DEF CallStep
<1>2. ASSUME NEW t \in Threads, TestStep(t) PROVE TypeOK'
  <2>1. CASE TestResponds(t)
    <3>1. [type |-> "response", id |-> t] \in Task
      BY <2>1 DEF TestResponds, Task, RequestIds
    <3>2. queue' \in Seq(Task)
      BY <2>1, <3>1, AppendFacts DEF TestResponds, TypeOK
    <3> QED
      BY <2>1, <3>2 DEF TestResponds, TypeOK
  <2>2. CASE TestDies(t)
    BY <2>2 DEF TestDies, TypeOK
  <2> QED
    BY <1>2, <2>1, <2>2 DEF TestStep
<1>3. CASE WorkerStep
  <2>1. queue # <<>> /\ queue' = Tail(queue)
    BY <1>3 DEF WorkerStep, WorkerSends, WorkerCloses
  <2>2. queue' \in Seq(Task)
    BY <2>1, TailFacts DEF TypeOK
  <2> QED
    BY <1>3, <2>2 DEF WorkerStep, WorkerSends, WorkerCloses, TypeOK
<1>4. CASE ListenerStep
  <2>1. ASSUME NEW type, Receives(type)
        PROVE  /\ Head(toClient) \in Message
               /\ Head(toClient).type = type
               /\ Tail(toClient) \in Seq(Message)
    BY <2>1, TailFacts DEF Receives, TypeOK
  <2>2. CASE CompleteWait
    <3>1. Head(toClient).id \in CallIds /\ Head(toClient).value \in Verdicts
      BY <2>1, <2>2 DEF CompleteWait, Message
    <3>2. Tail(toClient) \in Seq(Message)
      BY <2>1, <2>2 DEF CompleteWait
    <3>3. /\ answer' \in [CallIds -> Verdicts \cup {"none"}]
          /\ registered' \subseteq CallIds
          /\ toClient' \in Seq(Message)
          /\ stream' \in {"open", "broken", "failed", "ended", "completed"}
      <4>1. CASE Head(toClient).id \in registered
        BY <2>2, <3>1, <3>2, <4>1 DEF CompleteWait, TypeOK
      <4>2. CASE Head(toClient).id \notin registered
        BY <2>2, <4>2 DEF CompleteWait, CancelStream, TypeOK
      <4> QED
        BY <4>1, <4>2
    <3> QED
      BY <2>2, <3>3 DEF CompleteWait, TypeOK
  <2>3. CASE StartTest
    <3>1. Head(toClient).id \in Tests /\ Tail(toClient) \in Seq(Message)
      BY <2>1, <2>3 DEF StartTest, Message
    <3> QED
      BY <2>3, <3>1 DEF StartTest, TypeOK
  <2>4. CASE HandlerBegins
    <3>1. Head(toClient).id \in Requests /\ Tail(toClient) \in Seq(Message)
      BY <2>1, <2>4 DEF HandlerBegins, Message
    <3> QED
      BY <2>4, <3>1 DEF HandlerBegins, TypeOK
  <2>5. CASE HandlerResponds
    <3>1. [type |-> "response", id |-> listener] \in Task
      BY <2>5 DEF HandlerResponds, TypeOK, Task, RequestIds
    <3>2. queue' \in Seq(Task)
      BY <2>5, <3>1, AppendFacts DEF HandlerResponds, TypeOK
    <3> QED
      BY <2>5, <3>2 DEF HandlerResponds, TypeOK
  <2>6. CASE HandlerThrows
    BY <2>6 DEF HandlerThrows, CancelStream, TypeOK
  <2>7. CASE OnError \/ OnCompleted
    BY <2>7 DEF OnError, OnCompleted, TypeOK
  <2> QED
    BY <1>4, <2>2, <2>3, <2>4, <2>5, <2>6, <2>7 DEF ListenerStep
<1>5. CASE CoreStep
  <2>1. ASSUME NEW i \in CallIds, NEW v \in Verdicts, CoreAnswers(i, v) PROVE TypeOK'
    <3>1. [type |-> "result", id |-> i, value |-> v] \in Message
      BY DEF Message
    <3>2. toClient' \in Seq(Message)
      BY <2>1, <3>1, AppendFacts DEF CoreAnswers, TypeOK
    <3> QED
      BY <2>1, <3>2 DEF CoreAnswers, TypeOK
  <2>2. ASSUME NEW r \in RequestIds, CoreRequests(r) PROVE TypeOK'
    <3>1. [type |-> IF r \in Tests THEN "startTest" ELSE "callback",
           id |-> r, value |-> "none"] \in Message
      BY DEF Message, RequestIds
    <3>2. toClient' \in Seq(Message)
      BY <2>2, <3>1, AppendFacts DEF CoreRequests, TypeOK
    <3> QED
      BY <2>2, <3>2 DEF CoreRequests, TypeOK
  <2>3. CASE CoreEnds
    BY <2>3 DEF CoreEnds, TypeOK
  <2>4. CASE ConnectionLost
    <3>1. toClient' \in Seq(Message)
      BY <2>4, PrefixFacts DEF ConnectionLost, TypeOK
    <3> QED
      BY <2>4, <3>1 DEF ConnectionLost, TypeOK
  <2> QED
    BY <1>5, <2>1, <2>2, <2>3, <2>4 DEF CoreStep
<1>6. CASE UNCHANGED vars
  BY <1>6 DEF vars, TypeOK
<1> QED
  BY <1>1, <1>2, <1>3, <1>4, <1>5, <1>6 DEF Next

(* The connector keeps its types: a result names a call, a start of a test *)
(* a test, and a thread in a call has an id.                               *)
THEOREM TypeCorrect == Spec => []TypeOK
<1> QED
  BY TypeInit, TypeStep, PTL DEF Spec

-----------------------------------------------------------------------------
(* How the calls in the queue and the results on the wire follow a step    *)
(* that appends to or takes from them.                                     *)
LEMMA QueueAppend ==
  ASSUME TypeOK, NEW e \in Task, queue' = Append(queue, e)
  PROVE  /\ Len(queue) \in Nat
         /\ \A k \in QueuedCalls : k \in QueuedCalls' /\ queue'[k] = queue[k]
         /\ \A k \in QueuedCalls' : \/ k \in QueuedCalls /\ queue'[k] = queue[k]
                                    \/ /\ k = Len(queue) + 1
                                       /\ queue'[k] = e
                                       /\ e.type = "call"
<1>1. queue \in Seq(Task)
  BY DEF TypeOK
<1> QED
  BY <1>1, AppendFacts DEF QueuedCalls

LEMMA QueueTail ==
  ASSUME TypeOK, queue # <<>>, queue' = Tail(queue)
  PROVE  /\ \A k \in QueuedCalls' :
              k \in Nat \ {0} /\ k + 1 \in QueuedCalls /\ queue'[k] = queue[k + 1]
         /\ Head(queue) \in Task
         /\ Head(queue) = queue[1]
         /\ Head(queue).type = "call" => 1 \in QueuedCalls
<1>1. queue \in Seq(Task)
  BY DEF TypeOK
<1> QED
  BY <1>1, TailFacts DEF QueuedCalls

LEMMA WireAppend ==
  ASSUME TypeOK, NEW m \in Message, toClient' = Append(toClient, m)
  PROVE  /\ Len(toClient) \in Nat
         /\ \A k \in Results' : \/ k \in Results /\ toClient'[k] = toClient[k]
                                \/ /\ k = Len(toClient) + 1
                                   /\ toClient'[k] = m
                                   /\ m.type = "result"
<1>1. toClient \in Seq(Message)
  BY DEF TypeOK
<1> QED
  BY <1>1, AppendFacts DEF Results

LEMMA WireTail ==
  ASSUME TypeOK, toClient # <<>>, toClient' = Tail(toClient)
  PROVE  /\ \A k \in Results' :
              k \in Nat \ {0} /\ k + 1 \in Results /\ toClient'[k] = toClient[k + 1]
         /\ Head(toClient) \in Message
         /\ Head(toClient) = toClient[1]
         /\ Head(toClient).type = "result" => 1 \in Results
<1>1. toClient \in Seq(Message)
  BY DEF TypeOK
<1> QED
  BY <1>1, TailFacts DEF Results

LEMMA QueuedCallIds ==
  ASSUME TypeOK PROVE \A k \in QueuedCalls : queue[k].id \in CallIds
<1>1. \A k \in QueuedCalls : queue[k] \in Task /\ queue[k].type = "call"
  BY DEF TypeOK, QueuedCalls
<1> QED
  BY <1>1 DEF Task

LEMMA ResultIds ==
  ASSUME TypeOK
  PROVE  \A k \in Results : toClient[k].id \in CallIds /\ toClient[k].value \in Verdicts
<1>1. \A k \in Results : toClient[k] \in Message /\ toClient[k].type = "result"
  BY DEF TypeOK, Results
<1> QED
  BY <1>1 DEF Message

LEMMA CallIdTypes ==
  ASSUME TypeOK
  PROVE  /\ \A t \in Threads : pc[t] \in InCall => callId[t] \in CallIds
         /\ nextId \in Int
         /\ CallIds \subseteq Int
<1>1. \A t \in Threads : pc[t] \in InCall => callId[t] \in CallIds
  BY DEF TypeOK
<1>2. nextId \in Int /\ CallIds \subseteq Int
  BY BoundsAssumption DEF TypeOK, CallIds
<1> QED
  BY <1>1, <1>2

-----------------------------------------------------------------------------
LEMMA CallInvInit == Init => CallInv
<1> SUFFICES ASSUME Init PROVE CallInv
  OBVIOUS
<1>1. TypeOK
  BY TypeInit
<1>2. QueuedCalls = {} /\ Results = {}
  BY DEF Init, QueuedCalls, Results
<1>3. \A t \in Threads : pc[t] \notin InCall
  BY DEF Init, InCall
<1> QED
  BY <1>1, <1>2, <1>3
  DEF Init, CallInv, CallsOwnTheirIds, IdsAreIssued, Unsent, UnsentCalls, InCall,
      AnswersAreTheCores, CallsAreAskedOnce, AnswersFindTheirFuture,
      VerdictsComeFromTheCore, Verdicts

(* A step that leaves alone what CallInv speaks of, or only takes threads  *)
(* out of their calls, queues no call and delivers no result.              *)
LEMMA CallInvQuietStep ==
  ASSUME CallInv, TypeOK',
         UNCHANGED <<nextId, callId, registered, answer, outcome, core>>,
         \A t \in Threads : pc'[t] \in InCall => pc'[t] = pc[t],
         \/ \A k \in QueuedCalls' : k \in QueuedCalls /\ queue'[k] = queue[k]
         \/ queue # <<>> /\ queue' = Tail(queue),
         \/ \A k \in Results' : k \in Results /\ toClient'[k] = toClient[k]
         \/ toClient # <<>> /\ toClient' = Tail(toClient)
  PROVE  CallInv'
<1> USE DEF CallInv, InCall
<1>1. PICK c \in {0, 1} :
        \A k \in QueuedCalls' :
          k \in Int /\ k + c \in QueuedCalls /\ queue'[k] = queue[k + c]
  <2>1. CASE \A k \in QueuedCalls' : k \in QueuedCalls /\ queue'[k] = queue[k]
    <3>1. Len(queue') \in Nat
      BY DEF TypeOK
    <3>2. \A k \in QueuedCalls' : k \in Int /\ k + 0 = k
      BY <3>1 DEF QueuedCalls
    <3> QED
      BY <2>1, <3>2
  <2>2. CASE queue # <<>> /\ queue' = Tail(queue)
    <3>1. \A k \in QueuedCalls' :
            k \in Nat /\ k + 1 \in QueuedCalls /\ queue'[k] = queue[k + 1]
      BY <2>2, QueueTail
    <3> QED
      BY <3>1
  <2> QED
    BY <2>1, <2>2
<1>2. PICK d \in {0, 1} :
        \A k \in Results' :
          k \in Int /\ k + d \in Results /\ toClient'[k] = toClient[k + d]
  <2>1. CASE \A k \in Results' : k \in Results /\ toClient'[k] = toClient[k]
    <3>1. Len(toClient') \in Nat
      BY DEF TypeOK
    <3>2. \A k \in Results' : k \in Int /\ k + 0 = k
      BY <3>1 DEF Results
    <3> QED
      BY <2>1, <3>2
  <2>2. CASE toClient # <<>> /\ toClient' = Tail(toClient)
    <3>1. \A k \in Results' :
            k \in Nat /\ k + 1 \in Results /\ toClient'[k] = toClient[k + 1]
      BY <2>2, WireTail
    <3> QED
      BY <3>1
  <2> QED
    BY <2>1, <2>2
<1>3. CallsOwnTheirIds'
  BY DEF CallsOwnTheirIds
<1>4. IdsAreIssued'
  BY <1>1 DEF IdsAreIssued
<1>5. UnsentCalls'
  BY <1>1 DEF UnsentCalls, Unsent
<1>6. AnswersAreTheCores'
  BY <1>2 DEF AnswersAreTheCores
<1>7. CallsAreAskedOnce'
  <2>1. \A j, k \in QueuedCalls' : queue'[j].id = queue'[k].id => j = k
    BY <1>1 DEF CallsAreAskedOnce
  <2>2. \A j, k \in Results' : toClient'[j].id = toClient'[k].id => j = k
    BY <1>2 DEF CallsAreAskedOnce
  <2> QED
    BY <1>1, <1>2, <2>1, <2>2 DEF CallsAreAskedOnce
<1>8. AnswersFindTheirFuture'
  BY <1>1, <1>2 DEF AnswersFindTheirFuture
<1>9. VerdictsComeFromTheCore'
  BY DEF VerdictsComeFromTheCore
<1> QED
  BY <1>3, <1>4, <1>5, <1>6, <1>7, <1>8, <1>9

LEMMA CallInvBegin ==
  ASSUME CallInv, TypeOK', NEW t \in Threads, BeginCall(t) \/ RefuseCall(t)
  PROVE  CallInv'
<1> USE DEF CallInv, callVars, sendVars, listenVars, coreVars
<1>1. /\ nextId \in CallIds /\ nextId' = nextId + 1 /\ nextId \in Int
      /\ CallIds \subseteq Int
      /\ callId' = [callId EXCEPT ![t] = nextId]
      /\ callId'[t] = nextId
      /\ \A u \in Threads \ {t} : callId'[u] = callId[u] /\ pc'[u] = pc[u]
      /\ UNCHANGED <<registered, answer, core, queue, toClient>>
      /\ pc'[t] = "registered" => FALSE
  <2>1. nextId \in 0 .. MaxCalls /\ nextId < MaxCalls
    BY DEF BeginCall, RefuseCall, TakeId, TypeOK
  <2>2. nextId \in CallIds /\ nextId \in Int /\ CallIds \subseteq Int
    BY <2>1, BoundsAssumption DEF CallIds
  <2>3. pc'[t] # "registered"
    BY DEF BeginCall, RefuseCall, AfterCall, TypeOK
  <2> QED
    BY <2>2, <2>3 DEF BeginCall, RefuseCall, TakeId, TypeOK
<1>2. QueuedCalls' = QueuedCalls /\ Results' = Results
  BY <1>1 DEF QueuedCalls, Results
<1>3. /\ \A i \in CallIds : i # nextId => outcome'[i] = outcome[i]
      /\ pc'[t] \in InCall => outcome' = outcome
      /\ outcome'[nextId] \notin Verdicts
      /\ outcome[nextId] = "none"
  <2>1. outcome[nextId] = "none"
    BY <1>1 DEF IdsAreIssued
  <2>2. CASE BeginCall(t)
    BY <2>1, <2>2 DEF BeginCall, Verdicts
  <2>3. CASE RefuseCall(t)
    <3>1. pc'[t] \notin InCall
      BY <2>3 DEF RefuseCall, AfterCall, InCall, TypeOK
    <3> QED
      BY <1>1, <2>1, <2>3, <3>1 DEF RefuseCall, TypeOK, Verdicts
  <2> QED
    BY <2>2, <2>3
<1>4. CallsOwnTheirIds'
  <2>1. \A u \in Threads \ {t} :
          pc'[u] \in InCall =>
            callId'[u] # nextId /\ callId'[u] < nextId' /\ outcome'[callId'[u]] = "none"
    <3>1. ASSUME NEW u \in Threads \ {t}, pc'[u] \in InCall
          PROVE  callId[u] \in CallIds /\ callId[u] \in Int /\ callId[u] < nextId
                 /\ outcome[callId[u]] = "none"
      BY <1>1, <3>1, CallIdTypes DEF CallsOwnTheirIds
    <3>2. \A u \in Threads \ {t} : pc'[u] \in InCall => callId[u] # nextId
      BY <1>1, <3>1
    <3> QED
      BY <1>1, <1>3, <3>1, <3>2
  <2>2. pc'[t] \in InCall => callId'[t] < nextId' /\ outcome'[callId'[t]] = "none"
    BY <1>1, <1>3
  <2> QED
    BY <1>1, <2>1, <2>2 DEF CallsOwnTheirIds
<1>5. IdsAreIssued'
  <2>1. \A i \in CallIds : i >= nextId' => i >= nextId /\ i # nextId
    BY <1>1
  <2>2. \A k \in QueuedCalls' : queue'[k].id < nextId'
    <3>1. \A k \in QueuedCalls : queue[k].id \in Int /\ queue[k].id < nextId
      BY <1>1, QueuedCallIds DEF IdsAreIssued
    <3> QED
      BY <1>1, <1>2, <3>1
  <2> QED
    BY <1>1, <1>3, <2>1, <2>2 DEF IdsAreIssued
<1>6. UnsentCalls'
  <2>1. \A u \in Unsent' : u = t \/ (u \in Unsent /\ callId'[u] = callId[u])
    BY <1>1 DEF Unsent
  <2>2. core[nextId] = "absent" /\ \A k \in QueuedCalls : queue[k].id # nextId
    BY <1>1, QueuedCallIds DEF IdsAreIssued
  <2> QED
    BY <1>1, <1>2, <2>1, <2>2 DEF UnsentCalls
<1>7. AnswersAreTheCores' /\ CallsAreAskedOnce' /\ AnswersFindTheirFuture'
  BY <1>1, <1>2 DEF AnswersAreTheCores, CallsAreAskedOnce, AnswersFindTheirFuture
<1>8. VerdictsComeFromTheCore'
  BY <1>1, <1>3 DEF VerdictsComeFromTheCore
<1> QED
  BY <1>4, <1>5, <1>6, <1>7, <1>8

LEMMA CallInvRegister ==
  ASSUME CallInv, TypeOK', NEW t \in Threads, RegisterFuture(t)
  PROVE  CallInv'
<1> USE DEF CallInv, sendVars, listenVars, coreVars
<1>1. /\ pc[t] \in InCall /\ t \in Unsent
      /\ pc' = [pc EXCEPT ![t] = "registered"]
      /\ registered' = registered \cup {callId[t]}
      /\ UNCHANGED <<nextId, callId, answer, outcome, core, queue, toClient>>
      /\ pc'[t] = "registered"
      /\ \A u \in Threads \ {t} : pc'[u] = pc[u]
  BY DEF RegisterFuture, InCall, Unsent, TypeOK
<1>2. QueuedCalls' = QueuedCalls /\ Results' = Results
  BY <1>1 DEF QueuedCalls, Results
<1>3. Unsent' = Unsent
  BY <1>1 DEF Unsent
<1>4. CallsOwnTheirIds' /\ IdsAreIssued'
  BY <1>1, <1>2 DEF CallsOwnTheirIds, IdsAreIssued
<1>5. UnsentCalls'
  BY <1>1, <1>2, <1>3 DEF UnsentCalls
<1>6. AnswersAreTheCores' /\ CallsAreAskedOnce' /\ VerdictsComeFromTheCore'
  BY <1>1, <1>2 DEF AnswersAreTheCores, CallsAreAskedOnce, VerdictsComeFromTheCore
<1>7. AnswersFindTheirFuture'
  BY <1>1, <1>2 DEF AnswersFindTheirFuture
<1> QED
  BY <1>4, <1>5, <1>6, <1>7

LEMMA CallInvSend ==
  ASSUME CallInv, TypeOK', NEW t \in Threads, SendCall(t)
  PROVE  CallInv'
<1> USE DEF CallInv, listenVars, coreVars
<1> DEFINE e == [type |-> "call", id |-> callId[t]]
<1>1. /\ pc[t] = "registered" /\ pc[t] \in InCall /\ t \in Unsent
      /\ pc'[t] = "waiting"
      /\ queue' = Append(queue, e)
      /\ UNCHANGED <<nextId, callId, registered, answer, outcome, core, toClient>>
      /\ \A u \in Threads \ {t} : pc'[u] = pc[u]
  BY DEF SendCall, InCall, Unsent, TypeOK
<1>2. callId[t] \in CallIds /\ e \in Task
  BY <1>1, CallIdTypes DEF Task
<1>3. /\ Len(queue) \in Nat
      /\ \A k \in QueuedCalls' : \/ k \in QueuedCalls /\ queue'[k] = queue[k]
                                 \/ k = Len(queue) + 1 /\ queue'[k] = e
  BY <1>1, <1>2, QueueAppend
<1>4. Results' = Results
  BY <1>1 DEF Results
<1>5. Unsent' = Unsent \ {t}
  BY <1>1 DEF Unsent
<1> HIDE DEF e
<1>6. e.id = callId[t]
  BY DEF e
<1>7. CallsOwnTheirIds'
  BY <1>1 DEF CallsOwnTheirIds
<1>8. IdsAreIssued'
  BY <1>1, <1>3, <1>6 DEF IdsAreIssued, CallsOwnTheirIds
<1>9. UnsentCalls'
  <2>1. \A u \in Unsent' : callId[u] # callId[t]
    BY <1>1, <1>5 DEF CallsOwnTheirIds, Unsent, InCall
  <2>2. \A u \in Unsent', k \in QueuedCalls' : queue'[k].id # callId'[u]
    BY <1>1, <1>3, <1>5, <1>6, <2>1 DEF UnsentCalls
  <2>3. \A u \in Threads : pc'[u] = "registered" => callId'[u] \in registered'
    BY <1>1 DEF UnsentCalls
  <2> QED
    BY <1>1, <1>5, <2>2, <2>3 DEF UnsentCalls
<1>10. AnswersAreTheCores' /\ VerdictsComeFromTheCore'
  BY <1>1, <1>4 DEF AnswersAreTheCores, VerdictsComeFromTheCore
<1>11. CallsAreAskedOnce'
  <2>1. core[callId[t]] = "absent" /\ \A k \in QueuedCalls : queue[k].id # callId[t]
    BY <1>1 DEF UnsentCalls
  <2>2. \A k \in QueuedCalls' : core'[queue'[k].id] = "absent"
    BY <1>1, <1>3, <1>6, <2>1 DEF CallsAreAskedOnce
  <2>3. \A j, k \in QueuedCalls' : queue'[j].id = queue'[k].id => j = k
    BY <1>3, <1>6, <2>1 DEF CallsAreAskedOnce
  <2> QED
    BY <1>1, <1>4, <2>2, <2>3 DEF CallsAreAskedOnce
<1>12. AnswersFindTheirFuture'
  <2>1. callId[t] \in registered
    BY <1>1 DEF UnsentCalls
  <2> QED
    BY <1>1, <1>3, <1>4, <1>6, <2>1 DEF AnswersFindTheirFuture
<1> QED
  BY <1>7, <1>8, <1>9, <1>10, <1>11, <1>12

LEMMA CallInvReturn ==
  ASSUME CallInv, TypeOK', NEW t \in Threads, pc[t] \in InCall,
         NEW r, Return(t, r), r \in Verdicts => r = answer[callId[t]],
         UNCHANGED <<nextId, callId, registered, answer, core, queue, toClient>>
  PROVE  CallInv'
<1> USE DEF CallInv
<1>1. /\ pc'[t] \notin InCall
      /\ \A u \in Threads \ {t} : pc'[u] = pc[u]
      /\ callId[t] \in CallIds
      /\ outcome'[callId[t]] = r
      /\ \A i \in CallIds \ {callId[t]} : outcome'[i] = outcome[i]
      /\ callId[t] < nextId /\ nextId \in Int /\ CallIds \subseteq Int
  BY CallIdTypes DEF Return, AfterCall, InCall, TypeOK, CallsOwnTheirIds
<1>2. QueuedCalls' = QueuedCalls /\ Results' = Results
  BY DEF QueuedCalls, Results
<1>3. Unsent' \subseteq Unsent /\ \A u \in Unsent' : u # t
  BY <1>1 DEF Unsent, InCall
<1>4. CallsOwnTheirIds'
  <2>1. \A u \in Threads : pc'[u] \in InCall => u # t /\ pc[u] \in InCall
    BY <1>1
  <2>2. \A u \in Threads :
          pc'[u] \in InCall => callId[u] \in CallIds /\ callId[u] # callId[t]
    BY <2>1, CallIdTypes DEF CallsOwnTheirIds
  <2> QED
    BY <1>1, <2>1, <2>2 DEF CallsOwnTheirIds
<1>5. IdsAreIssued'
  BY <1>1, <1>2 DEF IdsAreIssued
<1>6. UnsentCalls'
  <2>1. \A u \in Threads : pc'[u] = "registered" => pc[u] = "registered"
    BY <1>1 DEF InCall
  <2> QED
    BY <1>2, <1>3, <2>1 DEF UnsentCalls
<1>7. AnswersAreTheCores' /\ CallsAreAskedOnce' /\ AnswersFindTheirFuture'
  BY <1>2 DEF AnswersAreTheCores, CallsAreAskedOnce, AnswersFindTheirFuture
<1>8. VerdictsComeFromTheCore'
  BY <1>1 DEF VerdictsComeFromTheCore, AnswersAreTheCores, Verdicts
<1> QED
  BY <1>4, <1>5, <1>6, <1>7, <1>8

LEMMA CallInvWorker ==
  ASSUME CallInv, TypeOK', WorkerStep
  PROVE  CallInv'
<1> USE DEF CallInv, callVars, listenVars
<1>1. /\ queue # <<>> /\ queue' = Tail(queue)
      /\ UNCHANGED <<nextId, pc, callId, registered, answer, outcome, toClient>>
      /\ Results' = Results
  BY DEF WorkerStep, WorkerSends, WorkerCloses, Results
<1>2. CASE core' = core
  BY <1>1, <1>2, CallInvQuietStep
<1>3. CASE core' # core
  <2> DEFINE i == Head(queue).id
  <2>1. /\ Head(queue).type = "call"
        /\ core' = [core EXCEPT ![i] = "working"]
    BY <1>3 DEF WorkerStep, WorkerSends, WorkerCloses
  <2>2. /\ 1 \in QueuedCalls /\ queue[1].id = i
        /\ \A k \in QueuedCalls' :
             /\ k \in Nat /\ k + 1 \in QueuedCalls /\ k + 1 # 1
             /\ queue'[k] = queue[k + 1]
    <3>1. /\ 1 \in QueuedCalls /\ queue[1].id = i
          /\ \A k \in QueuedCalls' :
               k \in Nat \ {0} /\ k + 1 \in QueuedCalls /\ queue'[k] = queue[k + 1]
      BY <1>1, <2>1, QueueTail
    <3>2. \A k \in Nat \ {0} : k + 1 # 1
      OBVIOUS
    <3> QED
      BY <3>1, <3>2
  <2>3. i \in CallIds /\ core[i] = "absent" /\ i \in registered /\ i < nextId
    BY <2>2, QueuedCallIds DEF CallsAreAskedOnce, AnswersFindTheirFuture, IdsAreIssued
  <2>4. /\ core'[i] = "working"
        /\ \A j \in CallIds \ {i} : core'[j] = core[j]
        /\ CallIds \subseteq Int /\ nextId \in Int
    BY <2>1, <2>3, CallIdTypes DEF TypeOK
  <2>5. \A k \in QueuedCalls' : queue'[k].id # i /\ queue'[k].id \in CallIds
    BY <2>2, QueuedCallIds DEF CallsAreAskedOnce
  <2> HIDE DEF i
  <2>6. CallsOwnTheirIds'
    BY <1>1 DEF CallsOwnTheirIds
  <2>7. IdsAreIssued'
    <3>1. \A j \in CallIds : j >= nextId => j # i
      BY <2>3, <2>4
    <3> QED
      BY <1>1, <2>2, <2>4, <3>1 DEF IdsAreIssued
  <2>8. UnsentCalls'
    <3>1. Unsent' = Unsent
      BY <1>1 DEF Unsent
    <3>2. \A t \in Unsent : callId[t] # i /\ callId[t] \in CallIds
      BY <2>2, CallIdTypes DEF UnsentCalls, Unsent, InCall
    <3> QED
      BY <1>1, <2>2, <2>4, <3>1, <3>2 DEF UnsentCalls
  <2>9. \A k \in Results : toClient[k].id # i
    BY <2>3 DEF CallsAreAskedOnce, Verdicts
  <2>10. AnswersAreTheCores'
    <3>1. answer[i] = "none"
      BY <2>3 DEF AnswersAreTheCores, TypeOK, Verdicts
    <3> QED
      BY <1>1, <2>4, <2>9, <3>1, ResultIds DEF AnswersAreTheCores
  <2>11. CallsAreAskedOnce'
    <3>1. \A j, k \in QueuedCalls' : queue'[j].id = queue'[k].id => j = k
      BY <2>2 DEF CallsAreAskedOnce
    <3>2. \A k \in QueuedCalls' : core[queue'[k].id] = "absent"
      BY <2>2 DEF CallsAreAskedOnce
    <3>3. \A k \in QueuedCalls' : core'[queue'[k].id] = "absent"
      BY <2>4, <2>5, <3>2
    <3>4. \A k \in Results : core'[toClient[k].id] = core[toClient[k].id]
      BY <2>4, <2>9, ResultIds
    <3> QED
      BY <1>1, <3>1, <3>3, <3>4 DEF CallsAreAskedOnce
  <2>12. AnswersFindTheirFuture'
    BY <1>1, <2>2, <2>3, <2>4 DEF AnswersFindTheirFuture
  <2>13. VerdictsComeFromTheCore'
    BY <1>1, <2>3, <2>4 DEF VerdictsComeFromTheCore, Verdicts
  <2> QED
    BY <2>6, <2>7, <2>8, <2>10, <2>11, <2>12, <2>13
<1> QED
  BY <1>2, <1>3

LEMMA CallInvComplete ==
  ASSUME CallInv, TypeOK', CompleteWait
  PROVE  CallInv'
<1> USE DEF CallInv, sendVars, listenVars
<1> DEFINE i == Head(toClient).id
           v == Head(toClient).value
<1>1. /\ toClient # <<>> /\ Head(toClient).type = "result"
      /\ UNCHANGED <<nextId, pc, callId, outcome, queue, core>>
      /\ QueuedCalls' = QueuedCalls
  BY DEF CompleteWait, Receives, QueuedCalls
<1>2. 1 \in Results /\ toClient[1].id = i /\ toClient[1].value = v
  BY <1>1, AppendFacts, TailFacts DEF TypeOK, Results
<1>3. /\ i \in registered /\ i \in CallIds
      /\ core[i] = v /\ v \in Verdicts /\ answer[i] = "none"
  BY <1>2, ResultIds
     DEF AnswersFindTheirFuture, CallsAreAskedOnce, AnswersAreTheCores
<1>4. /\ toClient' = Tail(toClient)
      /\ answer' = [answer EXCEPT ![i] = v]
      /\ registered' = registered \ {i}
  BY <1>3 DEF CompleteWait
<1>5. \A k \in Results' : /\ k \in Nat /\ k + 1 \in Results /\ k + 1 # 1
                          /\ toClient'[k] = toClient[k + 1]
  <2>1. \A k \in Results' :
          k \in Nat \ {0} /\ k + 1 \in Results /\ toClient'[k] = toClient[k + 1]
    BY <1>1, <1>4, WireTail
  <2>2. \A k \in Nat \ {0} : k + 1 # 1
    OBVIOUS
  <2> QED
    BY <2>1, <2>2
<1>6. \A k \in Results' : toClient'[k].id # i /\ toClient'[k].id \in CallIds
  BY <1>2, <1>5, ResultIds DEF CallsAreAskedOnce
<1>7. /\ answer'[i] = v
      /\ \A j \in CallIds \ {i} : answer'[j] = answer[j]
  BY <1>3, <1>4 DEF TypeOK
<1> HIDE DEF i, v
<1>8. CallsOwnTheirIds' /\ IdsAreIssued' /\ VerdictsComeFromTheCore'
  BY <1>1 DEF CallsOwnTheirIds, IdsAreIssued, VerdictsComeFromTheCore
<1>9. UnsentCalls'
  <2>1. Unsent' = Unsent
    BY <1>1 DEF Unsent
  <2>2. \A t \in Threads : pc[t] = "registered" => callId[t] # i
    BY <1>3 DEF UnsentCalls, Unsent, Verdicts
  <2> QED
    BY <1>1, <1>4, <2>1, <2>2 DEF UnsentCalls
<1>10. AnswersAreTheCores'
  BY <1>1, <1>3, <1>5, <1>7 DEF AnswersAreTheCores
<1>11. CallsAreAskedOnce'
  <2>1. \A j, k \in Results' : toClient'[j].id = toClient'[k].id => j = k
    BY <1>5 DEF CallsAreAskedOnce
  <2> QED
    BY <1>1, <1>5, <1>6, <1>7, <2>1 DEF CallsAreAskedOnce
<1>12. AnswersFindTheirFuture'
  <2>1. \A k \in QueuedCalls : queue[k].id # i
    BY <1>3 DEF CallsAreAskedOnce, Verdicts
  <2>2. core[i] # "working"
    BY <1>3 DEF Verdicts
  <2> QED
    BY <1>1, <1>4, <1>5, <1>6, <2>1, <2>2 DEF AnswersFindTheirFuture
<1> QED
  BY <1>8, <1>9, <1>10, <1>11, <1>12

LEMMA CallInvCoreAnswers ==
  ASSUME CallInv, TypeOK', NEW i \in CallIds, NEW v \in Verdicts, CoreAnswers(i, v)
  PROVE  CallInv'
<1> USE DEF CallInv, callVars, sendVars, listenVars
<1> DEFINE m == [type |-> "result", id |-> i, value |-> v]
<1>1. /\ core[i] = "working"
      /\ core' = [core EXCEPT ![i] = v]
      /\ toClient' = Append(toClient, m)
      /\ UNCHANGED <<nextId, pc, callId, registered, answer, outcome, queue>>
      /\ QueuedCalls' = QueuedCalls
  BY DEF CoreAnswers, QueuedCalls
<1>2. m \in Message /\ m.id = i /\ m.value = v
  BY DEF Message
<1>3. /\ Len(toClient) \in Nat
      /\ \A k \in Results' : \/ k \in Results /\ toClient'[k] = toClient[k]
                             \/ k = Len(toClient) + 1 /\ toClient'[k] = m
  BY <1>1, <1>2, WireAppend
<1>4. /\ core'[i] = v
      /\ \A j \in CallIds \ {i} : core'[j] = core[j]
  BY <1>1 DEF TypeOK
<1>5. /\ \A k \in Results : toClient[k].id # i
      /\ answer[i] = "none" /\ outcome[i] \notin Verdicts
      /\ i < nextId
      /\ \A k \in QueuedCalls : queue[k].id # i
  <2>1. core[i] \notin Verdicts /\ core[i] # "absent"
    BY <1>1 DEF Verdicts
  <2>2. nextId \in Int /\ i \in Int
    BY CallIdTypes
  <2>3. answer[i] = "none"
    BY <2>1 DEF AnswersAreTheCores, TypeOK
  <2> QED
    BY <2>1, <2>2, <2>3
       DEF CallsAreAskedOnce, IdsAreIssued, VerdictsComeFromTheCore
<1> HIDE DEF m
<1>6. CallsOwnTheirIds'
  BY <1>1 DEF CallsOwnTheirIds
<1>7. IdsAreIssued'
  <2>1. nextId \in Int /\ CallIds \subseteq Int
    BY CallIdTypes
  <2> QED
    BY <1>1, <1>4, <1>5, <2>1 DEF IdsAreIssued
<1>8. UnsentCalls'
  <2>1. Unsent' = Unsent
    BY <1>1 DEF Unsent
  <2>2. \A t \in Unsent : callId[t] # i /\ callId[t] \in CallIds
    BY <1>1, CallIdTypes DEF UnsentCalls, Unsent, InCall
  <2> QED
    BY <1>1, <1>4, <2>1, <2>2 DEF UnsentCalls
<1>9. AnswersAreTheCores'
  <2>1. \A k \in Results : core'[toClient[k].id] = core[toClient[k].id]
    BY <1>4, <1>5, ResultIds
  <2>2. \A k \in Results' : core'[toClient'[k].id] = toClient'[k].value
    BY <1>2, <1>3, <1>4, <2>1 DEF AnswersAreTheCores
  <2>3. \A j \in CallIds : answer[j] # "none" => j # i /\ core[j] = answer[j]
    BY <1>5 DEF AnswersAreTheCores
  <2> QED
    BY <1>1, <1>4, <2>2, <2>3 DEF AnswersAreTheCores
<1>10. CallsAreAskedOnce'
  <2>1. \A j, k \in Results' : toClient'[j].id = toClient'[k].id => j = k
    BY <1>2, <1>3, <1>5 DEF CallsAreAskedOnce
  <2>2. \A k \in Results' :
          core'[toClient'[k].id] \in Verdicts /\ answer'[toClient'[k].id] = "none"
    <3>1. \A k \in Results :
            core'[toClient[k].id] \in Verdicts /\ answer[toClient[k].id] = "none"
      BY <1>4, <1>5, ResultIds DEF CallsAreAskedOnce
    <3> QED
      BY <1>1, <1>2, <1>3, <1>4, <1>5, <3>1
  <2>3. \A k \in QueuedCalls : queue[k].id \in CallIds
    BY QueuedCallIds
  <2> QED
    BY <1>1, <1>4, <1>5, <2>1, <2>2, <2>3 DEF CallsAreAskedOnce
<1>11. AnswersFindTheirFuture'
  BY <1>1, <1>2, <1>3, <1>4 DEF AnswersFindTheirFuture, Verdicts
<1>12. VerdictsComeFromTheCore'
  BY <1>1, <1>4, <1>5 DEF VerdictsComeFromTheCore
<1> QED
  BY <1>6, <1>7, <1>8, <1>9, <1>10, <1>11, <1>12

(* Steps of the other actors that append a response, a close or a request, *)
(* or throw messages away.                                                 *)
LEMMA CallInvOtherStep ==
  ASSUME CallInv, TypeOK',
         \/ \E t \in Threads : CloseConnector(t) \/ TestStep(t)
         \/ StartTest \/ HandlerBegins \/ HandlerResponds \/ HandlerThrows
         \/ OnError \/ OnCompleted
         \/ \E r \in RequestIds : CoreRequests(r)
         \/ CoreEnds \/ ConnectionLost
         \/ UNCHANGED vars
  PROVE  CallInv'
<1> USE DEF callVars, sendVars, listenVars, coreVars
<1>1. TypeOK
  BY DEF CallInv
<1>2. UNCHANGED <<nextId, callId, registered, answer, outcome, core>>
  BY DEF CloseConnector, TestStep, TestResponds, TestDies, StartTest, HandlerBegins,
         HandlerResponds, HandlerThrows, OnError, OnCompleted, CoreRequests,
         CoreEnds, ConnectionLost, vars
<1>3. \A t \in Threads : pc'[t] \in InCall => pc'[t] = pc[t]
  <2>1. CASE \E t \in Threads : TestStep(t)
    BY <1>1, <2>1 DEF TestStep, TestResponds, TestDies, InCall, TypeOK
  <2>2. CASE StartTest
    BY <1>1, <2>2 DEF StartTest, InCall, TypeOK
  <2>3. CASE pc' = pc
    BY <2>3
  <2> QED
    BY <2>1, <2>2, <2>3
    DEF CloseConnector, HandlerBegins, HandlerResponds, HandlerThrows, OnError,
        OnCompleted, CoreRequests, CoreEnds, ConnectionLost, vars
<1>4. \A k \in QueuedCalls' : k \in QueuedCalls /\ queue'[k] = queue[k]
  <2>1. ASSUME NEW e \in Task, e.type # "call", queue' = Append(queue, e)
        PROVE  \A k \in QueuedCalls' : k \in QueuedCalls /\ queue'[k] = queue[k]
    BY <1>1, <2>1, QueueAppend
  <2>2. CASE queue' = queue
    BY <2>2 DEF QueuedCalls
  <2>3. ASSUME NEW t \in Threads, CloseConnector(t)
        PROVE  \E e \in Task : e.type # "call" /\ queue' = Append(queue, e)
    BY <2>3 DEF CloseConnector, Task
  <2>4. ASSUME NEW t \in Threads, TestResponds(t)
        PROVE  \E e \in Task : e.type # "call" /\ queue' = Append(queue, e)
    BY <2>4 DEF TestResponds, Task, RequestIds
  <2>5. CASE HandlerResponds
    <3>1. \E e \in Task : e.type # "call" /\ queue' = Append(queue, e)
      <4>1. [type |-> "response", id |-> listener] \in Task
        BY <1>1, <2>5 DEF HandlerResponds, TypeOK, Task, RequestIds
      <4> QED
        BY <2>5, <4>1 DEF HandlerResponds
    <3> QED
      BY <2>1, <3>1
  <2> QED
    BY <2>1, <2>2, <2>3, <2>4, <2>5
    DEF TestStep, TestDies, StartTest, HandlerBegins, HandlerThrows, OnError,
        OnCompleted, CoreRequests, CoreEnds, ConnectionLost, vars
<1>5. \/ \A k \in Results' : k \in Results /\ toClient'[k] = toClient[k]
      \/ toClient # <<>> /\ toClient' = Tail(toClient)
  <2>1. CASE toClient' = toClient
    BY <2>1 DEF Results
  <2>2. CASE toClient' = <<>>
    BY <2>2 DEF Results
  <2>3. ASSUME NEW r \in RequestIds, CoreRequests(r)
        PROVE  \A k \in Results' : k \in Results /\ toClient'[k] = toClient[k]
    <3>1. PICK m \in Message : m.type # "result" /\ toClient' = Append(toClient, m)
      BY <2>3 DEF CoreRequests, Message, RequestIds
    <3> QED
      BY <1>1, <3>1, WireAppend
  <2>4. CASE ConnectionLost
    <3>1. toClient \in Seq(Message)
      BY <1>1 DEF TypeOK
    <3>2. PICK n \in 0 .. Len(toClient) : toClient' = SubSeq(toClient, 1, n)
      BY <2>4 DEF ConnectionLost
    <3>3. /\ Len(toClient) \in Nat /\ n \in Nat /\ n <= Len(toClient)
          /\ Len(toClient') = n /\ \A k \in 1 .. n : toClient'[k] = toClient[k]
      BY <3>1, <3>2, PrefixFacts
    <3> QED
      BY <3>3 DEF Results
  <2> QED
    BY <2>1, <2>2, <2>3, <2>4
    DEF CloseConnector, TestStep, TestResponds, TestDies, StartTest, HandlerBegins,
        Receives, HandlerResponds, HandlerThrows, CancelStream, OnError, OnCompleted,
        CoreEnds, vars
<1> QED
  BY <1>2, <1>3, <1>4, <1>5, CallInvQuietStep

LEMMA CallInvStep == CallInv /\ [Next]_vars => CallInv'
<1> SUFFICES ASSUME CallInv, [Next]_vars PROVE CallInv'
  OBVIOUS
<1>1. TypeOK'
  BY TypeStep DEF CallInv
<1>2. ASSUME NEW t \in Threads, CallStep(t) PROVE CallInv'
  <2>1. CASE BeginCall(t) \/ RefuseCall(t)
    BY <1>1, <2>1, CallInvBegin
  <2>2. CASE RegisterFuture(t)
    BY <1>1, <2>2, CallInvRegister
  <2>3. CASE SendCall(t)
    BY <1>1, <2>3, CallInvSend
  <2>4. CASE SendInterrupted(t) \/ ReturnAnswer(t) \/ Timeout(t) \/ WaitInterrupted(t)
    <3>1. /\ pc[t] \in InCall
          /\ UNCHANGED <<nextId, callId, registered, answer, core, queue, toClient>>
      BY <2>4 DEF SendInterrupted, ReturnAnswer, Timeout, WaitInterrupted, InCall,
                  sendVars, coreVars
    <3>2. \E r : Return(t, r) /\ (r \in Verdicts => r = answer[callId[t]])
      BY <2>4 DEF SendInterrupted, ReturnAnswer, Timeout, WaitInterrupted, Verdicts
    <3> QED
      BY <1>1, <3>1, <3>2, CallInvReturn
  <2>5. CASE CloseConnector(t)
    BY <1>1, <2>5, CallInvOtherStep
  <2> QED
    BY <1>2, <2>1, <2>2, <2>3, <2>4, <2>5 DEF CallStep
<1>3. ASSUME NEW t \in Threads, TestStep(t) PROVE CallInv'
  BY <1>1, <1>3, CallInvOtherStep
<1>4. CASE WorkerStep
  BY <1>1, <1>4, CallInvWorker
<1>5. CASE ListenerStep
  <2>1. CASE CompleteWait
    BY <1>1, <2>1, CallInvComplete
  <2> QED
    BY <1>1, <1>5, <2>1, CallInvOtherStep DEF ListenerStep
<1>6. CASE CoreStep
  <2>1. ASSUME NEW i \in CallIds, NEW v \in Verdicts, CoreAnswers(i, v) PROVE CallInv'
    BY <1>1, <2>1, CallInvCoreAnswers
  <2> QED
    BY <1>1, <1>6, <2>1, CallInvOtherStep DEF CoreStep
<1>7. CASE UNCHANGED vars
  BY <1>1, <1>7, CallInvOtherStep
<1> QED
  BY <1>2, <1>3, <1>4, <1>5, <1>6, <1>7 DEF Next

(* The inductive invariant holds: ids are never shared or reissued, and    *)
(* queue, core, wire and futures agree on every call.                      *)
THEOREM CallInvCorrect == Spec => []CallInv
<1> QED
  BY CallInvInit, CallInvStep, PTL DEF Spec

(* No answer of the core, however late, misses its future: completeWait    *)
(* never throws on the listener thread.                                    *)
THEOREM AnswersFound == Spec => []AnswersFindTheirFuture
<1>1. CallInv => AnswersFindTheirFuture
  BY DEF CallInv
<1> QED
  BY <1>1, CallInvCorrect, PTL

(* No call is put to the core twice, and none has two answers on the way.  *)
THEOREM AskedOnce == Spec => []CallsAreAskedOnce
<1>1. CallInv => CallsAreAskedOnce
  BY DEF CallInv
<1> QED
  BY <1>1, CallInvCorrect, PTL

(* A success or failure that a call returns is the core's verdict on it.   *)
THEOREM VerdictsAreTheCores == Spec => []VerdictsComeFromTheCore
<1>1. CallInv => VerdictsComeFromTheCore
  BY DEF CallInv
<1> QED
  BY <1>1, CallInvCorrect, PTL

-----------------------------------------------------------------------------
(* RpcConnector implements CallContract: whatever the number of threads    *)
(* and calls, a caller sees calls that return once, with the core's own    *)
(* verdict or with an error of the wrapper.                                *)
LEMMA InitRefines == Init => Contract!Init
<1> SUFFICES ASSUME Init PROVE Contract!Init
  OBVIOUS
<1>1. \A i \in CallIds : i >= 0
  BY DEF CallIds
<1>2. \A i \in CallIds : CallOf(i) = "unused"
  BY <1>1 DEF Init, CallOf
<1>3. \A i \in CallIds : core[i] \notin Verdicts
  BY DEF Init, Verdicts
<1> QED
  BY <1>2, <1>3 DEF Contract!Init, ContractCalls, ContractVerdicts

(* What callers see depends on the counter, the outcomes and the verdicts. *)
LEMMA HiddenStep ==
  ASSUME UNCHANGED <<nextId, outcome>>,
         \A i \in CallIds :
           core'[i] # core[i] => core[i] \notin Verdicts /\ core'[i] \notin Verdicts
  PROVE  UNCHANGED Contract!vars
<1>1. ContractCalls' = ContractCalls
  BY DEF ContractCalls, CallOf
<1>2. ContractVerdicts' = ContractVerdicts
  BY DEF ContractVerdicts
<1> QED
  BY <1>1, <1>2 DEF Contract!vars

LEMMA BeginRefines ==
  ASSUME CallInv, NEW t \in Threads, BeginCall(t) \/ RefuseCall(t)
  PROVE  Contract!Next
<1> USE DEF CallInv, callVars, sendVars, listenVars, coreVars
<1>1. /\ nextId \in CallIds /\ nextId' = nextId + 1
      /\ CallIds \subseteq Int /\ nextId \in Int /\ core' = core
  <2>1. nextId \in 0 .. MaxCalls /\ nextId < MaxCalls
    BY DEF BeginCall, RefuseCall, TakeId, TypeOK
  <2>2. nextId \in CallIds
    BY <2>1, BoundsAssumption DEF CallIds
  <2> QED
    BY <2>2, CallIdTypes DEF BeginCall, RefuseCall, TakeId
<1>2. \A i \in CallIds : i # nextId => (i >= nextId' <=> i >= nextId)
  BY <1>1
<1>3. ~ nextId >= nextId' /\ nextId >= nextId
  BY <1>1
<1>4. ContractVerdicts' = ContractVerdicts
  BY <1>1 DEF ContractVerdicts
<1>5. ContractCalls[nextId] = "unused"
  BY <1>1, <1>3 DEF ContractCalls, CallOf
<1>6. CASE BeginCall(t)
  <2>1. outcome' = outcome /\ outcome[nextId] = "none"
    BY <1>1, <1>3, <1>6 DEF BeginCall, IdsAreIssued
  <2>2. ContractCalls' = [ContractCalls EXCEPT ![nextId] = "open"]
    BY <1>1, <1>2, <1>3, <2>1 DEF ContractCalls, CallOf
  <2> QED
    BY <1>1, <1>4, <1>5, <2>2 DEF Contract!Issue, Contract!Next
<1>7. CASE RefuseCall(t)
  <2>1. /\ outcome'[nextId] = "refused"
        /\ \A i \in CallIds : i # nextId => outcome'[i] = outcome[i]
    BY <1>1, <1>7 DEF RefuseCall, TypeOK
  <2>2. ContractCalls' = [ContractCalls EXCEPT ![nextId] = "error"]
    BY <1>1, <1>2, <1>3, <2>1 DEF ContractCalls, CallOf, Verdicts
  <2> QED
    BY <1>1, <1>4, <1>5, <2>2 DEF Contract!Refuse, Contract!Next
<1> QED
  BY <1>6, <1>7

LEMMA ReturnRefines ==
  ASSUME CallInv, NEW t \in Threads, pc[t] \in InCall,
         NEW r, Return(t, r), r \in (Verdicts \cup Failures),
         r \in Verdicts => r = answer[callId[t]],
         UNCHANGED <<nextId, core>>
  PROVE  Contract!Next
<1> USE DEF CallInv
<1> DEFINE i == callId[t]
           seen == IF r \in Verdicts THEN r ELSE "error"
<1>1. /\ i \in CallIds /\ i < nextId /\ outcome[i] = "none"
      /\ CallIds \subseteq Int /\ nextId \in Int
  BY CallIdTypes DEF CallsOwnTheirIds
<1>2. ~ i >= nextId
  <2>1. i \in Int /\ nextId \in Int /\ i < nextId
    BY <1>1
  <2> QED
    BY <2>1
<1>3. outcome'[i] = r /\ \A j \in CallIds : j # i => outcome'[j] = outcome[j]
  BY <1>1 DEF Return, TypeOK
<1>4. r # "none" /\ ("none" \notin Verdicts)
  BY DEF Verdicts, Failures
<1>5. ContractCalls[i] = "open" /\ ContractVerdicts' = ContractVerdicts
  BY <1>1, <1>2 DEF ContractCalls, CallOf, ContractVerdicts
<1>6. ContractCalls' = [ContractCalls EXCEPT ![i] = seen]
  BY <1>1, <1>2, <1>3, <1>4 DEF ContractCalls, CallOf
<1>7. seen \in ({ContractVerdicts[i]} \ {"none"}) \cup {"error"}
  BY <1>1, <1>4 DEF ContractVerdicts, AnswersAreTheCores
<1> HIDE DEF i, seen
<1> QED
  BY <1>1, <1>5, <1>6, <1>7 DEF Contract!Return, Contract!Next

LEMMA AnswerRefines ==
  ASSUME CallInv, NEW i \in CallIds, NEW v \in Verdicts, CoreAnswers(i, v)
  PROVE  Contract!Next
<1> USE DEF CallInv, callVars
<1>1. /\ core[i] = "working" /\ core' = [core EXCEPT ![i] = v]
      /\ UNCHANGED <<nextId, outcome>>
      /\ core[i] # "absent" /\ core[i] \notin Verdicts
  BY DEF CoreAnswers, Verdicts
<1>2. ~ i >= nextId
  BY <1>1 DEF IdsAreIssued
<1>3. ContractCalls' = ContractCalls
  BY <1>1 DEF ContractCalls, CallOf
<1>4. ContractCalls[i] # "unused"
  BY <1>2 DEF ContractCalls, CallOf, Verdicts
<1>5. ContractVerdicts[i] = "none"
  BY <1>1 DEF ContractVerdicts
<1>6. ContractVerdicts' = [ContractVerdicts EXCEPT ![i] = v]
  BY <1>1 DEF ContractVerdicts, TypeOK
<1>7. v \in Contract!Verdicts
  BY DEF Contract!Verdicts, Verdicts
<1> QED
  BY <1>3, <1>4, <1>5, <1>6, <1>7 DEF Contract!Decide, Contract!Next

LEMMA StepRefines == CallInv /\ [Next]_vars => [Contract!Next]_Contract!vars
<1> SUFFICES ASSUME CallInv, [Next]_vars PROVE [Contract!Next]_Contract!vars
  OBVIOUS
<1> USE DEF callVars, sendVars, listenVars, coreVars
<1>1. ASSUME NEW t \in Threads, CallStep(t) PROVE [Contract!Next]_Contract!vars
  <2>1. CASE BeginCall(t) \/ RefuseCall(t)
    BY <2>1, BeginRefines
  <2>2. CASE RegisterFuture(t) \/ SendCall(t) \/ CloseConnector(t)
    <3>1. UNCHANGED <<nextId, outcome, core>>
      BY <2>2 DEF RegisterFuture, SendCall, CloseConnector
    <3> QED
      BY <3>1, HiddenStep
  <2>3. CASE SendInterrupted(t) \/ ReturnAnswer(t) \/ Timeout(t) \/ WaitInterrupted(t)
    <3>1. pc[t] \in InCall /\ UNCHANGED <<nextId, core>>
      BY <2>3 DEF SendInterrupted, ReturnAnswer, Timeout, WaitInterrupted, InCall
    <3>2. CASE ReturnAnswer(t) /\ Return(t, answer[callId[t]])
      <4>1. answer[callId[t]] \in Verdicts
        BY <3>1, <3>2, CallIdTypes DEF ReturnAnswer, CallInv, TypeOK
      <4> QED
        BY <3>1, <3>2, <4>1, ReturnRefines
    <3>3. CASE \E r \in Failures : Return(t, r)
      <4>1. Failures \cap Verdicts = {}
        BY DEF Failures, Verdicts
      <4> QED
        BY <3>1, <3>3, <4>1, ReturnRefines
    <3> QED
      BY <2>3, <3>2, <3>3
      DEF SendInterrupted, ReturnAnswer, Timeout, WaitInterrupted, Failures
  <2> QED
    BY <1>1, <2>1, <2>2, <2>3 DEF CallStep
<1>2. ASSUME NEW t \in Threads, TestStep(t) PROVE [Contract!Next]_Contract!vars
  <2>1. UNCHANGED <<nextId, outcome, core>>
    BY <1>2 DEF TestStep, TestResponds, TestDies
  <2> QED
    BY <2>1, HiddenStep
<1>3. CASE WorkerStep
  <2>1. UNCHANGED <<nextId, outcome>>
    BY <1>3 DEF WorkerStep, WorkerSends, WorkerCloses
  <2>2. \A i \in CallIds : core'[i] # core[i] => core[i] \notin Verdicts /\ core'[i] \notin Verdicts
    <3>1. CASE core' = core
      BY <3>1
    <3>2. CASE core' # core
      <4>1. /\ queue # <<>> /\ queue' = Tail(queue) /\ Head(queue).type = "call"
            /\ core' = [core EXCEPT ![Head(queue).id] = "working"]
        BY <1>3, <3>2 DEF WorkerStep, WorkerSends, WorkerCloses
      <4>2. Head(queue) = queue[1] /\ 1 \in QueuedCalls
        BY <4>1, QueueTail DEF CallInv
      <4>3. core[Head(queue).id] = "absent"
        BY <4>2 DEF CallInv, CallsAreAskedOnce
      <4> QED
        BY <4>1, <4>3 DEF Verdicts, CallInv, TypeOK
    <3> QED
      BY <3>1, <3>2
  <2> QED
    BY <2>1, <2>2, HiddenStep
<1>4. CASE ListenerStep
  <2>1. UNCHANGED <<nextId, outcome, core>>
    BY <1>4 DEF ListenerStep, CompleteWait, StartTest, HandlerBegins,
                HandlerResponds, HandlerThrows, OnError, OnCompleted
  <2> QED
    BY <2>1, HiddenStep
<1>5. CASE CoreStep
  <2>1. ASSUME NEW i \in CallIds, NEW v \in Verdicts, CoreAnswers(i, v)
        PROVE  [Contract!Next]_Contract!vars
    BY <2>1, AnswerRefines
  <2>2. CASE (\E r \in RequestIds : CoreRequests(r)) \/ CoreEnds \/ ConnectionLost
    <3>1. UNCHANGED <<nextId, outcome, core>>
      BY <2>2 DEF CoreRequests, CoreEnds, ConnectionLost
    <3> QED
      BY <3>1, HiddenStep
  <2> QED
    BY <1>5, <2>1, <2>2 DEF CoreStep
<1>6. CASE UNCHANGED vars
  <2>1. UNCHANGED <<nextId, outcome, core>>
    BY <1>6 DEF vars
  <2> QED
    BY <2>1, HiddenStep
<1> QED
  BY <1>1, <1>2, <1>3, <1>4, <1>5, <1>6 DEF Next

(* The connector implements the contract of its calls.                     *)
THEOREM Refinement == Spec => ImplementsContract
<1> QED
  BY InitRefines, StepRefines, CallInvCorrect, PTL
  DEF Spec, ImplementsContract, Contract!Spec
=============================================================================
