-------------------------- MODULE RpcRequestsProofs --------------------------
(***************************************************************************)
(* Theorems about the core's requests in RpcConnector, and about what is   *)
(* sent after the client's end of the stream was closed.                   *)
(***************************************************************************)
EXTENDS RpcConnectorProofs

Wired == {k \in 1 .. Len(toClient) : toClient[k].type # "result"}
Active == {"idle", "began", "registered", "waiting", "returned"}

(* A request is in one place at a time: on the wire, with the listener or  *)
(* with the thread of its test, or, as a response, in the queue; and while *)
(* it is in one of them the core awaits its response.                      *)
RequestsAreInOnePlace ==
  /\ \A k \in Wired :
       /\ request[toClient[k].id] = "awaiting"
       /\ toClient[k].id # listener
       /\ toClient[k].id \in Tests => pc[toClient[k].id] = "absent"
       /\ \A j \in Responses : queue[j].id # toClient[k].id
  /\ \A j, k \in Wired : toClient[j].id = toClient[k].id => j = k
  /\ listener # NoCall =>
       request[listener] = "awaiting" /\ \A j \in Responses : queue[j].id # listener
  /\ \A t \in Tests : pc[t] # "absent" => request[t] # "unsent"
  /\ \A t \in Tests : pc[t] \in Active => request[t] = "awaiting"
  /\ \A k \in Responses : queue[k].id \in Tests => pc[queue[k].id] = "finished"

RequestInv == TypeOK /\ RequestsAreInOnePlace /\ RequestsAreAnsweredOnce

(* The queue and the wire, as far as requests are concerned, after a step: *)
(* they are as they were, or they lost their first or their last elements. *)
NoNewResponse ==
  \/ \A k \in Responses' : k \in Responses /\ queue'[k] = queue[k]
  \/ \A k \in Responses' : k \in Nat /\ k + 1 \in Responses /\ queue'[k] = queue[k + 1]
NoNewRequest ==
  \/ \A k \in Wired' : k \in Wired /\ toClient'[k] = toClient[k]
  \/ \A k \in Wired' : k \in Nat /\ k + 1 \in Wired /\ toClient'[k] = toClient[k + 1]

LEMMA ResponseAppend ==
  ASSUME TypeOK, NEW e \in Task, queue' = Append(queue, e)
  PROVE  /\ Len(queue) \in Nat /\ Len(queue) + 1 \notin Responses
         /\ \A k \in Responses' : \/ k \in Responses /\ queue'[k] = queue[k]
                                  \/ /\ k = Len(queue) + 1
                                     /\ queue'[k] = e
                                     /\ e.type = "response"
<1>1. queue \in Seq(Task)
  BY DEF TypeOK
<1> QED
  BY <1>1, AppendFacts DEF Responses

LEMMA ResponseTail ==
  ASSUME TypeOK, queue # <<>>, queue' = Tail(queue)
  PROVE  /\ NoNewResponse
         /\ \A k \in Responses' :
              k \in Nat \ {0} /\ k + 1 \in Responses /\ queue'[k] = queue[k + 1]
         /\ Head(queue) \in Task
         /\ Head(queue).type = "response" => 1 \in Responses /\ Head(queue) = queue[1]
<1>1. queue \in Seq(Task)
  BY DEF TypeOK
<1> QED
  BY <1>1, TailFacts DEF Responses, NoNewResponse

LEMMA RequestAppend ==
  ASSUME TypeOK, NEW m \in Message, toClient' = Append(toClient, m)
  PROVE  /\ Len(toClient) \in Nat /\ Len(toClient) + 1 \notin Wired
         /\ \A k \in Wired' : \/ k \in Wired /\ toClient'[k] = toClient[k]
                              \/ /\ k = Len(toClient) + 1
                                 /\ toClient'[k] = m
                                 /\ m.type # "result"
<1>1. toClient \in Seq(Message)
  BY DEF TypeOK
<1> QED
  BY <1>1, AppendFacts DEF Wired

LEMMA RequestTail ==
  ASSUME TypeOK, toClient # <<>>, toClient' = Tail(toClient)
  PROVE  /\ NoNewRequest
         /\ \A k \in Wired' :
              k \in Nat \ {0} /\ k + 1 \in Wired /\ toClient'[k] = toClient[k + 1]
         /\ Head(toClient) \in Message
         /\ Head(toClient).type # "result" => 1 \in Wired /\ Head(toClient) = toClient[1]
<1>1. toClient \in Seq(Message)
  BY DEF TypeOK
<1> QED
  BY <1>1, TailFacts DEF Wired, NoNewRequest

LEMMA RequestTypes ==
  ASSUME TypeOK
  PROVE  /\ \A k \in Responses : queue[k].id \in RequestIds /\ k \in Nat
         /\ \A k \in Wired : toClient[k].id \in RequestIds /\ k \in Nat
         /\ NoCall \notin RequestIds
         /\ listener # NoCall => listener \in Requests /\ listener \notin Tests
         /\ Tests \subseteq RequestIds /\ Requests \subseteq RequestIds
         /\ Tests \subseteq Threads
<1>1. \A k \in Responses : queue[k] \in Task /\ queue[k].type = "response" /\ k \in Nat
  BY DEF TypeOK, Responses
<1>2. \A k \in Wired : toClient[k] \in Message /\ toClient[k].type # "result" /\ k \in Nat
  BY DEF TypeOK, Wired
<1>3. \A k \in Responses : queue[k].id \in RequestIds
  BY <1>1 DEF Task
<1>4. \A k \in Wired : toClient[k].id \in RequestIds
  BY <1>2 DEF Message, RequestIds
<1> QED
  BY <1>1, <1>2, <1>3, <1>4, IdsAssumption, ThreadsAssumption DEF TypeOK, RequestIds, Threads

-----------------------------------------------------------------------------
(* A step that makes no request and answers none.                          *)
LEMMA RequestQuietStep ==
  ASSUME RequestInv, TypeOK', NoNewResponse, NoNewRequest, request' = request,
         listener' \in {listener, NoCall},
         \A t \in Tests : \/ pc'[t] = pc[t]
                          \/ pc[t] \in Active /\ pc'[t] \in Active \cup {"died"}
  PROVE  RequestInv'
<1> USE RequestTypes DEF RequestInv
<1>1. RequestsAreAnsweredOnce'
  BY DEF RequestsAreAnsweredOnce, NoNewResponse
<1>2. \A k \in Responses' : \E j \in Responses : queue'[k].id = queue[j].id
  BY DEF NoNewResponse
<1>3. \A k \in Wired' : \E j \in Wired : toClient'[k].id = toClient[j].id
  BY DEF NoNewRequest
<1>4. \A j, k \in Wired' : toClient'[j].id = toClient'[k].id => j = k
  BY DEF NoNewRequest, RequestsAreInOnePlace
<1>5. "absent" \notin Active /\ "finished" \notin Active /\ "died" \notin Active
  BY DEF Active
<1>6. RequestsAreInOnePlace'
  <2>1. ASSUME NEW k \in Wired'
        PROVE  /\ request[toClient'[k].id] = "awaiting"
               /\ toClient'[k].id # listener'
               /\ toClient'[k].id \in Tests => pc'[toClient'[k].id] = "absent"
               /\ \A j \in Responses' : queue'[j].id # toClient'[k].id
    <3>1. PICK l \in Wired : toClient'[k].id = toClient[l].id
      BY <1>3
    <3> QED
      BY <3>1, <1>2, <1>5 DEF RequestsAreInOnePlace
  <2>2. listener' # NoCall =>
          request[listener'] = "awaiting" /\ \A j \in Responses' : queue'[j].id # listener'
    BY <1>2 DEF RequestsAreInOnePlace
  <2>3. /\ \A t \in Tests : pc'[t] # "absent" => request[t] # "unsent"
        /\ \A t \in Tests : pc'[t] \in Active => request[t] = "awaiting"
    BY <1>5 DEF RequestsAreInOnePlace
  <2>4. \A k \in Responses' : queue'[k].id \in Tests => pc'[queue'[k].id] = "finished"
    BY <1>2, <1>5 DEF RequestsAreInOnePlace
  <2> QED
    BY <1>4, <2>1, <2>2, <2>3, <2>4 DEF RequestsAreInOnePlace
<1> QED
  BY <1>1, <1>6

(* A response is put into the queue, by the thread of its test or by the   *)
(* listener.                                                               *)
LEMMA RequestRespondStep ==
  ASSUME RequestInv, TypeOK', NEW r \in RequestIds,
         queue' = Append(queue, [type |-> "response", id |-> r]),
         UNCHANGED <<toClient, request>>,
         \/ r \in Tests /\ pc[r] \in Active /\ pc' = [pc EXCEPT ![r] = "finished"]
            /\ listener' = listener
         \/ r = listener /\ listener' = NoCall /\ pc' = pc
  PROVE  RequestInv'
<1> USE RequestTypes DEF RequestInv
<1>1. \A k \in Responses' : \/ k \in Responses /\ queue'[k] = queue[k]
                            \/ k = Len(queue) + 1 /\ queue'[k].id = r
  <2>1. [type |-> "response", id |-> r] \in Task
    BY DEF Task
  <2>2. [type |-> "response", id |-> r].id = r
    OBVIOUS
  <2> DEFINE e == [type |-> "response", id |-> r]
  <2>3. e \in Task /\ e.id = r /\ queue' = Append(queue, e)
    BY <2>1
  <2> HIDE DEF e
  <2> QED
    BY <2>3, ResponseAppend
<1>2. Wired' = Wired
  BY DEF Wired
<1>3. "absent" \notin Active /\ "finished" \notin Active
  BY DEF Active
<1>4. /\ request[r] = "awaiting"
      /\ \A k \in Responses : queue[k].id # r
      /\ \A k \in Wired : toClient[k].id # r
  BY <1>3 DEF RequestsAreInOnePlace
<1>5. \A t \in Tests : t # r => pc'[t] = pc[t]
  BY DEF TypeOK
<1>6. r \in Tests => pc'[r] = "finished" /\ listener' = listener
  BY DEF TypeOK
<1>7. RequestsAreAnsweredOnce'
  BY <1>1, <1>4 DEF RequestsAreAnsweredOnce
<1>8. RequestsAreInOnePlace'
  <2>1. listener' # NoCall => listener' = listener /\ listener # r
    BY DEF TypeOK
  <2>2. \A k \in Wired' :
          /\ request[toClient[k].id] = "awaiting"
          /\ toClient[k].id # listener'
          /\ toClient[k].id \in Tests => pc'[toClient[k].id] = "absent"
          /\ \A j \in Responses' : queue'[j].id # toClient[k].id
    <3> SUFFICES ASSUME NEW k \in Wired
                 PROVE  /\ request[toClient[k].id] = "awaiting"
                        /\ toClient[k].id # listener'
                        /\ toClient[k].id \in Tests => pc'[toClient[k].id] = "absent"
                        /\ \A j \in Responses' : queue'[j].id # toClient[k].id
      BY <1>2
    <3>1. /\ request[toClient[k].id] = "awaiting"
          /\ toClient[k].id # listener
          /\ toClient[k].id \in Tests => pc[toClient[k].id] = "absent"
          /\ \A j \in Responses : queue[j].id # toClient[k].id
      BY DEF RequestsAreInOnePlace
    <3>2. toClient[k].id # r /\ toClient[k].id # NoCall
      BY <1>4
    <3>3. \A j \in Responses' : queue'[j].id # toClient[k].id
      BY <1>1, <3>1, <3>2
    <3> QED
      BY <1>5, <3>1, <3>2, <3>3
  <2>3. listener' # NoCall =>
          request[listener'] = "awaiting" /\ \A j \in Responses' : queue'[j].id # listener'
    BY <1>1, <2>1 DEF RequestsAreInOnePlace
  <2>4. /\ \A t \in Tests : pc'[t] # "absent" => request[t] # "unsent"
        /\ \A t \in Tests : pc'[t] \in Active => request[t] = "awaiting"
    BY <1>3, <1>4, <1>5, <1>6 DEF RequestsAreInOnePlace
  <2>5. \A k \in Responses' : queue'[k].id \in Tests => pc'[queue'[k].id] = "finished"
    <3> SUFFICES ASSUME NEW k \in Responses', queue'[k].id \in Tests
                 PROVE  pc'[queue'[k].id] = "finished"
      OBVIOUS
    <3>1. CASE queue'[k].id = r
      BY <1>6, <3>1
    <3>2. CASE queue'[k].id # r
      <4>1. k \in Responses /\ queue'[k] = queue[k]
        BY <1>1, <3>2
      <4>2. pc[queue[k].id] = "finished"
        BY <4>1 DEF RequestsAreInOnePlace
      <4> QED
        BY <1>5, <3>2, <4>1, <4>2
    <3> QED
      BY <3>1, <3>2
  <2> QED
    BY <1>2, <2>2, <2>3, <2>4, <2>5 DEF RequestsAreInOnePlace
<1> QED
  BY <1>7, <1>8

(* The worker sends a response.                                            *)
LEMMA RequestSentStep ==
  ASSUME RequestInv, TypeOK', NEW r \in RequestIds, 1 \in Responses, queue[1].id = r,
         \A k \in Responses' :
           k \in Nat /\ \E n \in Responses : n = k + 1 /\ n # 1 /\ queue'[k] = queue[n],
         request' = [request EXCEPT ![r] = "answered"],
         UNCHANGED <<toClient, pc, listener>>
  PROVE  RequestInv'
<1> USE RequestTypes DEF RequestInv
<1>2. \A k \in Responses' :
        k \in Nat /\ \E n \in Responses : n = k + 1 /\ n # 1 /\ queue'[k] = queue[n]
  OBVIOUS
<1>4. request'[r] = "answered" /\ \A s \in RequestIds : s # r => request'[s] = request[s]
  BY DEF TypeOK
<1>5. \A k \in Responses' : queue'[k].id # r /\ queue'[k].id \in RequestIds
  BY <1>2 DEF RequestsAreAnsweredOnce
<1>6. Wired' = Wired /\ \A k \in Wired : toClient[k].id # r
  BY DEF Wired, RequestsAreInOnePlace
<1>7. listener # r
  BY DEF RequestsAreInOnePlace
<1>8. r \in Tests => pc[r] = "finished"
  BY DEF RequestsAreInOnePlace
<1>9. RequestsAreAnsweredOnce'
  <2>1. \A j, k \in Responses' : queue'[j].id = queue'[k].id => j = k
    BY <1>2 DEF RequestsAreAnsweredOnce
  <2>2. \A k \in Responses' : request[queue'[k].id] = "awaiting"
    BY <1>2 DEF RequestsAreAnsweredOnce
  <2>3. \A k \in Responses' : request'[queue'[k].id] = "awaiting"
    BY <1>4, <1>5, <2>2
  <2> QED
    BY <2>1, <2>3 DEF RequestsAreAnsweredOnce
<1>10. RequestsAreInOnePlace'
  <2>1. \A k \in Responses' : \E j \in Responses : queue'[k].id = queue[j].id
    BY <1>2
  <2>2. \A t \in Tests : t # r => request'[t] = request[t]
    BY <1>4
  <2>3. "finished" \notin Active
    BY DEF Active
  <2>4. \A k \in Wired :
          /\ request'[toClient[k].id] = "awaiting"
          /\ \A j \in Responses' : queue'[j].id # toClient[k].id
    BY <1>4, <1>6, <2>1 DEF RequestsAreInOnePlace
  <2>5. /\ \A t \in Tests : pc[t] # "absent" => request'[t] # "unsent"
        /\ \A t \in Tests : pc[t] \in Active => request'[t] = "awaiting"
    BY <1>4, <1>8, <2>2, <2>3 DEF RequestsAreInOnePlace
  <2>6. \A k \in Responses' : queue'[k].id \in Tests => pc[queue'[k].id] = "finished"
    BY <2>1 DEF RequestsAreInOnePlace
  <2>7. listener # NoCall =>
          request'[listener] = "awaiting" /\ \A j \in Responses' : queue'[j].id # listener
    BY <1>4, <1>7, <2>1 DEF RequestsAreInOnePlace
  <2> QED
    BY <1>6, <2>4, <2>5, <2>6, <2>7 DEF RequestsAreInOnePlace
<1> QED
  BY <1>9, <1>10

(* The listener takes a request from the wire.                             *)
LEMMA RequestReceivedStep ==
  ASSUME RequestInv, TypeOK', NEW r \in RequestIds, 1 \in Wired, toClient[1].id = r,
         \A k \in Wired' :
           k \in Nat /\ \E n \in Wired : n = k + 1 /\ n # 1 /\ toClient'[k] = toClient[n],
         listener = NoCall,
         UNCHANGED <<queue, request>>,
         \/ r \in Tests /\ listener' = listener /\ pc' = [pc EXCEPT ![r] = "idle"]
         \/ r \notin Tests /\ listener' = r /\ pc' = pc
  PROVE  RequestInv'
<1> USE RequestTypes DEF RequestInv
<1>2. \A k \in Wired' :
        k \in Nat /\ \E n \in Wired : n = k + 1 /\ n # 1 /\ toClient'[k] = toClient[n]
  OBVIOUS
<1>3. /\ r \in RequestIds /\ request[r] = "awaiting"
      /\ \A j \in Responses : queue[j].id # r
  BY DEF RequestsAreInOnePlace
<1>4. \A t \in Tests : t # r => pc'[t] = pc[t]
  BY DEF TypeOK
<1>5. r \in Tests => pc'[r] = "idle" /\ pc[r] = "absent" /\ listener' = NoCall
  BY DEF TypeOK, RequestsAreInOnePlace
<1>6. listener' # NoCall => listener' = r
  OBVIOUS
<1>7. \A k \in Wired' : toClient'[k].id # r
  BY <1>2 DEF RequestsAreInOnePlace
<1>8. Responses' = Responses
  BY DEF Responses
<1>9. RequestsAreAnsweredOnce'
  BY <1>8 DEF RequestsAreAnsweredOnce
<1>10. RequestsAreInOnePlace'
  <2>1. \A j, k \in Wired' : toClient'[j].id = toClient'[k].id => j = k
    BY <1>2 DEF RequestsAreInOnePlace
  <2>2. \A k \in Wired' : \E j \in Wired : toClient'[k].id = toClient[j].id
    BY <1>2
  <2>3. \A k \in Wired' :
          /\ request[toClient'[k].id] = "awaiting"
          /\ toClient'[k].id # listener'
          /\ toClient'[k].id \in Tests => pc'[toClient'[k].id] = "absent"
          /\ \A j \in Responses : queue[j].id # toClient'[k].id
    <3> SUFFICES ASSUME NEW k \in Wired'
                 PROVE  /\ request[toClient'[k].id] = "awaiting"
                        /\ toClient'[k].id # listener'
                        /\ toClient'[k].id \in Tests => pc'[toClient'[k].id] = "absent"
                        /\ \A j \in Responses : queue[j].id # toClient'[k].id
      OBVIOUS
    <3>1. PICK l \in Wired : toClient'[k].id = toClient[l].id
      BY <2>2
    <3>2. toClient[l].id # r /\ toClient[l].id \in RequestIds
      BY <1>7, <3>1
    <3>3. /\ request[toClient[l].id] = "awaiting"
          /\ toClient[l].id \in Tests => pc[toClient[l].id] = "absent"
          /\ \A j \in Responses : queue[j].id # toClient[l].id
      BY DEF RequestsAreInOnePlace
    <3>4. toClient[l].id # listener'
      BY <1>6, <3>2
    <3> QED
      BY <1>4, <3>1, <3>2, <3>3, <3>4
  <2>4. \A t \in Tests : pc'[t] # "absent" => request[t] # "unsent"
    BY <1>3, <1>4 DEF RequestsAreInOnePlace
  <2>5. \A t \in Tests : pc'[t] \in Active => request[t] = "awaiting"
    BY <1>3, <1>4 DEF RequestsAreInOnePlace
  <2>6. \A k \in Responses : queue[k].id \in Tests => pc'[queue[k].id] = "finished"
    BY <1>3, <1>4 DEF RequestsAreInOnePlace
  <2>7. listener' # NoCall =>
          request[listener'] = "awaiting" /\ \A j \in Responses : queue[j].id # listener'
    BY <1>3, <1>6
  <2> QED
    BY <1>8, <2>1, <2>3, <2>4, <2>5, <2>6, <2>7 DEF RequestsAreInOnePlace
<1> QED
  BY <1>9, <1>10

(* The core makes a request.                                               *)
LEMMA RequestMadeStep ==
  ASSUME RequestInv, TypeOK', NEW r \in RequestIds, CoreRequests(r)
  PROVE  RequestInv'
<1> USE RequestTypes DEF RequestInv
<1>1. PICK m \in Message : m.type # "result" /\ m.id = r /\ toClient' = Append(toClient, m)
  BY DEF CoreRequests, Message, RequestIds
<1>2. \A k \in Wired' : \/ k \in Wired /\ toClient'[k] = toClient[k]
                        \/ k = Len(toClient) + 1 /\ toClient'[k].id = r
  BY <1>1, RequestAppend
<1>3. request[r] = "unsent" /\ request' = [request EXCEPT ![r] = "awaiting"]
      /\ UNCHANGED <<pc, queue, listener>>
  BY DEF CoreRequests, callVars, sendVars, listenVars
<1>4. request'[r] = "awaiting" /\ \A s \in RequestIds : s # r => request'[s] = request[s]
  BY <1>3 DEF TypeOK
<1>5. /\ \A k \in Wired : toClient[k].id # r
      /\ \A j \in Responses : queue[j].id # r
      /\ listener # r
      /\ r \in Tests => pc[r] = "absent"
  BY <1>3 DEF RequestsAreInOnePlace, RequestsAreAnsweredOnce
<1>6. Responses' = Responses
  BY <1>3 DEF Responses
<1>7. RequestsAreAnsweredOnce'
  BY <1>3, <1>4, <1>5, <1>6 DEF RequestsAreAnsweredOnce
<1>8. RequestsAreInOnePlace'
  <2>1. \A j, k \in Wired' : toClient'[j].id = toClient'[k].id => j = k
    BY <1>2, <1>5 DEF RequestsAreInOnePlace
  <2>2. \A k \in Wired' :
          /\ request'[toClient'[k].id] = "awaiting"
          /\ toClient'[k].id # listener
          /\ toClient'[k].id \in Tests => pc[toClient'[k].id] = "absent"
          /\ \A j \in Responses : queue[j].id # toClient'[k].id
    BY <1>2, <1>4, <1>5 DEF RequestsAreInOnePlace
  <2>3. /\ \A t \in Tests : pc[t] # "absent" => request'[t] # "unsent"
        /\ \A t \in Tests : pc[t] \in Active => request'[t] = "awaiting"
    BY <1>4 DEF RequestsAreInOnePlace
  <2>4. listener # NoCall => request'[listener] = "awaiting"
    BY <1>4 DEF RequestsAreInOnePlace
  <2> QED
    BY <1>3, <1>6, <2>1, <2>2, <2>3, <2>4 DEF RequestsAreInOnePlace
<1> QED
  BY <1>7, <1>8

-----------------------------------------------------------------------------
LEMMA RequestInvInit == Init => RequestInv
<1> SUFFICES ASSUME Init PROVE RequestInv
  OBVIOUS
<1>1. Responses = {} /\ Wired = {}
  BY DEF Init, Responses, Wired
<1>2. /\ \A t \in Tests : pc[t] = "absent"
      /\ listener = NoCall
  BY DEF Init, Threads
<1>3. "absent" \notin Active
  BY DEF Active
<1> QED
  BY <1>1, <1>2, <1>3, TypeInit DEF RequestInv, RequestsAreInOnePlace, RequestsAreAnsweredOnce

(* Queue and wire unchanged, or grown by what is no request or response.   *)
LEMMA QueueUnchanged == queue' = queue => NoNewResponse
  BY DEF NoNewResponse, Responses

LEMMA WireUnchanged == toClient' = toClient \/ toClient' = <<>> => NoNewRequest
<1>1. toClient' = toClient => NoNewRequest
  BY DEF NoNewRequest, Wired
<1>2. toClient' = <<>> => Wired' = {}
  BY DEF Wired
<1> QED
  BY <1>1, <1>2 DEF NoNewRequest

LEMMA RequestInvCallStep ==
  ASSUME RequestInv, TypeOK', NEW t \in Threads, CallStep(t)
  PROVE  RequestInv'
<1> USE DEF RequestInv, callVars, sendVars, listenVars, coreVars
<1>1. UNCHANGED <<toClient, request, listener>>
  BY DEF CallStep, BeginCall, RefuseCall, RegisterFuture, SendCall, SendInterrupted, ReturnAnswer,
     Timeout, WaitInterrupted, CloseConnector
<1>2. \A u \in Tests : \/ pc'[u] = pc[u]
                       \/ pc[u] \in Active /\ pc'[u] \in Active
  BY DEF TypeOK, Threads, Active, CallStep, BeginCall, RefuseCall, TakeId, AfterCall, RegisterFuture,
     SendCall, SendInterrupted, ReturnAnswer, Timeout, WaitInterrupted, Return, CloseConnector
<1>3. NoNewResponse
  <2>1. ASSUME NEW e \in Task, e.type # "response", queue' = Append(queue, e)
        PROVE  NoNewResponse
    BY <2>1, ResponseAppend DEF NoNewResponse
  <2>2. CASE SendCall(t)
    <3>1. [type |-> "call", id |-> callId[t]] \in Task
      BY <2>2 DEF SendCall, Task, TypeOK, InCall
    <3> QED
      BY <2>1, <2>2, <3>1 DEF SendCall
  <2>3. CASE CloseConnector(t)
    <3>1. [type |-> "close", id |-> NoCall] \in Task
      BY DEF Task
    <3> QED
      BY <2>1, <2>3, <3>1 DEF CloseConnector
  <2>4. CASE ~SendCall(t) /\ ~CloseConnector(t)
    <3>1. queue' = queue
      BY <2>4 DEF CallStep, BeginCall, RefuseCall, RegisterFuture, SendInterrupted, ReturnAnswer,
         Timeout, WaitInterrupted
    <3> QED
      BY <3>1, QueueUnchanged
  <2> QED
    BY <2>2, <2>3, <2>4
<1> QED
  BY <1>1, <1>2, <1>3, WireUnchanged, RequestQuietStep

LEMMA RequestInvWorkerStep ==
  ASSUME RequestInv, TypeOK', WorkerStep
  PROVE  RequestInv'
<1> USE DEF RequestInv, callVars, sendVars, listenVars, coreVars
<1>1. UNCHANGED <<toClient, pc, listener>> /\ queue # <<>> /\ queue' = Tail(queue)
  BY DEF WorkerStep, WorkerSends, WorkerCloses
<1>2. CASE request' = request
  BY <1>1, <1>2, ResponseTail, WireUnchanged, RequestQuietStep
<1>3. CASE request' # request
  <2> DEFINE r == Head(queue).id
  <2>1. Head(queue).type = "response" /\ request' = [request EXCEPT ![r] = "answered"]
    BY <1>3 DEF WorkerStep, WorkerSends, WorkerCloses
  <2>2. 1 \in Responses /\ queue[1].id = r
    BY <1>1, <2>1, ResponseTail
  <2>3. \A k \in Nat \ {0} : k + 1 # 1
    OBVIOUS
  <2>4. \A k \in Responses' :
          k \in Nat /\ \E n \in Responses : n = k + 1 /\ n # 1 /\ queue'[k] = queue[n]
    BY <1>1, <2>3, ResponseTail
  <2>5. r \in RequestIds
    BY <2>2, RequestTypes
  <2> QED
    BY <1>1, <2>1, <2>2, <2>4, <2>5, RequestSentStep
<1> QED
  BY <1>2, <1>3

LEMMA RequestInvListenerStep ==
  ASSUME RequestInv, TypeOK', ListenerStep
  PROVE  RequestInv'
<1> USE DEF RequestInv, callVars, sendVars, listenVars, coreVars
<1>1. CASE CompleteWait
  <2>1. UNCHANGED <<pc, queue, listener, request>>
    BY <1>1 DEF CompleteWait
  <2>2. toClient # <<>> /\ (toClient' = Tail(toClient) \/ toClient' = <<>>)
    BY <1>1 DEF CompleteWait, Receives, CancelStream
  <2> QED
    BY <2>1, <2>2, QueueUnchanged, WireUnchanged, RequestTail, RequestQuietStep
<1>2. CASE StartTest \/ HandlerBegins
  <2> DEFINE r == Head(toClient).id
  <2>1. /\ toClient # <<>> /\ toClient' = Tail(toClient) /\ listener = NoCall
        /\ UNCHANGED <<queue, request>>
        /\ Head(toClient).type \in {"startTest", "callback"}
    BY <1>2 DEF StartTest, HandlerBegins, Receives, ListenerFree
  <2>2. 1 \in Wired /\ toClient[1].id = r /\ Head(toClient) \in Message
    BY <2>1, RequestTail
  <2>3. \A k \in Nat \ {0} : k + 1 # 1
    OBVIOUS
  <2>4. \A k \in Wired' :
          k \in Nat /\ \E n \in Wired : n = k + 1 /\ n # 1 /\ toClient'[k] = toClient[n]
    BY <2>1, <2>3, RequestTail
  <2>5. r \in RequestIds
    BY <2>2, RequestTypes
  <2>6. CASE StartTest
    <3>1. r \in Tests /\ listener' = listener /\ pc' = [pc EXCEPT ![r] = "idle"]
      BY <2>2, <2>6 DEF StartTest, Receives, Message
    <3> QED
      BY <2>1, <2>2, <2>4, <2>5, <3>1, RequestReceivedStep
  <2>7. CASE HandlerBegins
    <3>1. r \in Requests /\ listener' = r /\ pc' = pc
      BY <2>2, <2>7 DEF HandlerBegins, Receives, Message
    <3>2. r \notin Tests
      BY <3>1, ThreadsAssumption
    <3> QED
      BY <2>1, <2>2, <2>4, <2>5, <3>1, <3>2, RequestReceivedStep
  <2> QED
    BY <1>2, <2>6, <2>7
<1>3. CASE HandlerResponds
  <2>1. listener \in RequestIds
    BY <1>3, RequestTypes DEF HandlerResponds
  <2>2. /\ UNCHANGED <<toClient, request, pc>> /\ listener' = NoCall
        /\ queue' = Append(queue, [type |-> "response", id |-> listener])
    BY <1>3 DEF HandlerResponds
  <2> QED
    BY <2>1, <2>2, RequestRespondStep
<1>4. CASE HandlerThrows
  BY <1>4, QueueUnchanged, WireUnchanged, RequestQuietStep DEF HandlerThrows, CancelStream
<1>5. CASE OnError \/ OnCompleted
  BY <1>5, QueueUnchanged, WireUnchanged, RequestQuietStep DEF OnError, OnCompleted
<1> QED
  BY <1>1, <1>2, <1>3, <1>4, <1>5 DEF ListenerStep

LEMMA RequestInvStep == RequestInv /\ [Next]_vars => RequestInv'
<1> SUFFICES ASSUME RequestInv, [Next]_vars PROVE RequestInv'
  OBVIOUS
<1> USE DEF RequestInv, callVars, sendVars, listenVars, coreVars
<1>1. TypeOK'
  BY TypeStep
<1>2. ASSUME NEW t \in Threads, CallStep(t) PROVE RequestInv'
  BY <1>1, <1>2, RequestInvCallStep
<1>3. ASSUME NEW t \in Threads, TestStep(t) PROVE RequestInv'
  <2>1. CASE TestResponds(t)
    <3>1. t \in RequestIds /\ t \in Tests /\ pc[t] \in Active
      BY <2>1, RequestTypes DEF TestResponds, Active
    <3>2. /\ UNCHANGED <<toClient, request, listener>>
          /\ pc' = [pc EXCEPT ![t] = "finished"]
          /\ queue' = Append(queue, [type |-> "response", id |-> t])
      BY <2>1 DEF TestResponds
    <3> QED
      BY <1>1, <3>1, <3>2, RequestRespondStep
  <2>2. CASE TestDies(t)
    <3>1. UNCHANGED <<queue, toClient, request, listener>>
      BY <2>2 DEF TestDies
    <3>2. \A u \in Tests : pc'[u] = pc[u] \/ (pc[u] \in Active /\ pc'[u] = "died")
      BY <2>2 DEF TestDies, TypeOK, Active
    <3> QED
      BY <1>1, <3>1, <3>2, QueueUnchanged, WireUnchanged, RequestQuietStep
  <2> QED
    BY <1>3, <2>1, <2>2 DEF TestStep
<1>4. CASE WorkerStep
  BY <1>1, <1>4, RequestInvWorkerStep
<1>5. CASE ListenerStep
  BY <1>1, <1>5, RequestInvListenerStep
<1>6. CASE CoreStep
  <2>1. ASSUME NEW i \in CallIds, NEW v \in Verdicts, CoreAnswers(i, v) PROVE RequestInv'
    <3>1. PICK m \in Message : m.type = "result" /\ toClient' = Append(toClient, m)
      BY <2>1 DEF CoreAnswers, Message
    <3>2. NoNewRequest
      BY <3>1, RequestAppend DEF NoNewRequest
    <3> QED
      BY <1>1, <2>1, <3>2, QueueUnchanged, RequestQuietStep DEF CoreAnswers
  <2>2. ASSUME NEW r \in RequestIds, CoreRequests(r) PROVE RequestInv'
    BY <1>1, <2>2, RequestMadeStep
  <2>3. CASE CoreEnds
    BY <1>1, <2>3, QueueUnchanged, WireUnchanged, RequestQuietStep DEF CoreEnds
  <2>4. CASE ConnectionLost
    <3>1. PICK n \in 0 .. Len(toClient) : toClient' = SubSeq(toClient, 1, n)
      BY <2>4 DEF ConnectionLost
    <3>2. toClient \in Seq(Message)
      BY DEF TypeOK
    <3>3. /\ Len(toClient) \in Nat /\ n \in Nat /\ n <= Len(toClient)
          /\ Len(toClient') = n /\ \A k \in 1 .. n : toClient'[k] = toClient[k]
      BY <3>1, <3>2, PrefixFacts
    <3>4. NoNewRequest
      BY <3>3 DEF NoNewRequest, Wired
    <3> QED
      BY <1>1, <2>4, <3>4, QueueUnchanged, RequestQuietStep DEF ConnectionLost
  <2> QED
    BY <1>6, <2>1, <2>2, <2>3, <2>4 DEF CoreStep
<1>7. CASE UNCHANGED vars
  BY <1>1, <1>7, QueueUnchanged, WireUnchanged, RequestQuietStep DEF vars
<1> QED
  BY <1>2, <1>3, <1>4, <1>5, <1>6, <1>7 DEF Next

(* The inductive invariant of the core's requests holds: each is in one    *)
(* place of its way, and there once.                                       *)
THEOREM RequestInvCorrect == Spec => []RequestInv
  BY RequestInvInit, RequestInvStep, PTL DEF Spec

(* No request is answered twice, nor before it was made, from whatever     *)
(* thread the response comes.                                              *)
THEOREM AnsweredOnce == Spec => []RequestsAreAnsweredOnce
<1>1. RequestInv => RequestsAreAnsweredOnce
  BY DEF RequestInv
<1> QED
  BY <1>1, RequestInvCorrect, PTL

(* Once the client's end of the stream is closed nothing reaches the core: *)
(* the worker that closed it has stopped.                                  *)
THEOREM NothingFollowsHalfClose == Spec => NothingIsSentAfterHalfClose
<1> DEFINE Stopped == halfClosed => worker = "stopped"
           Silent == halfClosed =>
             /\ \A i \in CallIds : core[i] = "absent" => core'[i] = "absent"
             /\ \A r \in RequestIds : request[r] = "awaiting" => request'[r] = "awaiting"
<1> USE DEF callVars, sendVars, listenVars, coreVars
<1>1. Init => Stopped
  BY DEF Init
<1>2. Stopped /\ [Next]_vars => Stopped'
  BY DEF Next, CallStep, BeginCall, RefuseCall, RegisterFuture, SendCall, SendInterrupted,
     ReturnAnswer, Timeout, WaitInterrupted, CloseConnector, TestStep, TestResponds, TestDies,
     WorkerStep, WorkerSends, WorkerCloses, ListenerStep, CompleteWait, StartTest, HandlerBegins,
     HandlerResponds, HandlerThrows, OnError, OnCompleted, CoreStep, CoreAnswers, CoreRequests,
     CoreEnds, ConnectionLost, vars
<1>3. Stopped /\ TypeOK /\ Next => Silent
  <2> SUFFICES ASSUME Stopped, TypeOK, Next, halfClosed PROVE Silent
    OBVIOUS
  <2>1. ASSUME NEW i \in CallIds, NEW v \in Verdicts, CoreAnswers(i, v) PROVE Silent
    BY <2>1 DEF CoreAnswers, TypeOK
  <2>2. ASSUME NEW r \in RequestIds, CoreRequests(r) PROVE Silent
    BY <2>2 DEF CoreRequests, TypeOK
  <2>3. CASE UNCHANGED <<core, request>>
    BY <2>3
  <2> QED
    BY <2>1, <2>2, <2>3
    DEF Next, CallStep, BeginCall, RefuseCall, RegisterFuture, SendCall, SendInterrupted,
     ReturnAnswer, Timeout, WaitInterrupted, CloseConnector, TestStep, TestResponds, TestDies,
     WorkerStep, WorkerSends, WorkerCloses, ListenerStep, CompleteWait, StartTest, HandlerBegins,
     HandlerResponds, HandlerThrows, OnError, OnCompleted, CoreStep, CoreEnds, ConnectionLost
<1>4. Stopped /\ TypeOK /\ [Next]_vars => [Silent]_vars
  BY <1>3
<1> QED
  BY <1>1, <1>2, <1>4, TypeCorrect, PTL DEF Spec, NothingIsSentAfterHalfClose
=============================================================================
