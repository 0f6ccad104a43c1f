----------------------- MODULE EnOceanProtocolProofs ------------------------
(***************************************************************************)
(* What holds of EnOceanProtocol for all requests and every bound on the   *)
(* line, proved with TLAPS.                                                *)
(***************************************************************************)
EXTENDS EnOceanProtocol, SequenceTheorems, TLAPS

USE LineAssumption

-----------------------------------------------------------------------------
(* Type correctness *)

\* Parts of TypeOK that most steps leave together.
LEMMA TransmitType ==
  ASSUME TypeOK, NEW r \in Requests, Transmit(r)
  PROVE  /\ txTimer' = "armed" /\ heard' = FALSE
         /\ controller' \in Seq(Requests)
         /\ txCount' \in [Requests -> 0..MaxTries]
BY DEF Transmit, TypeOK, MaxTries

\* Removing the front request keeps the types of the queue.
LEMMA PopType ==
  ASSUME TypeOK, requests # <<>>, NEW how \in Outcomes, PopRequest(how)
  PROVE  /\ requests' \in Seq(Requests)
         /\ outcome' \in [Requests -> Outcomes]
         /\ txRetryCount' \in 0..(MaxTries - 1)
BY DEF PopRequest, TypeOK, MaxTries

\* The event loop keeps its task when it takes another handler.
LEMMA DispatchType ==
  ASSUME TypeOK, NEW handler, handler # "task", Dispatch(handler),
         ready' = Tail(ready)
  PROVE  ready' \in Seq(Handlers) /\ Queued("task")'
<1>1. PICK i \in 1..Len(ready) : ready[i] = "task"
  BY DEF TypeOK, Queued
<1>2. i - 1 \in 1..Len(Tail(ready)) /\ Tail(ready)[i - 1] = "task"
  BY <1>1 DEF TypeOK, Dispatch
<1>3. Tail(ready) \in Seq(Handlers)
  BY <1>1 DEF TypeOK
<1> QED BY <1>2, <1>3 DEF Queued

\* The reactor queues handlers and nothing else.
LEMMA CompletionsType ==
  ASSUME NEW line, NEW completion \in Completions(line)
  PROVE  completion \in Seq(Handlers)
<1>1. completion \in {<<>>, <<"error">>, <<"read">>}
  BY DEF Completions
<1>2. <<>> \in Seq(Handlers)
  OBVIOUS
<1>3. <<"error">> \in Seq(Handlers) /\ <<"read">> \in Seq(Handlers)
  BY DEF Handlers
<1> QED BY <1>1, <1>2, <1>3

\* A RESPONSE in the buffer says whose it is.
LEMMA ResponseType ==
  ASSUME NEW m \in Message, m.type = "RESPONSE"
  PROVE  m.to \in Requests
BY DEF Message, Radio, Corrupt

\* What the steps of the read handler leave in the buffers.
LEMMA TakeType ==
  ASSUME TypeOK, NEW types, Take(types)
  PROVE  /\ Head(rxBuffer) \in Message /\ Tail(rxBuffer) \in Seq(Message)
         /\ rx' = rx /\ receiving' = receiving /\ link' = link
         /\ ready' = ready
BY DEF Take, TypeOK

\* The types alone are not inductive: the request whose callback runs must
\* still be there when the callback returns.
Responding == pc = "response" => requests # <<>>

\* Every step keeps the types.
LEMMA TypeStep == TypeOK /\ Responding /\ [Next]_vars => TypeOK'
<1> SUFFICES ASSUME TypeOK, Responding, [Next]_vars PROVE TypeOK'
  OBVIOUS
<1> USE DEF queueVars, sendVars, receiveVars
<1>1. ASSUME NEW r \in Requests, SendRequest(r) PROVE TypeOK'
  <2>1. requests' \in Seq(Requests) /\ outcome' \in [Requests -> Outcomes]
    BY <1>1 DEF SendRequest, TypeOK, Outcomes
  <2>2. CASE requests = <<>>
    <3>1. Transmit(r)
      BY <1>1, <2>2 DEF SendRequest
    <3> QED BY <1>1, <2>1, <3>1, TransmitType DEF SendRequest, TypeOK, Queued
  <2>3. CASE requests # <<>>
    BY <1>1, <2>1, <2>3 DEF SendRequest, TypeOK, Queued
  <2> QED BY <2>2, <2>3
<1>2. CASE Poll
  <2>1. PICK descriptor \in Completions(rx), expired \in BOOLEAN :
          PollWith(descriptor, expired)
    BY <1>2 DEF Poll
  <2>2. descriptor \in Seq(Handlers)
    BY CompletionsType
  <2>3. /\ ready' = Tail(ready) \o descriptor
                      \o (IF expired THEN <<"timer", "task">> ELSE <<"task">>)
        /\ txTimer' = IF expired THEN "idle" ELSE txTimer
        /\ UNCHANGED <<queueVars, receiveVars, pc, controller, link, answered,
                       txCount, heard>>
    BY <2>1 DEF PollWith
  <2> DEFINE front == Tail(ready) \o descriptor
             back  == IF expired THEN <<"timer", "task">> ELSE <<"task">>
  <2>4. back \in Seq(Handlers) /\ Len(back) > 0 /\ back[Len(back)] = "task"
    <3>1. CASE expired
      BY <3>1 DEF Handlers
    <3>2. CASE ~expired
      BY <3>2 DEF Handlers
    <3> QED BY <3>1, <3>2
  <2>5. front \in Seq(Handlers)
    <3>1. ready # <<>> /\ ready \in Seq(Handlers)
      BY DEF TypeOK, Queued
    <3> QED BY <2>2, <3>1
  <2>6. ready' = front \o back
    BY <2>3
  <2>7. ready' \in Seq(Handlers) /\ Queued("task")'
    <3> HIDE DEF front, back
    <3>1. ready' \in Seq(Handlers)
      BY <2>4, <2>5, <2>6
    <3>2. /\ Len(ready') = Len(front) + Len(back)
          /\ ready'[Len(front) + Len(back)] = back[Len(back)]
      BY <2>4, <2>5, <2>6
    <3> QED BY <2>4, <2>5, <3>1, <3>2 DEF Queued
  <2> QED BY <2>3, <2>7 DEF TypeOK
<1>3. CASE TimerHandler
  <2>1. ready' \in Seq(Handlers) /\ Queued("task")'
    BY <1>3, DispatchType DEF TimerHandler
  <2>2. UNCHANGED <<receiveVars, link, answered>>
    BY <1>3 DEF TimerHandler
  <2>3. CASE requests = <<>>
    BY <1>3, <2>1, <2>2, <2>3 DEF TimerHandler, TypeOK
  <2>4. CASE requests # <<>> /\ TriesLeft
    <3>1. /\ Transmit(Head(requests)) /\ txRetryCount' = txRetryCount + 1
          /\ UNCHANGED <<requests, outcome, pc>> /\ Head(requests) \in Requests
      BY <1>3, <2>4 DEF TimerHandler, Resend, TypeOK
    <3>2. txRetryCount' \in 0..(MaxTries - 1)
      BY <2>4, <3>1 DEF TriesLeft, TypeOK, MaxTries
    <3> QED BY <2>1, <2>2, <3>1, <3>2, TransmitType DEF TypeOK
  <2>5. CASE requests # <<>> /\ ~TriesLeft
    <3>1. PopRequest("failed") /\ UNCHANGED sendVars /\ pc' = pc
      BY <1>3, <2>5 DEF TimerHandler, Resend
    <3>2. "failed" \in Outcomes
      BY DEF Outcomes
    <3> QED BY <2>1, <2>2, <2>5, <3>1, <3>2, PopType DEF TypeOK
  <2> QED BY <2>3, <2>4, <2>5
<1>4. CASE ReadHandler
  <2>1. ready' \in Seq(Handlers) /\ Queued("task")'
    BY <1>4, DispatchType DEF ReadHandler
  <2>2. PICK n \in 1..Len(rx) :
          /\ rxBuffer' = rxBuffer \o SubSeq(rx, 1, n)
          /\ rx' = SubSeq(rx, n + 1, Len(rx))
    BY <1>4 DEF ReadHandler
  <2>3. rxBuffer' \in Seq(Message) /\ rx' \in Seq(Message)
    <3>1. rx \in Seq(Message) /\ rxBuffer \in Seq(Message)
      BY DEF TypeOK
    <3>2. SubSeq(rx, 1, n) \in Seq(Message) /\ SubSeq(rx, n + 1, Len(rx)) \in Seq(Message)
      BY <3>1
    <3> QED BY <2>2, <3>1, <3>2
  <2> QED BY <1>4, <2>1, <2>3 DEF ReadHandler, TypeOK
<1>5. CASE ReadError
  <2>1. ready' \in Seq(Handlers) /\ Queued("task")'
    BY <1>5, DispatchType DEF ReadError
  <2> QED BY <1>5, <2>1 DEF ReadError, TypeOK
<1>6. CASE ReceiveResponse
  <2>1. Take({"RESPONSE"}) /\ StopTimer /\ requests # <<>> /\ rxBuffer' = Tail(rxBuffer)
        /\ pc' = "response"
        /\ answered' = [answered EXCEPT ![Head(requests)] = @ \cup {Head(rxBuffer).to}]
    BY <1>6 DEF ReceiveResponse
  <2>2. Head(rxBuffer).to \in Requests
    BY <2>1, TakeType, ResponseType DEF Take
  <2>3. answered' \in [Requests -> SUBSET Requests]
    BY <2>1, <2>2 DEF TypeOK
  <2> QED BY <2>1, <2>3, TakeType DEF StopTimer, TypeOK, Queued, MaxTries
<1>7. CASE EndResponse
  <2>1. /\ requests # <<>> /\ PopRequest("done") /\ SendNext /\ pc' = "read"
        /\ UNCHANGED <<ready, receiveVars, link, answered>>
    BY <1>7 DEF EndResponse, Responding
  <2>2. "done" \in Outcomes
    BY DEF Outcomes
  <2>3. CASE Tail(requests) # <<>>
    <3>1. Transmit(Head(Tail(requests)))
      BY <2>1, <2>3 DEF SendNext
    <3>2. Head(Tail(requests)) \in Requests
      BY <2>1, <2>3 DEF TypeOK
    <3> QED BY <2>1, <2>2, <3>1, <3>2, PopType, TransmitType DEF TypeOK, Queued
  <2>4. CASE Tail(requests) = <<>>
    <3>1. UNCHANGED sendVars
      BY <2>1, <2>4 DEF SendNext
    <3> QED BY <2>1, <2>2, <3>1, PopType DEF TypeOK, Queued
  <2> QED BY <2>3, <2>4
<1>8. CASE ReceiveOther
  BY <1>8, TakeType DEF ReceiveOther, StopTimer, TypeOK, Queued, MaxTries
<1>9. CASE EndUpcall
  BY <1>9 DEF EndUpcall, TypeOK, Queued
<1>10. CASE ReceiveGarbage
  <2>1. rxBuffer' \in Seq(Message)
    BY <1>10 DEF ReceiveGarbage
  <2> QED BY <1>10, <2>1, TakeType DEF ReceiveGarbage, TypeOK, Queued
<1>11. CASE Receive
  <2>1. PICK completion \in Completions(rx) : ready' = ready \o completion
    BY <1>11 DEF Receive
  <2>2. completion \in Seq(Handlers)
    BY CompletionsType
  <2>3. ready' \in Seq(Handlers) /\ Queued("task")'
    BY <2>1, <2>2 DEF TypeOK, Queued
  <2> QED BY <1>11, <2>3 DEF Receive, TypeOK
<1>12. CASE Respond
  <2>1. Response(Head(controller)) \in Message /\ controller' \in Seq(Requests)
    BY <1>12 DEF Respond, Response, Message, TypeOK
  <2> QED BY <1>12, <2>1, SMTT(30) DEF Respond, Arrive, TypeOK, Queued
<1>13. CASE Lose
  BY <1>13 DEF Lose, TypeOK, Queued
<1>14. ASSUME NEW m \in Message, Line(m) PROVE TypeOK'
  BY <1>14 DEF Line, Arrive, TypeOK, Queued
<1>15. CASE UNCHANGED vars
  BY <1>15 DEF vars, TypeOK, Queued
<1> QED
  BY <1>1, <1>2, <1>3, <1>4, <1>5, <1>6, <1>7, <1>8, <1>9, <1>10, <1>11, <1>12,
     <1>13, <1>14, <1>15 DEF Next, Run

\* While the callback of a request runs nothing removes it.
LEMMA RespondingStep == TypeOK /\ Responding /\ [Next]_vars => Responding'
<1> SUFFICES ASSUME TypeOK, Responding, [Next]_vars, pc' = "response"
             PROVE  requests' # <<>>
  BY DEF Responding
<1> USE DEF queueVars, sendVars, receiveVars
<1>1. ASSUME NEW r \in Requests, SendRequest(r) PROVE requests' # <<>>
  BY <1>1 DEF SendRequest, TypeOK
<1>2. CASE TimerHandler
  BY <1>2 DEF TimerHandler, Dispatch
<1>3. CASE Poll \/ ReadHandler \/ ReadError
  BY <1>3 DEF Poll, PollWith, ReadHandler, ReadError, Dispatch
<1>4. CASE ReceiveResponse
  BY <1>4 DEF ReceiveResponse, StopTimer
<1>5. CASE EndResponse \/ ReceiveOther \/ EndUpcall \/ ReceiveGarbage \/ Receive
  BY <1>5 DEF EndResponse, ReceiveOther, EndUpcall, ReceiveGarbage, Receive, Take
<1>6. CASE Respond \/ Lose \/ \E m \in Message : Line(m)
  BY <1>6 DEF Respond, Lose, Line, Arrive, Responding
<1>7. CASE UNCHANGED vars
  BY <1>7 DEF vars, Responding
<1> QED BY <1>1, <1>2, <1>3, <1>4, <1>5, <1>6, <1>7 DEF Next, Run

\* Both hold at the start.
LEMMA TypeInit == Init => TypeOK /\ Responding
<1> SUFFICES ASSUME Init PROVE TypeOK /\ Responding
  OBVIOUS
<1>1. ready \in Seq(Handlers) /\ Queued("task")
  BY DEF Init, Handlers, Queued
<1>2. <<>> \in Seq(Requests) /\ <<>> \in Seq(Message)
  OBVIOUS
<1>3. /\ outcome \in [Requests -> Outcomes]
      /\ answered \in [Requests -> SUBSET Requests]
      /\ txCount \in [Requests -> 0..MaxTries]
      /\ txRetryCount \in 0..(MaxTries - 1)
  BY DEF Init, Outcomes, MaxTries
<1> QED BY <1>1, <1>2, <1>3 DEF Init, TypeOK, Responding

\* Both hold always.
LEMMA RespondingCorrect == Spec => [](TypeOK /\ Responding)
BY TypeInit, TypeStep, RespondingStep, PTL DEF Spec

\* Every variable keeps its type; above all the event loop never loses its
\* task and the retry count never passes the limit of resendRequest.
THEOREM TypeCorrect == Spec => []TypeOK
BY RespondingCorrect, PTL

-----------------------------------------------------------------------------
(* The queue *)

\* What a step may do to the queue: append, remove from the front, or neither.
Kinds ==
  \/ \E r \in Requests : SendRequest(r)
  \/ requests # <<>> /\ pc = "loop" /\ Resend /\ answered' = answered
  \/ requests # <<>> /\ pc = "response" /\ EndResponse
  \/ UNCHANGED <<requests, outcome, txCount>>

\* Every step is of one of these kinds.
LEMMA StepKinds ==
  ASSUME TypeOK, Responding, [Next]_vars
  PROVE  Kinds
<1> USE DEF queueVars, sendVars, receiveVars
<1>1. CASE \E r \in Requests : SendRequest(r)
  BY <1>1 DEF Kinds
<1>2. CASE TimerHandler
  BY <1>2 DEF TimerHandler, Dispatch, Kinds
<1>3. CASE EndResponse
  BY <1>3 DEF EndResponse, Responding, Kinds
<1>4. CASE Poll \/ ReadHandler \/ ReadError \/ EndUpcall \/ Receive
  BY <1>4 DEF Poll, PollWith, ReadHandler, ReadError, EndUpcall, Receive, Kinds
<1>5. CASE ReceiveResponse \/ ReceiveOther \/ ReceiveGarbage
  BY <1>5 DEF ReceiveResponse, ReceiveOther, ReceiveGarbage, StopTimer, Kinds
<1>6. CASE Respond \/ Lose \/ \E m \in Message : Line(m)
  BY <1>6 DEF Respond, Lose, Line, Arrive, Kinds
<1>7. CASE UNCHANGED vars
  BY <1>7 DEF vars, Kinds
<1> QED BY <1>1, <1>2, <1>3, <1>4, <1>5, <1>6, <1>7 DEF Next, Run

\* Every step of the protocol is a step of the abstract queue or none.
LEMMA QueueStep ==
  TypeOK /\ Responding /\ [Next]_vars => [Queue!Next]_Queue!abstractVars
<1> SUFFICES ASSUME TypeOK, Responding, [Next]_vars
             PROVE  [Queue!Next]_Queue!abstractVars
  OBVIOUS
<1>1. ASSUME NEW r \in Requests, SendRequest(r) PROVE Queue!Submit(r)
  BY <1>1 DEF SendRequest, Queue!Submit
<1>2. ASSUME requests # <<>>, Resend
      PROVE  Queue!GiveUp \/ UNCHANGED <<requests, outcome>>
  BY <1>2 DEF Resend, PopRequest, Queue!GiveUp, Queue!Leave
<1>3. ASSUME requests # <<>>, EndResponse PROVE Queue!Complete
  BY <1>3 DEF EndResponse, PopRequest, Queue!Complete, Queue!Leave
<1> QED BY <1>1, <1>2, <1>3, StepKinds DEF Kinds, Queue!Next, Queue!abstractVars

\* EnOceanProtocol implements RequestQueue, whatever the controller sends: a
\* request stays in front while its callback runs, and what the callback queues
\* goes behind it.
THEOREM Implements == Spec => ImplementsQueue
<1>1. Init => Queue!Init
  BY DEF Init, Queue!Init
<1> QED BY <1>1, QueueStep, RespondingCorrect, PTL DEF Spec, ImplementsQueue, Queue!Spec

Unfinished == Queue!QueueIsUnfinished

\* Type correctness and the queue invariant together are inductive.
QueueInv == Queue!QueueTypeOK /\ Queue!QueueIsUnfinished

\* A request enters the queue behind the others, and only once.
LEMMA SubmitKeepsInv ==
  ASSUME QueueInv, NEW r \in Requests, Queue!Submit(r)
  PROVE  QueueInv'
<1> USE DEF QueueInv, Queue!QueueTypeOK
<1>1. Queue!QueueTypeOK'
  BY DEF Queue!Submit, Queue!Outcomes
<1>2. /\ Len(requests') = Len(requests) + 1
      /\ \A i \in 1..Len(requests) : requests'[i] = requests[i]
      /\ requests'[Len(requests) + 1] = r
  BY DEF Queue!Submit
<1>3. \A i \in 1..Len(requests) : requests[i] # r
  BY DEF Queue!Submit, Queue!QueueIsUnfinished
<1>4. \A i, j \in 1..Len(requests') : requests'[i] = requests'[j] => i = j
  BY <1>2, <1>3 DEF Queue!QueueIsUnfinished
<1>5. ASSUME NEW q \in Requests
      PROVE  outcome'[q] = "queued" <=> \E i \in 1..Len(requests') : requests'[i] = q
  <2>1. CASE q = r
    BY <1>2, <2>1 DEF Queue!Submit
  <2>2. CASE q # r
    <3>1. outcome'[q] = outcome[q]
      BY <2>2 DEF Queue!Submit
    <3>2. (\E i \in 1..Len(requests) : requests[i] = q)
            <=> (\E i \in 1..Len(requests') : requests'[i] = q)
      BY <1>2, <2>2
    <3> QED BY <3>1, <3>2 DEF Queue!QueueIsUnfinished
  <2> QED BY <2>1, <2>2
<1> QED BY <1>1, <1>4, <1>5 DEF Queue!QueueIsUnfinished

\* The front request leaves, and the others keep their places.
LEMMA LeaveKeepsInv ==
  ASSUME QueueInv, NEW how \in {"done", "failed"}, Queue!Leave(how)
  PROVE  QueueInv'
<1> USE DEF QueueInv, Queue!QueueTypeOK
<1>1. Queue!QueueTypeOK'
  BY DEF Queue!Leave, Queue!Outcomes
<1>2. /\ Len(requests') = Len(requests) - 1
      /\ \A i \in 1..Len(requests') : requests'[i] = requests[i + 1]
      /\ Len(requests) \in Nat \ {0}
      /\ Head(requests) = requests[1]
  BY DEF Queue!Leave
<1>3. ASSUME NEW i \in 1..Len(requests'), NEW j \in 1..Len(requests'),
             requests'[i] = requests'[j]
      PROVE  i = j
  <2>1. i + 1 \in 1..Len(requests) /\ j + 1 \in 1..Len(requests)
    BY <1>2
  <2>2. requests[i + 1] = requests[j + 1]
    BY <1>2, <1>3
  <2>3. i + 1 = j + 1
    BY <2>1, <2>2 DEF Queue!QueueIsUnfinished
  <2> QED BY <1>2, <2>3
<1>4. ASSUME NEW q \in Requests
      PROVE  outcome'[q] = "queued" <=> \E i \in 1..Len(requests') : requests'[i] = q
  <2>1. CASE q = Head(requests)
    <3>1. outcome'[q] # "queued"
      BY <2>1 DEF Queue!Leave
    <3>2. ASSUME NEW i \in 1..Len(requests'), requests'[i] = q
          PROVE  FALSE
      <4>1. i + 1 \in 1..Len(requests) /\ 1 \in 1..Len(requests) /\ i + 1 # 1
        BY <1>2
      <4>2. requests[i + 1] = requests[1]
        BY <1>2, <2>1, <3>2
      <4> QED BY <4>1, <4>2 DEF Queue!QueueIsUnfinished
    <3> QED BY <3>1, <3>2
  <2>2. CASE q # Head(requests)
    <3>1. outcome'[q] = outcome[q]
      BY <2>2 DEF Queue!Leave
    <3>2. ASSUME NEW i \in 1..Len(requests), requests[i] = q
          PROVE  \E k \in 1..Len(requests') : requests'[k] = q
      <4>1. i - 1 \in 1..Len(requests') /\ requests'[i - 1] = q
        BY <1>2, <2>2, <3>2
      <4> QED BY <4>1
    <3>3. (\E i \in 1..Len(requests') : requests'[i] = q)
            => \E i \in 1..Len(requests) : requests[i] = q
      BY <1>2
    <3> QED BY <3>1, <3>2, <3>3 DEF Queue!QueueIsUnfinished
  <2> QED BY <2>1, <2>2
<1> QED BY <1>1, <1>3, <1>4 DEF Queue!QueueIsUnfinished

\* Every step of the abstract queue keeps the queue and the outcomes in agreement.
LEMMA QueueInvStep == QueueInv /\ [Queue!Next]_Queue!abstractVars => QueueInv'
<1> SUFFICES ASSUME QueueInv, [Queue!Next]_Queue!abstractVars PROVE QueueInv'
  OBVIOUS
<1>1. CASE \E r \in Requests : Queue!Submit(r)
  BY <1>1, SubmitKeepsInv
<1>2. CASE Queue!Complete
  BY <1>2, LeaveKeepsInv DEF Queue!Complete
<1>3. CASE Queue!GiveUp
  BY <1>3, LeaveKeepsInv DEF Queue!GiveUp
<1>4. CASE UNCHANGED Queue!abstractVars
  BY <1>4 DEF Queue!abstractVars, QueueInv, Queue!QueueTypeOK, Queue!QueueIsUnfinished
<1> QED BY <1>1, <1>2, <1>3, <1>4 DEF Queue!Next

\* The deque holds exactly the requests whose procedure has not ended, each
\* once.  It holds of RequestQueue, which the protocol implements.
THEOREM QueueCorrect == Spec => []Unfinished
<1>1. Queue!Init => QueueInv
  BY DEF Queue!Init, QueueInv, Queue!QueueTypeOK, Queue!QueueIsUnfinished, Queue!Outcomes
<1>2. QueueInv => Unfinished
  BY DEF QueueInv, Unfinished
<1> QED BY <1>1, <1>2, QueueInvStep, Implements, PTL DEF ImplementsQueue, Queue!Spec

-----------------------------------------------------------------------------
(* The timer *)

\* HeadIsGuarded is not inductive: after a give-up the request that comes to
\* the front must not have been sent.
SentInFront ==
  /\ \A r \in Requests : outcome[r] = "new" => txCount[r] = 0
  /\ \A i \in 2..Len(requests) : txCount[requests[i]] = 0

\* The deque without its front ...
LEMMA TailFacts ==
  ASSUME NEW q \in Seq(Requests), q # <<>>
  PROVE  /\ Tail(q) \in Seq(Requests) /\ Head(q) \in Requests /\ Head(q) = q[1]
         /\ Len(q) \in Nat \ {0} /\ Len(Tail(q)) = Len(q) - 1
         /\ \A i \in 1..Len(Tail(q)) : Tail(q)[i] = q[i + 1]
         /\ Tail(q) # <<>> => Head(Tail(q)) = q[2] /\ Len(q) >= 2
OBVIOUS

\* ... and with a request appended.
LEMMA AppendFacts ==
  ASSUME NEW q \in Seq(Requests), NEW r \in Requests
  PROVE  /\ Append(q, r) \in Seq(Requests) /\ Len(Append(q, r)) = Len(q) + 1
         /\ Len(q) \in Nat
         /\ \A i \in 1..Len(q) : Append(q, r)[i] = q[i]
         /\ Append(q, r)[Len(q) + 1] = r
         /\ Append(q, r) # <<>>
         /\ q # <<>> => Head(Append(q, r)) = Head(q)
         /\ q = <<>> => Head(Append(q, r)) = r
<1>1. /\ Append(q, r) \in Seq(Requests) /\ Len(Append(q, r)) = Len(q) + 1
      /\ Len(q) \in Nat
      /\ \A i \in 1..Len(q) : Append(q, r)[i] = q[i]
      /\ Append(q, r)[Len(q) + 1] = r
  OBVIOUS
<1>2. Append(q, r) # <<>>
  BY <1>1
<1>3. q # <<>> => Head(q) = q[1] /\ 1 \in 1..Len(q)
  OBVIOUS
<1>4. Head(Append(q, r)) = Append(q, r)[1]
  BY <1>1, <1>2
<1>5. q = <<>> => Len(q) = 0
  OBVIOUS
<1> QED BY <1>1, <1>2, <1>3, <1>4, <1>5

\* The request in front is queued, and those behind it are others.
LEMMA FrontFacts ==
  ASSUME TypeOK, Unfinished, requests # <<>>
  PROVE  /\ outcome[Head(requests)] = "queued"
         /\ \A i \in 2..Len(requests) : requests[i] \in Requests \ {Head(requests)}
<1>1. /\ requests \in Seq(Requests) /\ Head(requests) = requests[1]
      /\ Head(requests) \in Requests /\ Len(requests) \in Nat \ {0}
  BY TailFacts DEF TypeOK
<1>2. /\ \A i, j \in 1..Len(requests) : requests[i] = requests[j] => i = j
      /\ \A r \in Requests :
           outcome[r] = "queued" <=> \E i \in 1..Len(requests) : requests[i] = r
  BY DEF Unfinished, Queue!QueueIsUnfinished
<1>3. 1 \in 1..Len(requests)
  BY <1>1
<1>4. outcome[Head(requests)] = "queued"
  BY <1>1, <1>2, <1>3
<1>5. ASSUME NEW i \in 2..Len(requests) PROVE requests[i] \in Requests \ {Head(requests)}
  <2>1. i \in 1..Len(requests) /\ i # 1
    BY <1>1
  <2> QED BY <1>1, <1>2, <1>3, <2>1
<1> QED BY <1>4, <1>5

\* Only the front request is sent.
LEMMA SentInFrontStep ==
  TypeOK /\ Responding /\ Unfinished /\ SentInFront /\ [Next]_vars => SentInFront'
<1> SUFFICES ASSUME TypeOK, Responding, Unfinished, SentInFront, [Next]_vars
             PROVE  SentInFront'
  OBVIOUS
<1> USE DEF sendVars
<1>1. ASSUME NEW r \in Requests, SendRequest(r) PROVE SentInFront'
  <2>1. /\ outcome[r] = "new" /\ txCount[r] = 0
        /\ outcome' = [outcome EXCEPT ![r] = "queued"]
        /\ requests' = Append(requests, r)
    BY <1>1 DEF SendRequest, SentInFront
  <2>2. \A q \in Requests \ {r} : txCount'[q] = txCount[q] /\ outcome'[q] = outcome[q]
    BY <1>1 DEF SendRequest, Transmit, TypeOK
  <2>3. outcome'[r] = "queued"
    BY <2>1 DEF TypeOK
  <2>5. CASE requests = <<>>
    <3>1. Len(requests') = 1
      BY <2>1, <2>5, AppendFacts
    <3> QED BY <2>2, <2>3, <3>1 DEF SentInFront
  <2>6. CASE requests # <<>>
    <3>1. txCount' = txCount
      BY <1>1, <2>6 DEF SendRequest
    <3>2. ASSUME NEW i \in 2..Len(requests') PROVE txCount'[requests'[i]] = 0
      BY <2>1, <3>1, AppendFacts DEF SentInFront, TypeOK
    <3> QED BY <2>2, <2>3, <3>2 DEF SentInFront
  <2> QED BY <2>5, <2>6
<1>2. ASSUME requests # <<>>, Resend PROVE SentInFront'
  <2>1. CASE TriesLeft
    <3>1. /\ Transmit(Head(requests)) /\ UNCHANGED <<requests, outcome>>
      BY <1>2, <2>1 DEF Resend
    <3>2. \A q \in Requests \ {Head(requests)} : txCount'[q] = txCount[q]
      BY <1>2, <3>1 DEF Transmit, TypeOK
    <3>3. outcome[Head(requests)] = "queued"
      BY <1>2, FrontFacts
    <3>4. \A i \in 2..Len(requests) : requests[i] \in Requests \ {Head(requests)}
      BY <1>2, FrontFacts
    <3> QED BY <3>1, <3>2, <3>3, <3>4 DEF SentInFront
  <2>2. CASE ~TriesLeft
    <3>1. /\ requests' = Tail(requests) /\ txCount' = txCount
          /\ outcome' = [outcome EXCEPT ![Head(requests)] = "failed"]
      BY <1>2, <2>2 DEF Resend, PopRequest
    <3>2. ASSUME NEW i \in 2..Len(requests') PROVE txCount'[requests'[i]] = 0
      BY <1>2, <3>1, TailFacts DEF SentInFront, TypeOK
    <3> QED BY <3>1, <3>2 DEF SentInFront, TypeOK
  <2> QED BY <2>1, <2>2
<1>3. ASSUME requests # <<>>, EndResponse PROVE SentInFront'
  <2>1. /\ requests' = Tail(requests)
        /\ outcome' = [outcome EXCEPT ![Head(requests)] = "done"]
        /\ SendNext
    BY <1>3 DEF EndResponse, PopRequest
  <2>2. CASE Tail(requests) = <<>>
    <3>1. txCount' = txCount
      BY <2>1, <2>2 DEF SendNext
    <3>2. Len(requests') = 0
      BY <2>1, <2>2
    <3>3. ASSUME NEW r \in Requests, outcome'[r] = "new" PROVE outcome[r] = "new"
      BY <2>1, <3>3 DEF TypeOK
    <3> QED BY <3>1, <3>2, <3>3 DEF SentInFront
  <2>3. CASE Tail(requests) # <<>>
    <3> DEFINE next == Head(Tail(requests))
    <3>1. Transmit(next) /\ next = requests[2] /\ next \in Requests /\ Len(requests) >= 2
      BY <1>3, <2>1, <2>3, TailFacts DEF SendNext, TypeOK
    <3>2. \A q \in Requests \ {next} : txCount'[q] = txCount[q]
      BY <3>1 DEF Transmit, TypeOK
    <3>3. outcome[next] = "queued" /\ next # Head(requests)
      <4>1. 2 \in 1..Len(requests) /\ 2 \in 2..Len(requests)
        BY <1>3, <3>1, TailFacts DEF TypeOK
      <4>2. outcome[next] = "queued"
        BY <3>1, <4>1 DEF Unfinished, Queue!QueueIsUnfinished
      <4> QED BY <1>3, <3>1, <4>1, <4>2, FrontFacts
    <3>4. ASSUME NEW i \in 2..Len(requests') PROVE txCount'[requests'[i]] = 0
      <4>1. requests'[i] = requests[i + 1] /\ i + 1 \in 1..Len(requests) /\ i + 1 # 2
            /\ i + 1 \in 2..Len(requests)
        BY <1>3, <2>1, TailFacts DEF TypeOK
      <4>2. requests[i + 1] \in Requests \ {next}
        BY <3>1, <4>1 DEF Unfinished, Queue!QueueIsUnfinished, TypeOK
      <4> QED BY <3>2, <4>1, <4>2 DEF SentInFront
    <3>5. ASSUME NEW q \in Requests, outcome'[q] = "new" PROVE txCount'[q] = 0
      <4>1. q # next /\ outcome[q] = "new"
        BY <2>1, <3>3, <3>5 DEF TypeOK
      <4> QED BY <3>2, <4>1 DEF SentInFront
    <3> QED BY <3>4, <3>5 DEF SentInFront
  <2> QED BY <2>2, <2>3
<1>4. ASSUME UNCHANGED <<requests, outcome, txCount>> PROVE SentInFront'
  BY <1>4 DEF SentInFront
<1> QED BY <1>1, <1>2, <1>3, <1>4, StepKinds DEF Kinds

\* At the start nothing was sent.
LEMMA SentInFrontInit == Init => SentInFront
<1> SUFFICES ASSUME Init PROVE SentInFront
  OBVIOUS
<1>1. Len(requests) = 0
  BY DEF Init
<1> QED BY <1>1 DEF Init, SentInFront

\* At all times only the front request was sent.
LEMMA SentInFrontCorrect == Spec => []SentInFront
BY SentInFrontInit, SentInFrontStep, RespondingCorrect, QueueCorrect, PTL DEF Spec

\* An expiry that is queued stays until its handler runs.
LEMMA ExpiryStays ==
  ASSUME TypeOK, Queued("timer"), NEW handler, handler # "timer", Dispatch(handler),
         NEW back \in Seq(Handlers), ready' = Tail(ready) \o back
  PROVE  Queued("timer")'
<1>1. PICK i \in 1..Len(ready) : ready[i] = "timer"
  BY DEF Queued
<1>2. /\ ready \in Seq(Handlers) /\ ready # <<>> /\ i # 1 /\ i \in Nat
      /\ Len(ready) \in Nat
  BY <1>1 DEF TypeOK, Dispatch
<1>3. /\ i - 1 \in 1..Len(Tail(ready)) /\ Tail(ready)[i - 1] = "timer"
      /\ Tail(ready) \in Seq(Handlers)
  BY <1>1, <1>2
<1>4. ready'[i - 1] = "timer" /\ i - 1 \in 1..Len(ready')
  BY <1>3
<1> QED BY <1>4 DEF Queued

\* What is appended is there.
LEMMA AppendedIsThere ==
  ASSUME NEW s \in Seq(Handlers), NEW t \in Seq(Handlers), Len(t) > 0
  PROVE  \E i \in 1..Len(s \o t) : (s \o t)[i] = t[1]
<1>1. Len(s \o t) = Len(s) + Len(t) /\ Len(s) \in Nat /\ Len(t) \in Nat
  OBVIOUS
<1>2. (s \o t)[Len(s) + 1] = t[1]
  OBVIOUS
<1>3. Len(s) + 1 \in 1..Len(s \o t)
  BY <1>1
<1> QED BY <1>2, <1>3

\* The timer, or its queued expiry, stays while nothing is heard and the front
\* request stays the same.
Watched == txTimer = "armed" \/ Queued("timer")

\* Every step keeps the watch.
LEMMA GuardStep ==
  TypeOK /\ Responding /\ Unfinished /\ SentInFront /\ HeadIsGuarded /\ [Next]_vars
    => HeadIsGuarded'
<1> SUFFICES ASSUME TypeOK, Responding, Unfinished, SentInFront, HeadIsGuarded,
                    [Next]_vars,
                    requests' # <<>>, txCount'[Head(requests')] > 0, ~heard'
             PROVE  Watched'
  BY DEF HeadIsGuarded, Watched, Queued
<1> USE DEF queueVars, sendVars, receiveVars
<1>0. ASSUME UNCHANGED <<requests, txCount, heard>> PROVE Watched
  BY <1>0 DEF HeadIsGuarded, Watched
<1>1. ASSUME NEW r \in Requests, SendRequest(r) PROVE Watched'
  <2>1. CASE requests = <<>>
    BY <1>1, <2>1 DEF SendRequest, Transmit, Watched
  <2>2. CASE requests # <<>>
    <3>1. Head(requests') = Head(requests)
      BY <1>1, <2>2, AppendFacts DEF SendRequest, TypeOK
    <3> QED BY <1>1, <2>2, <3>1 DEF SendRequest, HeadIsGuarded, Watched, Queued
  <2> QED BY <2>1, <2>2
<1>2. CASE Poll
  <2>1. PICK descriptor \in Completions(rx), expired \in BOOLEAN :
          PollWith(descriptor, expired)
    BY <1>2 DEF Poll
  <2>2. Watched
    BY <1>0, <2>1 DEF PollWith
  <2> DEFINE last == IF expired THEN <<"timer", "task">> ELSE <<"task">>
             back == descriptor \o last
  <2>3. descriptor \in Seq(Handlers)
    BY CompletionsType
  <2>4. last \in Seq(Handlers) /\ (expired => Len(last) = 2 /\ last[1] = "timer")
    <3>1. <<"timer", "task">> \in Seq(Handlers) /\ <<"task">> \in Seq(Handlers)
      BY DEF Handlers
    <3> QED BY <3>1
  <2>5. Tail(ready) \in Seq(Handlers) /\ Dispatch("task")
    BY <2>1 DEF PollWith, TypeOK, Queued
  <2>6. /\ ready' = (Tail(ready) \o descriptor) \o last
        /\ txTimer' = IF expired THEN "idle" ELSE txTimer
    BY <2>1 DEF PollWith
  <2> HIDE DEF last
  <2>7. ready' = Tail(ready) \o back /\ back \in Seq(Handlers)
    BY <2>3, <2>4, <2>5, <2>6
  <2>8. CASE Queued("timer")
    <3> HIDE DEF back
    <3> QED BY <2>5, <2>7, <2>8, ExpiryStays DEF Watched
  <2>9. CASE ~Queued("timer") /\ ~expired
    BY <2>2, <2>6, <2>9 DEF Watched
  <2>10. CASE expired
    <3> DEFINE front == Tail(ready) \o descriptor
    <3>1. front \in Seq(Handlers) /\ ready' = front \o last
      BY <2>3, <2>5, <2>6
    <3>2. \E i \in 1..Len(ready') : ready'[i] = "timer"
      <4>1. last \in Seq(Handlers) /\ Len(last) > 0 /\ last[1] = "timer"
        BY <2>4, <2>10, SMTT(30)
      <4> HIDE DEF front
      <4>2. \E i \in 1..Len(front \o last) : (front \o last)[i] = last[1]
        BY <3>1, <4>1, AppendedIsThere
      <4> QED BY <3>1, <4>1, <4>2
    <3> QED BY <3>2 DEF Watched, Queued
  <2> QED BY <2>8, <2>9, <2>10
<1>3. CASE TimerHandler
  <2>1. CASE requests = <<>>
    BY <1>3, <2>1 DEF TimerHandler
  <2>2. CASE requests # <<>> /\ TriesLeft
    BY <1>3, <2>2 DEF TimerHandler, Resend, Transmit, Watched
  <2>3. CASE requests # <<>> /\ ~TriesLeft
    <3>1. requests' = Tail(requests) /\ txCount' = txCount
      BY <1>3, <2>3 DEF TimerHandler, Resend, PopRequest
    <3>2. Head(requests') = requests[2] /\ 2 \in 2..Len(requests)
      BY <2>3, <3>1, TailFacts DEF TypeOK
    <3>3. txCount[requests[2]] = 0
      BY <3>2 DEF SentInFront
    <3> QED BY <3>1, <3>2, <3>3
  <2> QED BY <2>1, <2>2, <2>3
<1>4. CASE ReadHandler \/ ReadError
  <2>1. /\ UNCHANGED <<requests, txCount, heard, txTimer>> /\ ready' = Tail(ready)
        /\ Dispatch("read") \/ Dispatch("error")
    BY <1>4 DEF ReadHandler, ReadError
  <2>2. Watched /\ <<>> \in Seq(Handlers) /\ Tail(ready) \o <<>> = Tail(ready)
    <3>1. ready \in Seq(Handlers) /\ ready # <<>>
      BY DEF TypeOK, Queued
    <3> QED BY <1>0, <2>1, <3>1
  <2>3. CASE txTimer = "armed"
    BY <2>1, <2>3 DEF Watched
  <2>4. CASE Queued("timer")
    BY <2>1, <2>2, <2>4, ExpiryStays DEF Watched
  <2> QED BY <2>2, <2>3, <2>4 DEF Watched
<1>5. CASE ReceiveResponse \/ ReceiveOther
  BY <1>5 DEF ReceiveResponse, ReceiveOther, StopTimer
<1>6. CASE EndResponse
  <2>1. requests # <<>> /\ requests' = Tail(requests) /\ SendNext
    BY <1>6 DEF EndResponse, PopRequest, Responding
  <2> QED BY <2>1 DEF SendNext, Transmit, Watched
<1>7. CASE EndUpcall \/ ReceiveGarbage \/ Respond \/ Lose \/ \E m \in Message : Line(m)
  <2>1. UNCHANGED <<requests, txCount, heard, txTimer, ready>>
    BY <1>7 DEF EndUpcall, ReceiveGarbage, Take, Respond, Lose, Line, Arrive
  <2> QED BY <1>0, <2>1 DEF Watched, Queued
<1>8. CASE Receive
  <2>1. PICK completion \in Completions(rx) : ready' = ready \o completion
    BY <1>8 DEF Receive
  <2>2. UNCHANGED <<requests, txCount, heard, txTimer>> /\ Watched
    BY <1>0, <1>8 DEF Receive
  <2>3. completion \in Seq(Handlers) /\ ready \in Seq(Handlers)
    BY CompletionsType DEF TypeOK
  <2>4. Queued("timer") => Queued("timer")'
    BY <2>1, <2>3 DEF Queued
  <2> QED BY <2>2, <2>4 DEF Watched
<1>9. CASE UNCHANGED vars
  BY <1>0, <1>9 DEF vars, Watched, Queued
<1> QED BY <1>1, <1>2, <1>3, <1>4, <1>5, <1>6, <1>7, <1>8, <1>9 DEF Next, Run

\* A front request that was sent, and since when no frame came, is watched by
\* the timer or its queued expiry, in every order of handlers.
THEOREM GuardCorrect == Spec => []HeadIsGuarded
<1>1. Init => HeadIsGuarded
  BY DEF Init, HeadIsGuarded
<1> QED BY <1>1, GuardStep, RespondingCorrect, QueueCorrect, SentInFrontCorrect, PTL DEF Spec

-----------------------------------------------------------------------------
(* While every answer is prompt *)

\* No timeout is queued.
NoTimeout == link = "prompt" => ~Queued("timer")

\* Everything the controller has answered and no handler has looked at.
line == rxBuffer \o rx

\* Request r is the front one, and its response has not been handed out.
Awaiting(r) == requests # <<>> /\ r = Head(requests) /\ pc # "response"

\* One answer at most is under way, in the controller or on the line, and it is
\* that of the front request.
OneAnswer ==
  link = "prompt" =>
    /\ controller # <<>> => controller = <<Head(requests)>> /\ Awaiting(Head(requests))
    /\ \A i \in 1..Len(line) :
         /\ line[i].type # "CORRUPT"
         /\ line[i].type = "RESPONSE" =>
              /\ Awaiting(line[i].to)
              /\ controller = <<>>
              /\ \A j \in 1..Len(line) : line[j].type = "RESPONSE" => j = i

\* The front request has its own response while its callback runs.
OwnAnswers ==
  link = "prompt" =>
    /\ \A r \in Requests : answered[r] \subseteq {r}
    /\ \A r \in Requests : outcome[r] = "done" => answered[r] = {r}
    /\ pc = "response" => answered[Head(requests)] = {Head(requests)}

\* A timer that does not expire is never queued.
LEMMA NoTimeoutStep == TypeOK /\ NoTimeout /\ [Next]_vars => NoTimeout'
<1> SUFFICES ASSUME TypeOK, NoTimeout, [Next]_vars, link' = "prompt"
             PROVE  ~Queued("timer")'
  BY DEF NoTimeout
<1> USE DEF queueVars, sendVars, receiveVars
<1>0. ASSUME link = "prompt", ready' = ready PROVE ~Queued("timer")'
  BY <1>0 DEF NoTimeout, Queued
<1>1. ASSUME NEW back \in Seq({"task", "read", "error"}), link = "prompt",
             ready # <<>>, ready' = Tail(ready) \o back
      PROVE  ~Queued("timer")'
  <2>1. ready \in Seq(Handlers) /\ \A i \in 1..Len(ready) : ready[i] # "timer"
    BY <1>1 DEF NoTimeout, Queued, TypeOK
  <2>2. Tail(ready) \in Seq(Handlers)
        /\ \A i \in 1..Len(Tail(ready)) : Tail(ready)[i] # "timer"
    BY <1>1, <2>1
  <2> DEFINE front == Tail(ready)
  <2> HIDE DEF front
  <2>3. front \in Seq(Handlers) /\ \A i \in 1..Len(front) : front[i] # "timer"
    BY <2>2 DEF front
  <2>4. \A i \in 1..Len(back) : back[i] # "timer"
    <3>1. \A i \in 1..Len(back) : back[i] \in {"task", "read", "error"}
      BY <1>1
    <3> QED BY <3>1
  <2>5. \A i \in 1..Len(front \o back) : (front \o back)[i] # "timer"
    BY <1>1, <2>3, <2>4
  <2> QED BY <1>1, <2>5 DEF Queued, front
<1>2. ASSUME NEW completion \in Seq({"task", "read", "error"}), link = "prompt",
             ready' = ready \o completion
      PROVE  ~Queued("timer")'
  <2>1. ready \in Seq(Handlers) /\ \A i \in 1..Len(ready) : ready[i] # "timer"
    BY <1>2 DEF NoTimeout, Queued, TypeOK
  <2>2. \A i \in 1..Len(completion) : completion[i] # "timer"
    <3>1. \A i \in 1..Len(completion) : completion[i] \in {"task", "read", "error"}
      BY <1>2
    <3> QED BY <3>1
  <2> QED BY <1>2, <2>1, <2>2 DEF Queued
<1>3. /\ <<>> \in Seq({"task", "read", "error"})
      /\ <<"task">> \in Seq({"task", "read", "error"})
      /\ <<"read">> \in Seq({"task", "read", "error"})
      /\ <<"error">> \in Seq({"task", "read", "error"})
  OBVIOUS
<1>4. ready \in Seq(Handlers) /\ ready # <<>>
  BY DEF TypeOK, Queued
<1>5. CASE Poll
  <2>1. PICK descriptor \in Completions(rx), expired \in BOOLEAN :
          PollWith(descriptor, expired)
    BY <1>5 DEF Poll
  <2>2. link = "prompt" /\ ready' = Tail(ready) \o descriptor \o <<"task">>
    BY <2>1 DEF PollWith
  <2>3. descriptor \in {<<>>, <<"error">>, <<"read">>}
    BY DEF Completions
  <2>4. descriptor \in Seq({"task", "read", "error"})
    BY <1>3, <2>3
  <2>5. descriptor \o <<"task">> \in Seq({"task", "read", "error"})
    BY <1>3, <2>4
  <2>6. Tail(ready) \in Seq(Handlers) /\ descriptor \in Seq(Handlers)
        /\ <<"task">> \in Seq(Handlers)
    BY <1>3, <1>4, CompletionsType DEF Handlers
  <2>7. ready' = Tail(ready) \o (descriptor \o <<"task">>)
    BY <2>2, <2>6
  <2> QED BY <1>1, <1>4, <2>2, <2>5, <2>7
<1>6. CASE TimerHandler \/ ReadHandler \/ ReadError
  <2>1. link = "prompt" /\ ready' = Tail(ready)
    BY <1>6 DEF TimerHandler, ReadHandler, ReadError
  <2>2. ready' = Tail(ready) \o <<>>
    BY <1>4, <2>1
  <2> QED BY <1>1, <1>3, <1>4, <2>1, <2>2
<1>7. CASE Receive
  <2>1. PICK completion \in Completions(rx) : ready' = ready \o completion
    BY <1>7 DEF Receive
  <2>2. completion \in {<<>>, <<"error">>, <<"read">>} /\ link = "prompt"
    BY <1>7 DEF Completions, Receive
  <2> QED BY <1>2, <1>3, <2>1, <2>2
<1>8. CASE \/ ReceiveResponse \/ EndResponse \/ ReceiveOther \/ EndUpcall
           \/ ReceiveGarbage \/ Respond \/ Lose
           \/ \E r \in Requests : SendRequest(r)
           \/ \E m \in Message : Line(m)
  <2>1. ready' = ready /\ link' = link
    BY <1>8 DEF ReceiveResponse, EndResponse, ReceiveOther, EndUpcall, Take,
                ReceiveGarbage, Respond, Lose, Arrive, SendRequest, Line
  <2> QED BY <1>0, <2>1
<1>9. CASE UNCHANGED vars
  BY <1>0, <1>9 DEF vars
<1> QED BY <1>5, <1>6, <1>7, <1>8, <1>9 DEF Next, Run

\* What is on the line, and how the steps change it.
LEMMA LineType == TypeOK => line \in Seq(Message)
BY DEF TypeOK, line

\* Appending messages is associative.
LEMMA MessagesAppended ==
  ASSUME NEW s \in Seq(Message), NEW t \in Seq(Message), NEW u \in Seq(Message)
  PROVE  (s \o t) \o u = s \o (t \o u)
BY ConcatAssociative

\* The read handler only moves messages to the receive buffer.
LEMMA LineRead ==
  ASSUME TypeOK, NEW n \in 1..Len(rx),
         rxBuffer' = rxBuffer \o SubSeq(rx, 1, n), rx' = SubSeq(rx, n + 1, Len(rx))
  PROVE  line' = line
<1>1. rx \in Seq(Message) /\ rxBuffer \in Seq(Message)
  BY DEF TypeOK
<1>2. SubSeq(rx, 1, n) \o SubSeq(rx, n + 1, Len(rx)) = rx
  BY <1>1
<1>3. SubSeq(rx, 1, n) \in Seq(Message) /\ SubSeq(rx, n + 1, Len(rx)) \in Seq(Message)
  BY <1>1
<1> DEFINE a == SubSeq(rx, 1, n)
           b == SubSeq(rx, n + 1, Len(rx))
<1>4. a \in Seq(Message) /\ b \in Seq(Message) /\ a \o b = rx
  BY <1>2, <1>3
<1> HIDE DEF a, b
<1>5. (rxBuffer \o a) \o b = rxBuffer \o (a \o b)
  BY <1>1, <1>4, MessagesAppended, ZenonT(30)
<1> QED BY <1>4, <1>5 DEF line, a, b

\* A message that is handled was the first on the line.
LEMMA LineTake ==
  ASSUME TypeOK, rxBuffer # <<>>, rxBuffer' = Tail(rxBuffer), rx' = rx
  PROVE  /\ 1 \in 1..Len(line) /\ line[1] = Head(rxBuffer)
         /\ line' = Tail(line)
<1>1. rx \in Seq(Message) /\ rxBuffer \in Seq(Message) /\ Len(rxBuffer) > 0
  BY DEF TypeOK
<1>2. Tail(rxBuffer) \o rx = Tail(rxBuffer \o rx)
  BY <1>1
<1> QED BY <1>1, <1>2 DEF line

\* A message that arrives is the last.
LEMMA LineArrive ==
  ASSUME TypeOK, NEW m \in Message, rx' = Append(rx, m), rxBuffer' = rxBuffer
  PROVE  line' = Append(line, m)
<1>1. rx \in Seq(Message) /\ rxBuffer \in Seq(Message)
  BY DEF TypeOK
<1>2. rxBuffer \o Append(rx, m) = Append(rxBuffer \o rx, m)
  BY <1>1
<1> QED BY <1>2 DEF line

\* While nothing is awaited nothing is under way.
LEMMA NothingAwaited ==
  ASSUME OneAnswer, link = "prompt", requests = <<>> \/ pc = "response"
  PROVE  /\ controller = <<>>
         /\ \A i \in 1..Len(line) : line[i].type \notin {"CORRUPT", "RESPONSE"}
BY DEF OneAnswer, Awaiting

\* One request that is sent is then the only one to be answered.
LEMMA OneIsSent ==
  ASSUME TypeOK, OneAnswer, link = "prompt", requests = <<>> \/ pc = "response",
         requests' # <<>>, Head(requests') \in Requests, Transmit(Head(requests')),
         pc' # "response", line' = line
  PROVE  OneAnswer'
<1>1. controller = <<>>
      /\ \A i \in 1..Len(line) : line[i].type \notin {"CORRUPT", "RESPONSE"}
  BY NothingAwaited
<1>2. controller' = <<Head(requests')>>
  <2>1. Len(controller) < MaxLine
    BY <1>1, LineAssumption
  <2>2. controller' = Append(controller, Head(requests'))
    BY <2>1 DEF Transmit
  <2> QED BY <1>1, <2>2
<1> QED BY <1>1, <1>2 DEF OneAnswer, Awaiting

\* A request is sent only when no other is under way.
LEMMA OneAnswerStep ==
  TypeOK /\ Responding /\ NoTimeout /\ OneAnswer /\ [Next]_vars => OneAnswer'
<1> SUFFICES ASSUME TypeOK, Responding, NoTimeout, OneAnswer, [Next]_vars,
                    link' = "prompt"
             PROVE  OneAnswer'
  BY DEF OneAnswer
<1> USE DEF queueVars, sendVars, receiveVars
<1>l. link = "prompt"
  <2>1. CASE Run
    BY <2>1 DEF Run, Poll, PollWith, TimerHandler, ReadHandler, ReadError, Take,
                ReceiveResponse, EndResponse, ReceiveOther, EndUpcall,
                ReceiveGarbage, Receive
  <2>2. CASE \E r \in Requests : SendRequest(r)
    BY <2>2 DEF SendRequest
  <2>3. CASE Respond \/ Lose \/ \E m \in Message : Line(m)
    BY <2>3 DEF Respond, Lose, Line, Arrive
  <2>4. CASE UNCHANGED vars
    BY <2>4 DEF vars
  <2> QED BY <2>1, <2>2, <2>3, <2>4 DEF Next
<1> USE <1>l
<1>t. line \in Seq(Message) /\ Len(line) \in Nat
  BY LineType
<1>0. ASSUME UNCHANGED <<requests, controller>>, line' = line,
             pc' # "response" \/ pc' = pc
      PROVE  OneAnswer'
  BY <1>0 DEF OneAnswer, Awaiting
<1>1. ASSUME NEW r \in Requests, SendRequest(r) PROVE OneAnswer'
  <2>1. line' = line /\ pc' = pc /\ requests' = Append(requests, r)
    BY <1>1 DEF SendRequest, line
  <2>2. CASE requests = <<>>
    <3>1. requests' # <<>> /\ Head(requests') = r
      BY <2>1, <2>2
    <3>2. Transmit(r) /\ pc' # "response"
      BY <1>1, <2>1, <2>2 DEF SendRequest, Responding
    <3>3. Transmit(Head(requests'))
      BY <3>1, <3>2
    <3> QED BY <2>1, <2>2, <3>1, <3>2, <3>3, OneIsSent
  <2>3. CASE requests # <<>>
    <3>1. Head(requests') = Head(requests) /\ requests' # <<>>
      BY <2>1, <2>3, AppendFacts DEF TypeOK
    <3>2. controller' = controller
      BY <1>1, <2>3 DEF SendRequest
    <3> QED BY <2>1, <2>3, <3>1, <3>2 DEF OneAnswer, Awaiting
  <2> QED BY <2>2, <2>3
<1>2. CASE Poll \/ ReadError \/ Receive
  BY <1>0, <1>2 DEF Poll, PollWith, ReadError, Receive, line
<1>3. CASE TimerHandler
  <2>1. ready \in Seq(Handlers) /\ ready # <<>> /\ Head(ready) = "timer"
    BY <1>3 DEF TimerHandler, Dispatch, TypeOK, Queued
  <2>2. ready[1] = "timer" /\ 1 \in 1..Len(ready)
    BY <2>1
  <2> QED BY <2>2 DEF NoTimeout, Queued
<1>4. CASE ReadHandler
  <2>1. PICK n \in 1..Len(rx) : /\ rxBuffer' = rxBuffer \o SubSeq(rx, 1, n)
                                /\ rx' = SubSeq(rx, n + 1, Len(rx))
    BY <1>4 DEF ReadHandler
  <2>2. line' = line
    BY <2>1, LineRead
  <2> QED BY <1>0, <1>4, <2>2 DEF ReadHandler
<1>5. CASE ReceiveResponse
  <2>1. /\ rxBuffer # <<>> /\ rxBuffer' = Tail(rxBuffer) /\ rx' = rx
        /\ Head(rxBuffer).type = "RESPONSE"
        /\ UNCHANGED <<requests, controller>>
    BY <1>5 DEF ReceiveResponse, Take, StopTimer
  <2>2. 1 \in 1..Len(line) /\ line[1].type = "RESPONSE" /\ line' = Tail(line)
    BY <2>1, LineTake
  <2>3. controller' = <<>>
        /\ \A j \in 1..Len(line) : line[j].type # "CORRUPT"
                                   /\ (line[j].type = "RESPONSE" => j = 1)
    BY <2>1, <2>2 DEF OneAnswer
  <2>4. \A i \in 1..Len(line') : /\ i + 1 \in 1..Len(line) /\ i + 1 # 1
                                 /\ line'[i] = line[i + 1]
    BY <1>t, <2>2
  <2>5. \A i \in 1..Len(line') : line'[i].type \notin {"RESPONSE", "CORRUPT"}
    BY <2>3, <2>4
  <2> QED BY <2>3, <2>5 DEF OneAnswer
<1>6. CASE EndResponse
  <2>1. /\ pc = "response" /\ pc' = "read" /\ requests # <<>>
        /\ requests' = Tail(requests) /\ SendNext /\ line' = line
    BY <1>6 DEF EndResponse, PopRequest, Responding, line
  <2>2. requests' \in Seq(Requests)
    BY <2>1 DEF TypeOK
  <2>3. CASE requests' = <<>>
    <3>1. controller' = controller
      BY <2>1, <2>3 DEF SendNext
    <3> QED BY <2>1, <3>1, NothingAwaited DEF OneAnswer
  <2>4. CASE requests' # <<>>
    <3>1. Transmit(Head(requests'))
      BY <2>1, <2>4 DEF SendNext
    <3>2. Head(requests') \in Requests
      BY <2>2, <2>4
    <3> QED BY <2>1, <2>4, <3>1, <3>2, OneIsSent
  <2> QED BY <2>3, <2>4
<1>7. CASE ReceiveOther
  <2>1. /\ rxBuffer # <<>> /\ rxBuffer' = Tail(rxBuffer) /\ rx' = rx
        /\ pc' = "upcall" /\ pc = "read"
        /\ UNCHANGED <<requests, controller>>
    BY <1>7 DEF ReceiveOther, Take, StopTimer
  <2>2. 1 \in 1..Len(line) /\ line' = Tail(line)
    BY <2>1, LineTake
  <2>3. \A i \in 1..Len(line') : i + 1 \in 1..Len(line) /\ line'[i] = line[i + 1]
    BY <1>t, <2>2
  <2>4. controller' # <<>> => controller' = <<Head(requests')>> /\ Awaiting(Head(requests))'
    BY <2>1 DEF OneAnswer, Awaiting
  <2>5. ASSUME NEW i \in 1..Len(line') PROVE line'[i].type # "CORRUPT"
    BY <2>3, <2>5 DEF OneAnswer
  <2>6. ASSUME NEW i \in 1..Len(line'), line'[i].type = "RESPONSE"
        PROVE  /\ Awaiting(line[i].to)'
               /\ controller' = <<>>
               /\ \A j \in 1..Len(line') : line'[j].type = "RESPONSE" => j = i
    <3>1. i + 1 \in 1..Len(line) /\ line'[i] = line[i + 1] /\ i \in Nat
      BY <1>t, <2>2, <2>3
    <3>2. Awaiting(line[i + 1].to) /\ controller = <<>>
          /\ \A j \in 1..Len(line) : line[j].type = "RESPONSE" => j = i + 1
      BY <2>6, <3>1 DEF OneAnswer
    <3>3. ASSUME NEW j \in 1..Len(line'), line'[j].type = "RESPONSE" PROVE j = i
      <4>1. j + 1 \in 1..Len(line) /\ line'[j] = line[j + 1] /\ j \in Nat
        BY <1>t, <2>2, <2>3
      <4>2. j + 1 = i + 1
        BY <3>2, <3>3, <4>1
      <4> QED BY <3>1, <4>1, <4>2
    <3> QED BY <2>1, <3>1, <3>2, <3>3 DEF Awaiting
  <2> QED BY <2>4, <2>5, <2>6 DEF OneAnswer
<1>8. CASE EndUpcall
  BY <1>0, <1>8 DEF EndUpcall, line
<1>9. CASE ReceiveGarbage
  <2>1. rxBuffer \in Seq(Message) /\ rx \in Seq(Message)
        /\ rxBuffer # <<>> /\ Head(rxBuffer).type = "CORRUPT"
    BY <1>9 DEF ReceiveGarbage, Take, TypeOK
  <2>2. 1 \in 1..Len(line) /\ line[1] = Head(rxBuffer)
    BY <2>1 DEF line
  <2> QED BY <2>1, <2>2 DEF OneAnswer
<1>10. CASE Respond
  <2>1. /\ controller # <<>> /\ controller' = Tail(controller)
        /\ rx' = Append(rx, Response(Head(controller)))
        /\ UNCHANGED <<requests, pc, rxBuffer>>
    BY <1>10 DEF Respond, Arrive
  <2>2. controller = <<Head(requests)>> /\ Awaiting(Head(requests))
    BY <2>1 DEF OneAnswer
  <2>3. Head(controller) = Head(requests) /\ controller' = <<>>
        /\ Head(requests) \in Requests
    BY <2>1, <2>2 DEF TypeOK
  <2> DEFINE m == Response(Head(requests))
  <2>4. m \in Message /\ m.type = "RESPONSE" /\ m.to = Head(requests)
    BY <2>3 DEF Response, Message
  <2>5. rx' = Append(rx, m)
    BY <2>1, <2>3
  <2> HIDE DEF m
  <2>6. line' = Append(line, m)
    BY <2>1, <2>4, <2>5, LineArrive
  <2>7. \A i \in 1..Len(line) : line[i].type \notin {"CORRUPT", "RESPONSE"}
    BY <2>1 DEF OneAnswer
  <2>8. /\ Len(line') = Len(line) + 1 /\ line'[Len(line) + 1] = m
        /\ \A i \in 1..Len(line) : line'[i] = line[i]
    BY <1>t, <2>4, <2>6
  <2>9. \A i \in 1..Len(line') : i \in 1..Len(line) \/ i = Len(line) + 1
    BY <1>t, <2>8
  <2>10. \A i \in 1..Len(line') : /\ line'[i].type # "CORRUPT"
                                  /\ line'[i].type = "RESPONSE" =>
                                       i = Len(line) + 1 /\ line'[i].to = Head(requests)
    BY <2>4, <2>7, <2>8, <2>9
  <2>11. Awaiting(Head(requests))'
    BY <2>1, <2>2 DEF Awaiting
  <2>12. Head(requests') = Head(requests)
    BY <2>1
  <2> QED BY <2>3, <2>10, <2>11, <2>12 DEF OneAnswer
<1>11. CASE Lose
  BY <1>11 DEF Lose
<1>12. ASSUME NEW m \in Message, Line(m) PROVE OneAnswer'
  <2>1. m.type = "RADIO" /\ rx' = Append(rx, m)
        /\ UNCHANGED <<requests, pc, rxBuffer, controller>>
    BY <1>12 DEF Line, Arrive, Radio
  <2>2. line' = Append(line, m)
    BY <2>1, LineArrive
  <2>3. /\ Len(line') = Len(line) + 1 /\ line'[Len(line) + 1] = m
        /\ \A i \in 1..Len(line) : line'[i] = line[i]
    BY <1>t, <2>2
  <2>4. \A i \in 1..Len(line') : i \in 1..Len(line) \/ i = Len(line) + 1
    BY <1>t, <2>3
  <2>5. \A i \in 1..Len(line') :
          /\ line'[i].type # "CORRUPT"
          /\ line'[i].type = "RESPONSE" => i \in 1..Len(line) /\ line'[i] = line[i]
    BY <2>1, <2>3, <2>4 DEF OneAnswer
  <2> QED BY <2>1, <2>3, <2>5 DEF OneAnswer, Awaiting
<1>13. CASE UNCHANGED vars
  BY <1>0, <1>13 DEF vars, line
<1> QED BY <1>1, <1>2, <1>3, <1>4, <1>5, <1>6, <1>7, <1>8, <1>9, <1>10, <1>11,
           <1>12, <1>13 DEF Next, Run

\* The response that is handed out is that of the front request.
LEMMA OwnAnswersStep ==
  TypeOK /\ Responding /\ NoTimeout /\ OneAnswer /\ OwnAnswers /\ [Next]_vars
    => OwnAnswers'
<1> SUFFICES ASSUME TypeOK, Responding, NoTimeout, OneAnswer, OwnAnswers, [Next]_vars,
                    link' = "prompt"
             PROVE  OwnAnswers'
  BY DEF OwnAnswers
<1> USE DEF queueVars, sendVars, receiveVars
<1>0. ASSUME link = "prompt", UNCHANGED <<answered, outcome, requests>>,
             pc' # "response" \/ pc' = pc
      PROVE  OwnAnswers'
  BY <1>0 DEF OwnAnswers
<1>1. ASSUME NEW r \in Requests, SendRequest(r) PROVE OwnAnswers'
  <2>1. /\ requests' = Append(requests, r) /\ pc' = pc /\ link = "prompt"
        /\ answered' = answered /\ outcome' = [outcome EXCEPT ![r] = "queued"]
    BY <1>1 DEF SendRequest
  <2>2. pc = "response" => Head(requests') = Head(requests)
    BY <2>1, AppendFacts DEF TypeOK, Responding
  <2>3. \A q \in Requests : outcome'[q] = "done" => outcome[q] = "done"
    BY <2>1 DEF TypeOK
  <2> QED BY <2>1, <2>2, <2>3 DEF OwnAnswers
<1>2. CASE TimerHandler
  <2>1. ready \in Seq(Handlers) /\ ready # <<>> /\ Head(ready) = "timer"
        /\ link = "prompt"
    BY <1>2 DEF TimerHandler, Dispatch, TypeOK, Queued
  <2>2. ready[1] = "timer" /\ 1 \in 1..Len(ready)
    BY <2>1
  <2> QED BY <2>1, <2>2 DEF NoTimeout, Queued
<1>3. CASE ReceiveResponse
  <2> DEFINE h == Head(requests)
             m == Head(rxBuffer)
  <2>1. /\ rxBuffer # <<>> /\ requests # <<>> /\ m.type = "RESPONSE"
        /\ rxBuffer' = Tail(rxBuffer) /\ rx' = rx
        /\ link = "prompt" /\ UNCHANGED <<requests, outcome>>
        /\ answered' = [answered EXCEPT ![h] = @ \cup {m.to}]
    BY <1>3 DEF ReceiveResponse, Take, StopTimer
  <2>2. m.to = h /\ h \in Requests
    <3>1. 1 \in 1..Len(line) /\ line[1] = m
      BY <2>1, LineTake
    <3>2. h \in Requests
      BY <2>1 DEF TypeOK
    <3> HIDE DEF m
    <3> QED BY <2>1, <3>1, <3>2 DEF OneAnswer, Awaiting
  <2> HIDE DEF m, h
  <2>3. answered[h] \subseteq {h}
    BY <2>1, <2>2 DEF OwnAnswers
  <2>4. answered' = [answered EXCEPT ![h] = {h}]
    BY <2>1, <2>2, <2>3
  <2>5. answered'[h] = {h} /\ \A r \in Requests : r # h => answered'[r] = answered[r]
    BY <2>2, <2>4 DEF TypeOK
  <2>6. Head(requests') = h
    BY <2>1 DEF h
  <2> QED BY <2>1, <2>5, <2>6 DEF OwnAnswers
<1>4. CASE EndResponse
  <2>1. /\ pc = "response" /\ pc' = "read" /\ link = "prompt" /\ answered' = answered
        /\ outcome' = [outcome EXCEPT ![Head(requests)] = "done"]
    BY <1>4 DEF EndResponse, PopRequest
  <2>2. \A r \in Requests : outcome'[r] = "done" => outcome[r] = "done" \/ r = Head(requests)
    BY <2>1 DEF TypeOK
  <2> QED BY <2>1, <2>2 DEF OwnAnswers
<1>5. CASE Poll \/ ReadError \/ Receive \/ ReadHandler \/ EndUpcall
  BY <1>0, <1>5 DEF Poll, PollWith, ReadError, Receive, ReadHandler, EndUpcall
<1>6. CASE ReceiveOther \/ ReceiveGarbage
  BY <1>0, <1>6 DEF ReceiveOther, ReceiveGarbage, Take, StopTimer
<1>7. CASE Respond \/ Lose \/ \E m \in Message : Line(m)
  BY <1>0, <1>7 DEF Respond, Lose, Line, Arrive
<1>8. CASE UNCHANGED vars
  BY <1>0, <1>8 DEF vars
<1> QED BY <1>1, <1>2, <1>3, <1>4, <1>5, <1>6, <1>7, <1>8 DEF Next, Run

\* While every answer comes before its timeout, each request is given its own
\* response and no other, whatever telegrams come in between.
THEOREM AnswersCorrect == Spec => []AnswersAreOwn
<1>1. Init => NoTimeout /\ OneAnswer /\ OwnAnswers
  <2> SUFFICES ASSUME Init PROVE NoTimeout /\ OneAnswer /\ OwnAnswers
    OBVIOUS
  <2>1. NoTimeout
    <3>1. \A i \in 1..Len(ready) : ready[i] = "task"
      BY DEF Init
    <3> QED BY <3>1 DEF NoTimeout, Queued
  <2>2. line = <<>> /\ Len(line) = 0
    BY DEF Init, line
  <2>3. OneAnswer
    BY <2>2 DEF Init, OneAnswer
  <2>4. OwnAnswers
    BY DEF Init, OwnAnswers
  <2> QED BY <2>1, <2>3, <2>4
<1>2. OwnAnswers => AnswersAreOwn
  BY DEF OwnAnswers, AnswersAreOwn
<1> QED BY <1>1, <1>2, NoTimeoutStep, OneAnswerStep, OwnAnswersStep, TypeCorrect,
           RespondingCorrect, PTL DEF Spec
=============================================================================
