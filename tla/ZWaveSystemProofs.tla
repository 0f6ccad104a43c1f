------------------------- MODULE ZWaveSystemProofs --------------------------
(***************************************************************************)
(* What holds of ZWaveProtocol for all requests, functions, payloads and   *)
(* bounds, and of ZWaveProtocol at the dongle of ZWaveSystem for all       *)
(* requests, reports and bounds, proved with TLAPS.                        *)
(***************************************************************************)
EXTENDS ZWaveSystem, SequenceTheorems, TLAPS

USE RequestsAssumption, BoundsAssumption

-----------------------------------------------------------------------------
(* Type correctness *)

\* What sendRequest() leaves in the variables it writes has their types.
LEMMA TransmitType ==
  ASSUME TypeOK, NEW q \in Seq(Requests), q # <<>>, NEW before \in Seq(Sent),
         Transmit(q, before)
  PROVE  /\ funcId' \in [SendRequests -> FuncIds \cup {Unset}]
         /\ nextFuncId' \in FuncIds
         /\ txTimer' \in {"idle", "armed"}
         /\ written' \in Seq(Sent)
         /\ txCount' \in [Requests -> 0..MaxTries]
         /\ acked' \in BOOLEAN
<1> DEFINE r  == Head(q)
           id == IF r \in SendRequests THEN nextFuncId ELSE NoFuncId
<1>1. r \in Requests
  OBVIOUS
<1>2. RequestFrame(r, id) \in Sent
  BY <1>1 DEF TypeOK, RequestFrame, Sent, FuncIds
<1>3. written' \in Seq(Sent)
  <2>1. written' = Append(before, RequestFrame(r, id))
    BY DEF Transmit
  <2> QED BY <1>2, <2>1
<1>4. nextFuncId' \in FuncIds
  <2>1. nextFuncId \in FuncIds
    BY DEF TypeOK
  <2>2. NextId(nextFuncId) \in FuncIds
    BY <2>1, BoundsAssumption DEF FuncIds, NextId
  <2> QED BY <2>1, <2>2 DEF Transmit
<1>5. funcId' \in [SendRequests -> FuncIds \cup {Unset}]
  <2>1. nextFuncId \in FuncIds /\ funcId \in [SendRequests -> FuncIds \cup {Unset}]
    BY DEF TypeOK
  <2>2. CASE r \in SendRequests
    <3>1. funcId' = [funcId EXCEPT ![r] = nextFuncId]
      BY <2>2 DEF Transmit
    <3> QED BY <2>1, <3>1
  <2>3. CASE r \notin SendRequests
    BY <2>1, <2>3 DEF Transmit
  <2> QED BY <2>2, <2>3
<1>6. txCount' \in [Requests -> 0..MaxTries]
  BY <1>1 DEF TypeOK, Transmit, MaxTries
<1>7. txTimer' \in {"idle", "armed"} /\ acked' \in BOOLEAN
  BY DEF Transmit
<1> QED BY <1>3, <1>4, <1>5, <1>6, <1>7

\* The same of resendRequest.
LEMMA ResendType ==
  ASSUME TypeOK, requests # <<>>, NEW timer \in {"idle", "armed"}, Resend(timer)
  PROVE  /\ requests' \in Seq(Requests)
         /\ outcome' \in [Requests -> Outcomes]
         /\ txRetryCount' \in 0..(MaxTries - 1)
         /\ funcId' \in [SendRequests -> FuncIds \cup {Unset}]
         /\ nextFuncId' \in FuncIds
         /\ txTimer' \in {"idle", "armed"}
         /\ written' \in Seq(Sent)
         /\ txCount' \in [Requests -> 0..MaxTries]
         /\ acked' \in BOOLEAN
<1>1. CASE txRetryCount + 1 < MaxTries
  <2>1. /\ txRetryCount' = txRetryCount + 1
        /\ requests' = requests /\ outcome' = outcome
        /\ Transmit(requests, <<>>)
    BY <1>1 DEF Resend, PopRequest, TriesLeft
  <2>2. requests \in Seq(Requests) /\ <<>> \in Seq(Sent)
    BY DEF TypeOK
  <2>3. txRetryCount' \in 0..(MaxTries - 1)
    BY <1>1, <2>1 DEF TypeOK, MaxTries
  <2> QED BY <2>1, <2>2, <2>3, TransmitType DEF TypeOK
<1>2. CASE ~(txRetryCount + 1 < MaxTries)
  <2>1. /\ txRetryCount' = 0
        /\ requests' = Tail(requests)
        /\ outcome' = [outcome EXCEPT ![Head(requests)] = "failed"]
        /\ txTimer' = timer
        /\ written' = <<>>
        /\ UNCHANGED <<nextFuncId, funcId, txCount, acked>>
    BY <1>2 DEF Resend, PopRequest, TriesLeft, sendVars
  <2>2. written' \in Seq(Sent) /\ txRetryCount' \in 0..(MaxTries - 1)
    BY <2>1 DEF MaxTries
  <2>3. requests' \in Seq(Requests) /\ outcome' \in [Requests -> Outcomes]
    BY <2>1 DEF TypeOK, Outcomes
  <2> QED BY <2>1, <2>2, <2>3 DEF TypeOK
<1> QED BY <1>1, <1>2

\* The same of the end of a request procedure.
LEMMA EndProcedureType ==
  ASSUME TypeOK, requests # <<>>, Head(rxBuffer).data \in Payloads, EndProcedure
  PROVE  /\ requests' \in Seq(Requests)
         /\ outcome' \in [Requests -> Outcomes]
         /\ txRetryCount' \in 0..(MaxTries - 1)
         /\ funcId' \in [SendRequests -> FuncIds \cup {Unset}]
         /\ nextFuncId' \in FuncIds
         /\ txTimer' \in {"idle", "armed"}
         /\ written' \in Seq(Sent)
         /\ txCount' \in [Requests -> 0..MaxTries]
         /\ acked' \in BOOLEAN
         /\ notified' \in [Requests -> SUBSET Payloads]
         /\ pc' = "upcall"
<1>1. requests \in Seq(Requests) /\ Head(requests) \in Requests
  BY DEF TypeOK
<1>2. requests' \in Seq(Requests) /\ outcome' \in [Requests -> Outcomes]
  BY <1>1 DEF EndProcedure, PopRequest, SendNext, TypeOK, Outcomes
<1>3. txRetryCount' \in 0..(MaxTries - 1)
  BY DEF EndProcedure, PopRequest, SendNext, MaxTries
<1>4. notified' \in [Requests -> SUBSET Payloads] /\ pc' = "upcall"
  BY <1>1 DEF EndProcedure, PopRequest, SendNext, Notify, TypeOK
<1>5. <<Ack>> \in Seq(Sent)
  BY DEF Sent
<1>6. CASE Tail(requests) # <<>>
  <2>1. Tail(requests) \in Seq(Requests) /\ Transmit(Tail(requests), <<Ack>>)
    BY <1>1, <1>6 DEF EndProcedure, PopRequest, SendNext
  <2> HIDE DEF Ack
  <2> QED BY <1>2, <1>3, <1>4, <1>5, <1>6, <2>1, TransmitType
<1>7. CASE Tail(requests) = <<>>
  <2>1. /\ txTimer' = "idle" /\ written' = <<Ack>>
        /\ UNCHANGED <<nextFuncId, funcId, txCount, acked>>
    BY <1>7 DEF EndProcedure, PopRequest, SendNext, sendVars
  <2> QED BY <1>2, <1>3, <1>4, <1>5, <2>1 DEF TypeOK
<1> QED BY <1>6, <1>7

\* A frame at the front of the buffer has data.
LEMMA FrameData ==
  ASSUME TypeOK, rxBuffer # <<>>, Head(rxBuffer).msg = "SOF"
  PROVE  Head(rxBuffer).data \in Payloads
<1>1. Head(rxBuffer) \in Message
  BY DEF TypeOK
<1> QED BY <1>1 DEF Message, Plain, Frame

\* What Take and TakeFrame leave in the variables of the receiving side.
LEMMA TakeType ==
  ASSUME TypeOK, NEW type, Take(type)
  PROVE  /\ rxBuffer' \in Seq(Message) /\ rx' \in Seq(Message)
         /\ receiving' \in BOOLEAN
         /\ ready' \in Seq(Handlers) /\ Queued("task")'
BY DEF Take, TypeOK, Queued

\* The loop keeps its task when it takes another handler.
LEMMA DispatchType ==
  ASSUME TypeOK, NEW handler, handler # "task", Dispatch(handler),
         ready' = Tail(ready)
  PROVE  ready' \in Seq(Handlers) /\ Queued("task")'
<1>1. PICK i \in 1..Len(ready) : ready[i] = "task"
  BY DEF TypeOK, Queued
<1>2. i - 1 \in 1..Len(Tail(ready)) /\ Tail(ready)[i - 1] = "task"
  BY <1>1 DEF TypeOK, Dispatch
<1>3. Tail(ready) \in Seq(Handlers)
  BY <1>1 DEF TypeOK
<1> QED BY <1>2, <1>3 DEF Queued

\* The reactor queues handlers and nothing else.
LEMMA CompletionsType ==
  ASSUME NEW line, NEW completion \in Completions(line)
  PROVE  completion \in Seq(Handlers)
<1>1. completion \in {<<>>, <<"error">>, <<"read">>}
  BY DEF Completions
<1>2. <<>> \in Seq(Handlers)
  OBVIOUS
<1>3. <<"error">> \in Seq(Handlers) /\ <<"read">> \in Seq(Handlers)
  BY DEF Handlers
<1> QED BY <1>1, <1>2, <1>3

\* Every step keeps the types.
LEMMA TypeStep == TypeOK /\ [Next]_vars => TypeOK'
<1> SUFFICES ASSUME TypeOK, [Next]_vars PROVE TypeOK'
  OBVIOUS
<1> USE DEF queueVars, sendVars, receiveVars
<1>0. <<>> \in Seq(Sent) /\ <<Ack>> \in Seq(Sent) /\ <<Nack>> \in Seq(Sent)
  BY DEF Sent
<1>1. ASSUME NEW r \in Requests, SendRequest(r) PROVE TypeOK'
  <2>1. requests' \in Seq(Requests) /\ outcome' \in [Requests -> Outcomes]
    BY <1>1 DEF SendRequest, TypeOK, Outcomes
  <2>2. CASE requests = <<>>
    <3>1. Transmit(<<r>>, <<>>) /\ <<r>> \in Seq(Requests) /\ <<r>> # <<>>
      BY <1>1, <2>2 DEF SendRequest
    <3>2. /\ funcId' \in [SendRequests -> FuncIds \cup {Unset}]
          /\ nextFuncId' \in FuncIds
          /\ txTimer' \in {"idle", "armed"}
          /\ written' \in Seq(Sent)
          /\ txCount' \in [Requests -> 0..MaxTries]
          /\ acked' \in BOOLEAN
      BY <1>0, <3>1, TransmitType
    <3> QED BY <1>1, <2>1, <3>2 DEF SendRequest, TypeOK, Queued
  <2>3. CASE requests # <<>>
    BY <1>0, <1>1, <2>1, <2>3 DEF SendRequest, TypeOK, Queued
  <2> QED BY <2>2, <2>3
<1>2. CASE Poll
  <2>1. PICK descriptor \in Completions(rx), expired \in BOOLEAN :
          PollWith(descriptor, expired)
    BY <1>2 DEF Poll
  <2>2. descriptor \in Seq(Handlers)
    BY CompletionsType
  <2>3. /\ ready' = Tail(ready) \o descriptor
                      \o (IF expired THEN <<"timer", "task">> ELSE <<"task">>)
        /\ txTimer' = IF expired THEN "idle" ELSE txTimer
        /\ written' = <<>>
        /\ UNCHANGED <<queueVars, sendVars, receiveVars, pc, notified, acked>>
    BY <2>1 DEF PollWith
  <2> DEFINE front == Tail(ready) \o descriptor
             back  == IF expired THEN <<"timer", "task">> ELSE <<"task">>
  <2>4. back \in Seq(Handlers) /\ Len(back) > 0 /\ back[Len(back)] = "task"
    <3>1. CASE expired
      BY <3>1 DEF Handlers
    <3>2. CASE ~expired
      BY <3>2 DEF Handlers
    <3> QED BY <3>1, <3>2
  <2>5. front \in Seq(Handlers)
    <3>1. ready # <<>> /\ ready \in Seq(Handlers)
      BY DEF TypeOK, Queued
    <3> QED BY <2>2, <3>1
  <2>6. ready' = front \o back
    BY <2>3
  <2>7. ready' \in Seq(Handlers) /\ Queued("task")'
    <3> HIDE DEF front, back
    <3>1. ready' \in Seq(Handlers)
      BY <2>4, <2>5, <2>6
    <3>2. /\ Len(ready') = Len(front) + Len(back)
          /\ ready'[Len(front) + Len(back)] = back[Len(back)]
      BY <2>4, <2>5, <2>6
    <3> QED BY <2>4, <2>5, <3>1, <3>2 DEF Queued
  <2> QED BY <1>0, <2>3, <2>7 DEF TypeOK
<1>3. CASE TimerHandler
  <2>1. ready' \in Seq(Handlers) /\ Queued("task")'
    BY <1>3, DispatchType DEF TimerHandler
  <2>2. UNCHANGED <<receiveVars, notified>>
    BY <1>3 DEF TimerHandler
  <2>3. CASE requests # <<>>
    <3>1. Resend(txTimer) /\ pc' = pc /\ txTimer \in {"idle", "armed"}
      BY <1>3, <2>3 DEF TimerHandler, TypeOK
    <3> QED BY <2>1, <2>2, <2>3, <3>1, ResendType DEF TypeOK
  <2>4. CASE requests = <<>>
    BY <1>0, <1>3, <2>1, <2>2, <2>4 DEF TimerHandler, TypeOK
  <2> QED BY <2>3, <2>4
<1>4. CASE ReadHandler
  <2>1. ready' \in Seq(Handlers) /\ Queued("task")'
    BY <1>4, DispatchType DEF ReadHandler
  <2>2. PICK n \in 1..Len(rx) :
          /\ rxBuffer' = rxBuffer \o SubSeq(rx, 1, n)
          /\ rx' = SubSeq(rx, n + 1, Len(rx))
    BY <1>4 DEF ReadHandler
  <2>3. rxBuffer' \in Seq(Message) /\ rx' \in Seq(Message)
    <3>1. rx \in Seq(Message) /\ rxBuffer \in Seq(Message)
      BY DEF TypeOK
    <3>2. SubSeq(rx, 1, n) \in Seq(Message) /\ SubSeq(rx, n + 1, Len(rx)) \in Seq(Message)
      BY <3>1
    <3> QED BY <2>2, <3>1, <3>2
  <2> QED BY <1>0, <1>4, <2>1, <2>3 DEF ReadHandler, TypeOK
<1>5. CASE ReadError
  <2>1. ready' \in Seq(Handlers) /\ Queued("task")'
    BY <1>5, DispatchType DEF ReadError
  <2> QED BY <1>0, <1>5, <2>1 DEF ReadError, TypeOK
<1>6. CASE ReceiveAck
  BY <1>0, <1>6, TakeType DEF ReceiveAck, TypeOK, MaxTries
<1>7. CASE ReceiveNack
  <2>1. Take("NACK") /\ UNCHANGED <<pc, frame, notified>>
    BY <1>7 DEF ReceiveNack
  <2>2. CASE requests # <<>>
    <3>1. Resend("idle")
      BY <1>7, <2>2 DEF ReceiveNack
    <3> QED BY <2>1, <2>2, <3>1, TakeType, ResendType DEF TypeOK
  <2>3. CASE requests = <<>>
    BY <1>0, <1>7, <2>1, <2>3, TakeType DEF ReceiveNack, TypeOK
  <2> QED BY <2>2, <2>3
<1>8. CASE ReceiveCan
  BY <1>0, <1>8, TakeType DEF ReceiveCan, TypeOK
<1>9. CASE ReceiveGarbage
  <2>1. written' \in Seq(Sent) /\ rxBuffer' \in Seq(Message)
    BY <1>0, <1>9 DEF ReceiveGarbage
  <2> QED BY <1>9, <2>1 DEF ReceiveGarbage, TypeOK, Queued
<1>10. CASE ReceiveSecondFrame
  BY <1>0, <1>10, TakeType DEF ReceiveSecondFrame, TypeOK
<1>11. CASE ReceiveResponse
  BY <1>11, EndProcedureType, FrameData, TakeType
     DEF ReceiveResponse, TakeFrame, Take, Pending, TypeOK
<1>12. CASE ReceiveSendResponse
  <2>1. Take("SOF") /\ frame' = TRUE /\ Notify(Head(requests), Head(rxBuffer))
        /\ Head(requests) \in Requests /\ Head(rxBuffer).data \in Payloads
    BY <1>12, FrameData
       DEF ReceiveSendResponse, TakeFrame, Take, Pending, TypeOK
  <2>2. notified' \in [Requests -> SUBSET Payloads] /\ pc' = "upcall"
    BY <2>1 DEF Notify, TypeOK
  <2> QED BY <1>0, <1>12, <2>1, <2>2, TakeType DEF ReceiveSendResponse, TypeOK
<1>13. CASE ReceiveStatus
  BY <1>13, EndProcedureType, FrameData, TakeType
     DEF ReceiveStatus, TakeFrame, Take, Pending, TypeOK
<1>14. CASE ReceiveRequest
  BY <1>0, <1>14, TakeType DEF ReceiveRequest, TakeFrame, TypeOK
<1>15. CASE ReceiveOther
  BY <1>0, <1>15, TakeType DEF ReceiveOther, TakeFrame, TypeOK
<1>16. CASE EndUpcall
  BY <1>0, <1>16 DEF EndUpcall, TypeOK, Queued
<1>17. CASE Receive
  <2>1. PICK completion \in Completions(rx) : ready' = ready \o completion
    BY <1>17 DEF Receive
  <2>2. completion \in Seq(Handlers)
    BY CompletionsType
  <2>3. ready' \in Seq(Handlers) /\ Queued("task")'
    BY <2>1, <2>2 DEF TypeOK, Queued
  <2> QED BY <1>0, <1>17, <2>3 DEF Receive, TypeOK
<1>18. ASSUME NEW m \in Message, Line(m) PROVE TypeOK'
  BY <1>0, <1>18 DEF Line, TypeOK, Queued
<1>19. CASE UNCHANGED vars
  BY <1>19 DEF vars, TypeOK, Queued
<1> QED
  BY <1>1, <1>2, <1>3, <1>4, <1>5, <1>6, <1>7, <1>8, <1>9, <1>10, <1>11, <1>12,
     <1>13, <1>14, <1>15, <1>16, <1>17, <1>18, <1>19
     DEF Next, Host, Run, ReadMessage

\* The types hold at the start.
LEMMA TypeInit == Init => TypeOK
<1> SUFFICES ASSUME Init PROVE TypeOK
  OBVIOUS
<1>1. ready \in Seq(Handlers) /\ Queued("task")
  BY DEF Init, Handlers, Queued
<1>2. <<>> \in Seq(Requests) /\ <<>> \in Seq(Message) /\ <<>> \in Seq(Sent)
  OBVIOUS
<1>3. /\ funcId \in [SendRequests -> FuncIds \cup {Unset}]
      /\ outcome \in [Requests -> Outcomes]
      /\ notified \in [Requests -> SUBSET Payloads]
  BY DEF Init, Outcomes
<1>4. nextFuncId \in FuncIds /\ txRetryCount \in 0..(MaxTries - 1)
  BY DEF Init, FuncIds, MaxTries
<1>5. txCount \in [Requests -> 0..MaxTries]
  BY DEF Init, MaxTries
<1> QED BY <1>1, <1>2, <1>3, <1>4, <1>5 DEF Init, TypeOK

\* Every variable keeps its type; above all the event loop never loses its
\* task and the retry count never passes the limit of resendRequest.
THEOREM TypeCorrect == Spec => []TypeOK
BY TypeInit, TypeStep, PTL DEF Spec

-----------------------------------------------------------------------------
(* The queue *)

\* What a step may do to the queue and to the callbacks.
Keeps ==
  /\ UNCHANGED <<requests, outcome, txCount>>
  /\ txRetryCount' \in {txRetryCount, 0}

Notifies ==
  \/ notified' = notified
  \/ /\ requests # <<>>
     /\ \E data \in Payloads :
          notified' = [notified EXCEPT ![Head(requests)] = @ \cup {data}]

Kinds ==
  \/ \E r \in Requests : SendRequest(r)
  \/ requests # <<>> /\ notified' = notified /\ \E timer : Resend(timer)
  \/ requests # <<>> /\ Notifies /\ EndProcedure
  \/ Keeps /\ Notifies

\* What each step does to the queue: it submits, resends, ends a procedure, or none of these.
LEMMA StepKinds ==
  ASSUME TypeOK, [Next]_vars
  PROVE  Kinds
<1> USE DEF queueVars, sendVars, receiveVars
<1>1. CASE \E r \in Requests : SendRequest(r)
  BY <1>1 DEF Kinds
<1>2. CASE TimerHandler
  BY <1>2 DEF TimerHandler, Kinds, Keeps, Notifies
<1>3. CASE ReceiveNack
  BY <1>3 DEF ReceiveNack, Kinds, Keeps, Notifies
<1>4. CASE ReceiveResponse \/ ReceiveStatus
  <2>1. requests # <<>> /\ EndProcedure /\ rxBuffer # <<>> /\ Head(rxBuffer).msg = "SOF"
    BY <1>4 DEF ReceiveResponse, ReceiveStatus, TakeFrame, Take, Pending
  <2>2. Notifies
    BY <2>1, FrameData DEF EndProcedure, PopRequest, SendNext, Notify, Notifies
  <2> QED BY <2>1, <2>2 DEF Kinds
<1>5. CASE ReceiveSendResponse
  <2>1. /\ requests # <<>> /\ rxBuffer # <<>> /\ Head(rxBuffer).msg = "SOF"
        /\ Notify(Head(requests), Head(rxBuffer)) /\ Keeps
    BY <1>5 DEF ReceiveSendResponse, TakeFrame, Take, Pending, Keeps
  <2>2. Notifies
    BY <2>1, FrameData DEF Notify, Notifies
  <2> QED BY <2>1, <2>2 DEF Kinds
<1>6. CASE Poll \/ ReadHandler \/ ReadError \/ EndUpcall \/ Receive
  BY <1>6 DEF Poll, PollWith, ReadHandler, ReadError, EndUpcall, Receive, Kinds, Keeps, Notifies
<1>7. CASE ReceiveAck \/ ReceiveCan \/ ReceiveGarbage \/ ReceiveSecondFrame
           \/ ReceiveRequest \/ ReceiveOther
  BY <1>7 DEF ReceiveAck, ReceiveCan, ReceiveGarbage, ReceiveSecondFrame,
              ReceiveRequest, ReceiveOther, Kinds, Keeps, Notifies
<1>8. CASE \E m \in Message : Line(m)
  BY <1>8 DEF Line, Kinds, Keeps, Notifies
<1>9. CASE UNCHANGED vars
  BY <1>9 DEF vars, Kinds, Keeps, Notifies
<1> QED
  BY <1>1, <1>2, <1>3, <1>4, <1>5, <1>6, <1>7, <1>8, <1>9
     DEF Next, Host, Run, ReadMessage

\* Every step of the protocol is a step of the abstract queue or none.
LEMMA QueueStep == TypeOK /\ [Next]_vars => [Queue!Next]_Queue!abstractVars
<1> SUFFICES ASSUME TypeOK, [Next]_vars PROVE [Queue!Next]_Queue!abstractVars
  OBVIOUS
<1>1. ASSUME NEW r \in Requests, SendRequest(r) PROVE Queue!Submit(r)
  BY <1>1 DEF SendRequest, Queue!Submit
<1>2. ASSUME requests # <<>>, NEW timer, Resend(timer)
      PROVE  Queue!GiveUp \/ UNCHANGED <<requests, outcome>>
  BY <1>2 DEF Resend, PopRequest, TriesLeft, Queue!GiveUp, Queue!Leave
<1>3. ASSUME requests # <<>>, EndProcedure PROVE Queue!Complete
  BY <1>3 DEF EndProcedure, PopRequest, SendNext, Queue!Complete, Queue!Leave
<1>4. ASSUME Keeps PROVE UNCHANGED <<requests, outcome>>
  BY <1>4 DEF Keeps
<1> QED BY <1>1, <1>2, <1>3, <1>4, StepKinds
        DEF Kinds, Queue!Next, Queue!abstractVars

\* ZWaveProtocol implements RequestQueue: whatever the dongle sends, a request
\* leaves the queue from the front, once, and ends done or failed.
THEOREM Implements == Spec => ImplementsQueue
<1>1. Init => Queue!Init
  BY DEF Init, Queue!Init
<1> QED BY <1>1, QueueStep, TypeCorrect, PTL DEF Spec, ImplementsQueue, Queue!Spec

\* Type correctness and the queue invariant together are inductive.
QueueInv == Queue!QueueTypeOK /\ Queue!QueueIsUnfinished

\* A request enters the queue behind the others, and only once.
LEMMA SubmitKeepsInv ==
  ASSUME QueueInv, NEW r \in Requests, Queue!Submit(r)
  PROVE  QueueInv'
<1> USE DEF QueueInv, Queue!QueueTypeOK
<1>1. Queue!QueueTypeOK'
  BY DEF Queue!Submit, Queue!Outcomes
<1>2. /\ Len(requests') = Len(requests) + 1
      /\ \A i \in 1..Len(requests) : requests'[i] = requests[i]
      /\ requests'[Len(requests) + 1] = r
  BY DEF Queue!Submit
<1>3. \A i \in 1..Len(requests) : requests[i] # r
  BY DEF Queue!Submit, Queue!QueueIsUnfinished
<1>4. \A i, j \in 1..Len(requests') : requests'[i] = requests'[j] => i = j
  BY <1>2, <1>3 DEF Queue!QueueIsUnfinished
<1>5. ASSUME NEW q \in Requests
      PROVE  outcome'[q] = "queued" <=> \E i \in 1..Len(requests') : requests'[i] = q
  <2>1. CASE q = r
    BY <1>2, <2>1 DEF Queue!Submit
  <2>2. CASE q # r
    <3>1. outcome'[q] = outcome[q]
      BY <2>2 DEF Queue!Submit
    <3>2. (\E i \in 1..Len(requests) : requests[i] = q)
            <=> (\E i \in 1..Len(requests') : requests'[i] = q)
      BY <1>2, <2>2
    <3> QED BY <3>1, <3>2 DEF Queue!QueueIsUnfinished
  <2> QED BY <2>1, <2>2
<1> QED BY <1>1, <1>4, <1>5 DEF Queue!QueueIsUnfinished

\* The front request leaves, and the others keep their places.
LEMMA LeaveKeepsInv ==
  ASSUME QueueInv, NEW how \in {"done", "failed"}, Queue!Leave(how)
  PROVE  QueueInv'
<1> USE DEF QueueInv, Queue!QueueTypeOK
<1>1. Queue!QueueTypeOK'
  BY DEF Queue!Leave, Queue!Outcomes
<1>2. /\ Len(requests') = Len(requests) - 1
      /\ \A i \in 1..Len(requests') : requests'[i] = requests[i + 1]
      /\ Len(requests) \in Nat \ {0}
      /\ Head(requests) = requests[1]
  BY DEF Queue!Leave
<1>3. ASSUME NEW i \in 1..Len(requests'), NEW j \in 1..Len(requests'),
             requests'[i] = requests'[j]
      PROVE  i = j
  <2>1. i + 1 \in 1..Len(requests) /\ j + 1 \in 1..Len(requests)
    BY <1>2
  <2>2. requests[i + 1] = requests[j + 1]
    BY <1>2, <1>3
  <2>3. i + 1 = j + 1
    BY <2>1, <2>2 DEF Queue!QueueIsUnfinished
  <2> QED BY <1>2, <2>3
<1>4. ASSUME NEW q \in Requests
      PROVE  outcome'[q] = "queued" <=> \E i \in 1..Len(requests') : requests'[i] = q
  <2>1. CASE q = Head(requests)
    <3>1. outcome'[q] # "queued"
      BY <2>1 DEF Queue!Leave
    <3>2. ASSUME NEW i \in 1..Len(requests'), requests'[i] = q
          PROVE  FALSE
      <4>1. i + 1 \in 1..Len(requests) /\ 1 \in 1..Len(requests) /\ i + 1 # 1
        BY <1>2
      <4>2. requests[i + 1] = requests[1]
        BY <1>2, <2>1, <3>2
      <4> QED BY <4>1, <4>2 DEF Queue!QueueIsUnfinished
    <3> QED BY <3>1, <3>2
  <2>2. CASE q # Head(requests)
    <3>1. outcome'[q] = outcome[q]
      BY <2>2 DEF Queue!Leave
    <3>2. ASSUME NEW i \in 1..Len(requests), requests[i] = q
          PROVE  \E k \in 1..Len(requests') : requests'[k] = q
      <4>1. i - 1 \in 1..Len(requests') /\ requests'[i - 1] = q
        BY <1>2, <2>2, <3>2
      <4> QED BY <4>1
    <3>3. (\E i \in 1..Len(requests') : requests'[i] = q)
            => \E i \in 1..Len(requests) : requests[i] = q
      BY <1>2
    <3> QED BY <3>1, <3>2, <3>3 DEF Queue!QueueIsUnfinished
  <2> QED BY <2>1, <2>2
<1> QED BY <1>1, <1>3, <1>4 DEF Queue!QueueIsUnfinished

\* Every step of the abstract queue keeps the queue and the outcomes in agreement.
LEMMA QueueInvStep == QueueInv /\ [Queue!Next]_Queue!abstractVars => QueueInv'
<1> SUFFICES ASSUME QueueInv, [Queue!Next]_Queue!abstractVars PROVE QueueInv'
  OBVIOUS
<1>1. CASE \E r \in Requests : Queue!Submit(r)
  BY <1>1, SubmitKeepsInv
<1>2. CASE Queue!Complete
  BY <1>2, LeaveKeepsInv DEF Queue!Complete
<1>3. CASE Queue!GiveUp
  BY <1>3, LeaveKeepsInv DEF Queue!GiveUp
<1>4. CASE UNCHANGED Queue!abstractVars
  BY <1>4 DEF Queue!abstractVars, QueueInv, Queue!QueueTypeOK, Queue!QueueIsUnfinished
<1> QED BY <1>1, <1>2, <1>3, <1>4 DEF Queue!Next

\* The deque holds exactly the requests whose procedure has not ended, each
\* once.  It holds of RequestQueue, which the protocol implements.
THEOREM QueueCorrect == Spec => []QueueIsUnfinished
<1>1. Queue!Init => QueueInv
  BY DEF Queue!Init, QueueInv, Queue!QueueTypeOK, Queue!QueueIsUnfinished, Queue!Outcomes
<1>2. QueueInv => QueueIsUnfinished
  BY DEF QueueInv, QueueIsUnfinished
<1> QED BY <1>1, <1>2, QueueInvStep, Implements, PTL DEF ImplementsQueue, Queue!Spec

\* A finished request is neither sent nor notified again: both happen only to
\* the front of the queue, and a finished request is not in it.
THEOREM FinishedFinal == Spec => FinishedIsFinal
<1>1. ASSUME TypeOK, QueueIsUnfinished, [Next]_vars
      PROVE  [\A r \in Requests : outcome[r] \in {"done", "failed"} =>
                /\ outcome'[r] = outcome[r]
                /\ txCount'[r] = txCount[r]
                /\ notified'[r] = notified[r]]_vars
  <2> SUFFICES ASSUME NEW r \in Requests, outcome[r] \in {"done", "failed"}
               PROVE  /\ outcome'[r] = outcome[r]
                      /\ txCount'[r] = txCount[r]
                      /\ notified'[r] = notified[r]
    OBVIOUS
  <2>1. \A i \in 1..Len(requests) : requests[i] # r
    BY <1>1 DEF QueueIsUnfinished, Queue!QueueIsUnfinished
  <2>2. requests # <<>> => Head(requests) # r
    BY <1>1, <2>1 DEF TypeOK
  <2>3. Tail(requests) # <<>> /\ requests # <<>> => Head(Tail(requests)) # r
    <3> SUFFICES ASSUME Tail(requests) # <<>>, requests # <<>>
                 PROVE  Head(Tail(requests)) # r
      OBVIOUS
    <3>1. Len(requests) >= 2 /\ Head(Tail(requests)) = requests[2]
      BY <1>1 DEF TypeOK
    <3> QED BY <1>1, <2>1, <3>1 DEF TypeOK
  <2>4. ASSUME NEW q \in Requests, SendRequest(q)
        PROVE  /\ outcome'[r] = outcome[r]
               /\ txCount'[r] = txCount[r]
               /\ notified'[r] = notified[r]
    <3>1. q # r
      BY <2>4 DEF SendRequest
    <3>2. outcome'[r] = outcome[r] /\ notified' = notified
      BY <1>1, <2>4, <3>1 DEF SendRequest, TypeOK
    <3>3. txCount'[r] = txCount[r]
      BY <1>1, <2>4, <3>1 DEF SendRequest, Transmit, TypeOK, sendVars
    <3> QED BY <3>2, <3>3
  <2>5. ASSUME requests # <<>>, notified' = notified, NEW timer, Resend(timer)
        PROVE  /\ outcome'[r] = outcome[r]
               /\ txCount'[r] = txCount[r]
               /\ notified'[r] = notified[r]
    BY <1>1, <2>2, <2>5 DEF Resend, PopRequest, TriesLeft, Transmit, TypeOK, sendVars
  <2>6. ASSUME requests # <<>>, Notifies, EndProcedure
        PROVE  /\ outcome'[r] = outcome[r]
               /\ txCount'[r] = txCount[r]
               /\ notified'[r] = notified[r]
    <3>1. outcome'[r] = outcome[r] /\ txCount'[r] = txCount[r]
      BY <1>1, <2>2, <2>3, <2>6 DEF EndProcedure, PopRequest, SendNext, Transmit, TypeOK, sendVars
    <3>2. notified'[r] = notified[r]
      BY <1>1, <2>2, <2>6 DEF Notifies, TypeOK
    <3> QED BY <3>1, <3>2
  <2>7. ASSUME Keeps, Notifies
        PROVE  /\ outcome'[r] = outcome[r]
               /\ txCount'[r] = txCount[r]
               /\ notified'[r] = notified[r]
    BY <1>1, <2>2, <2>7 DEF Keeps, Notifies, TypeOK
  <2> QED BY <1>1, <2>4, <2>5, <2>6, <2>7, StepKinds DEF Kinds
<1> QED BY <1>1, TypeCorrect, QueueCorrect, PTL DEF Spec, FinishedIsFinal

-----------------------------------------------------------------------------
(* Sending and giving up *)

\* The two invariants need more to be inductive: the retries counted are of
\* the front request, a request that is not yet accepted was never sent, and
\* an empty queue leaves no count behind.
SendInv ==
  /\ HeadOnTheWire
  /\ GiveUpAfterTries
  /\ requests = <<>> => txRetryCount = 0
  /\ requests # <<>> => txCount[Head(requests)] >= txRetryCount
  /\ \A r \in Requests : outcome[r] = "new" => txCount[r] = 0

\* The request behind the front one is the second element of the deque.
LEMMA SecondRequest ==
  ASSUME NEW q \in Seq(Requests), q # <<>>
  PROVE  /\ Tail(q) \in Seq(Requests)
         /\ Len(Tail(q)) = Len(q) - 1
         /\ Len(q) \in Nat \ {0}
         /\ Head(q) = q[1] /\ q[1] \in Requests
         /\ \A i \in 1..Len(Tail(q)) : Tail(q)[i] = q[i + 1]
         /\ Tail(q) # <<>> => Head(Tail(q)) = q[2] /\ Len(q) >= 2
OBVIOUS

\* A request appended to the deque goes behind all others.
LEMMA LastRequest ==
  ASSUME NEW q \in Seq(Requests), q # <<>>, NEW r \in Requests
  PROVE  /\ Len(Append(q, r)) = Len(q) + 1
         /\ Len(q) \in Nat \ {0}
         /\ \A i \in 1..Len(q) : Append(q, r)[i] = q[i]
         /\ Append(q, r)[Len(q) + 1] = r
         /\ Append(q, r) # <<>>
         /\ Head(Append(q, r)) = Head(q)
<1>1. /\ Len(Append(q, r)) = Len(q) + 1
      /\ Len(q) \in Nat \ {0}
      /\ \A i \in 1..Len(q) : Append(q, r)[i] = q[i]
      /\ Append(q, r)[Len(q) + 1] = r
      /\ Append(q, r) \in Seq(Requests)
  OBVIOUS
<1>2. Append(q, r) # <<>>
  BY <1>1
<1>3. Head(Append(q, r)) = Append(q, r)[1] /\ Head(q) = q[1]
  BY <1>1, <1>2
<1> QED BY <1>1, <1>2, <1>3

\* sendRequest() appends a request that was not sent, or sends the only one.
LEMMA SendRequestKeeps ==
  ASSUME TypeOK, QueueIsUnfinished, SendInv, NEW r \in Requests, SendRequest(r)
  PROVE  SendInv'
<1>1. /\ outcome[r] = "new" /\ txCount[r] = 0
      /\ outcome' = [outcome EXCEPT ![r] = "queued"]
      /\ requests' = Append(requests, r)
      /\ txRetryCount' = txRetryCount
  BY DEF SendRequest, SendInv
<1>2. \A i \in 1..Len(requests) : requests[i] # r
  BY <1>1 DEF QueueIsUnfinished, Queue!QueueIsUnfinished
<1>3. /\ \A q \in Requests \ {r} : txCount'[q] = txCount[q] /\ outcome'[q] = outcome[q]
      /\ outcome'[r] = "queued"
  BY <1>1 DEF SendRequest, Transmit, TypeOK, sendVars
<1>4. GiveUpAfterTries' /\ \A q \in Requests : outcome'[q] = "new" => txCount'[q] = 0
  BY <1>3 DEF SendInv, GiveUpAfterTries
<1>5. CASE requests = <<>>
  <2>1. requests' = <<r>> /\ Head(requests') = r /\ Len(requests') = 1
    BY <1>1, <1>5
  <2>2. txCount'[r] = 1 /\ txRetryCount' = 0
    BY <1>1, <1>5 DEF SendRequest, Transmit, TypeOK, SendInv, MaxTries
  <2> QED BY <1>4, <2>1, <2>2 DEF SendInv, HeadOnTheWire
<1>6. CASE requests # <<>>
  <2>1. /\ Len(requests') = Len(requests) + 1 /\ Len(requests) \in Nat \ {0}
        /\ \A i \in 1..Len(requests) : requests'[i] = requests[i]
        /\ requests'[Len(requests) + 1] = r
        /\ requests' # <<>> /\ Head(requests') = Head(requests)
    BY <1>1, <1>6, LastRequest DEF TypeOK
  <2>2. txCount' = txCount
    BY <1>6 DEF SendRequest, sendVars
  <2>3. \A i \in 2..Len(requests') : txCount'[requests'[i]] = 0
    <3> SUFFICES ASSUME NEW i \in 2..Len(requests')
                 PROVE  txCount[requests'[i]] = 0
      BY <2>2
    <3>1. CASE i = Len(requests) + 1
      BY <1>1, <2>1, <3>1
    <3>2. CASE i # Len(requests) + 1
      <4>1. i \in 2..Len(requests)
        BY <2>1, <3>2
      <4>2. txCount[requests[i]] = 0
        BY <4>1 DEF SendInv, HeadOnTheWire
      <4> QED BY <2>1, <4>1, <4>2
    <3> QED BY <3>1, <3>2
  <2>4. requests' # <<>> /\ txCount'[Head(requests')] = 0 =>
          \E q \in Requests : outcome'[q] = "failed"
    BY <1>1, <1>3, <1>6, <2>1, <2>2 DEF SendInv, HeadOnTheWire
  <2>5. txCount'[Head(requests')] >= txRetryCount'
    BY <1>1, <1>6, <2>1, <2>2 DEF SendInv
  <2> QED BY <1>4, <2>1, <2>3, <2>4, <2>5 DEF SendInv, HeadOnTheWire
<1> QED BY <1>5, <1>6

\* resendRequest() gives up only a request that was sent often enough.
LEMMA ResendKeeps ==
  ASSUME TypeOK, QueueIsUnfinished, SendInv, requests # <<>>, NEW timer, Resend(timer)
  PROVE  SendInv'
<1> DEFINE front == Head(requests)
<1>1. /\ front = requests[1] /\ front \in Requests /\ requests \in Seq(Requests)
      /\ Len(requests) \in Nat \ {0}
  BY SecondRequest DEF TypeOK
<1>2. outcome[front] = "queued" /\ \A i \in 2..Len(requests) : requests[i] # front
  BY <1>1 DEF QueueIsUnfinished, Queue!QueueIsUnfinished
<1>3. CASE txRetryCount + 1 < MaxTries
  <2>1. /\ txRetryCount' = txRetryCount + 1 /\ UNCHANGED <<requests, outcome>>
        /\ txCount' = [txCount EXCEPT ![front] = IF @ < MaxTries THEN @ + 1 ELSE @]
    BY <1>3 DEF Resend, PopRequest, TriesLeft, Transmit
  <2>2. \A q \in Requests \ {front} : txCount'[q] = txCount[q]
    BY <2>1 DEF TypeOK
  <2>3. txCount'[front] >= txRetryCount' /\ txCount'[front] > 0
    BY <1>1, <1>3, <2>1 DEF TypeOK, SendInv, MaxTries
  <2>4. \A i \in 2..Len(requests') : txCount'[requests'[i]] = 0
    <3> SUFFICES ASSUME NEW i \in 2..Len(requests)
                 PROVE  txCount'[requests[i]] = 0
      BY <2>1
    <3>1. txCount[requests[i]] = 0 /\ requests[i] # front /\ requests[i] \in Requests
      BY <1>1, <1>2 DEF SendInv, HeadOnTheWire
    <3> QED BY <2>2, <3>1
  <2>5. GiveUpAfterTries' /\ \A q \in Requests : outcome'[q] = "new" => txCount'[q] = 0
    BY <1>2, <2>1, <2>2 DEF SendInv, GiveUpAfterTries
  <2> HIDE DEF front
  <2> QED BY <2>1, <2>3, <2>4, <2>5 DEF SendInv, HeadOnTheWire, front
<1>4. CASE ~(txRetryCount + 1 < MaxTries)
  <2>1. /\ txRetryCount' = 0 /\ requests' = Tail(requests) /\ txCount' = txCount
        /\ outcome' = [outcome EXCEPT ![front] = "failed"]
    BY <1>4 DEF Resend, PopRequest, TriesLeft, sendVars
  <2>2. /\ \A q \in Requests \ {front} : outcome'[q] = outcome[q]
        /\ outcome'[front] = "failed"
    BY <1>1, <2>1 DEF TypeOK
  <2>3. txCount[front] >= MaxTries - 1
    BY <1>1, <1>4 DEF SendInv, TypeOK, MaxTries
  <2>4. GiveUpAfterTries' /\ \A q \in Requests : outcome'[q] = "new" => txCount'[q] = 0
    BY <2>1, <2>2, <2>3 DEF SendInv, GiveUpAfterTries
  <2>5. \A i \in 1..Len(requests') : txCount'[requests'[i]] = 0
    <3> SUFFICES ASSUME NEW i \in 1..Len(requests')
                 PROVE  txCount[requests'[i]] = 0
      BY <2>1
    <3>1. i + 1 \in 2..Len(requests) /\ requests'[i] = requests[i + 1]
      BY <1>1, <2>1, SecondRequest
    <3> QED BY <3>1 DEF SendInv, HeadOnTheWire
  <2>6. requests' # <<>> => txCount'[Head(requests')] >= txRetryCount'
    <3> SUFFICES ASSUME requests' # <<>>
                 PROVE  txCount'[Head(requests')] >= txRetryCount'
      OBVIOUS
    <3>1. requests' \in Seq(Requests)
      BY <1>1, <2>1, SecondRequest
    <3>2. Head(requests') = requests'[1] /\ 1 \in 1..Len(requests')
      BY <3>1
    <3>3. txCount'[Head(requests')] = 0
      BY <2>5, <3>2
    <3>4. txRetryCount' = 0
      BY <2>1
    <3> QED BY <3>3, <3>4
  <2>7. HeadOnTheWire'
    <3>1. \A i \in 2..Len(requests') : txCount'[requests'[i]] = 0
      <4>1. requests' \in Seq(Requests)
        BY <1>1, <2>1, SecondRequest
      <4>2. \A i \in 2..Len(requests') : i \in 1..Len(requests')
        BY <4>1
      <4> QED BY <2>5, <4>2
    <3>2. \E r \in Requests : outcome'[r] = "failed"
      BY <1>1, <2>2
    <3> QED BY <3>1, <3>2 DEF HeadOnTheWire
  <2> QED BY <2>1, <2>4, <2>6, <2>7 DEF SendInv
<1> QED BY <1>3, <1>4

\* The end of a procedure sends the request that becomes the front one.
LEMMA EndKeeps ==
  ASSUME TypeOK, QueueIsUnfinished, SendInv, requests # <<>>, EndProcedure
  PROVE  SendInv'
<1> DEFINE front == Head(requests)
           next  == Head(Tail(requests))
<1>1. /\ front \in Requests /\ requests \in Seq(Requests)
      /\ Len(requests) \in Nat \ {0}
      /\ txRetryCount' = 0 /\ requests' = Tail(requests)
      /\ outcome' = [outcome EXCEPT ![front] = "done"]
  BY SecondRequest DEF TypeOK, EndProcedure, PopRequest, SendNext
<1>2. /\ \A q \in Requests \ {front} : outcome'[q] = outcome[q]
      /\ outcome'[front] = "done"
      /\ outcome[front] = "queued"
  BY <1>1, SecondRequest DEF TypeOK, QueueIsUnfinished, Queue!QueueIsUnfinished
<1>3. CASE requests' = <<>>
  <2>1. txCount' = txCount
    BY <1>1, <1>3 DEF EndProcedure, PopRequest, SendNext, sendVars
  <2> QED BY <1>1, <1>2, <1>3, <2>1 DEF SendInv, HeadOnTheWire, GiveUpAfterTries
<1>4. CASE requests' # <<>>
  <2>1. next = requests[2] /\ next \in Requests /\ Len(requests) >= 2
    BY <1>1, <1>4, SecondRequest
  <2>2. txCount' = [txCount EXCEPT ![next] = IF @ < MaxTries THEN @ + 1 ELSE @]
    BY <1>1, <1>4 DEF EndProcedure, PopRequest, SendNext, Transmit
  <2>3. outcome[next] = "queued" /\ \A i \in 3..Len(requests) : requests[i] # next
    <3>1. 2 \in 1..Len(requests) /\ next = requests[2]
      BY <1>1, <2>1
    <3>2. outcome[next] = "queued"
      BY <2>1, <3>1 DEF QueueIsUnfinished, Queue!QueueIsUnfinished
    <3>3. ASSUME NEW i \in 3..Len(requests) PROVE requests[i] # requests[2]
      BY <3>1, <3>3 DEF QueueIsUnfinished, Queue!QueueIsUnfinished
    <3> QED BY <3>1, <3>2, <3>3
  <2>4. txCount'[next] \in Nat \ {0} /\ \A q \in Requests \ {next} : txCount'[q] = txCount[q]
    <3> HIDE DEF next
    <3>1. txCount \in [Requests -> 0..3]
      BY DEF TypeOK, MaxTries
    <3>2. txCount'[next] = IF txCount[next] < 3 THEN txCount[next] + 1 ELSE txCount[next]
      BY <2>1, <2>2, <3>1 DEF MaxTries
    <3>3. txCount'[next] \in Nat \ {0}
      BY <2>1, <3>1, <3>2
    <3>4. \A q \in Requests \ {next} : txCount'[q] = txCount[q]
      BY <2>2, <3>1
    <3> QED BY <3>3, <3>4
  <2>5. Head(requests') = next
    BY <1>1
  <2>6. \A i \in 2..Len(requests') : txCount'[requests'[i]] = 0
    <3> SUFFICES ASSUME NEW i \in 2..Len(requests')
                 PROVE  txCount'[requests'[i]] = 0
      OBVIOUS
    <3>1. i + 1 \in 3..Len(requests) /\ requests'[i] = requests[i + 1]
      BY <1>1, SecondRequest
    <3>2. txCount[requests[i + 1]] = 0 /\ requests[i + 1] \in Requests
      BY <1>1, <3>1 DEF SendInv, HeadOnTheWire
    <3> QED BY <2>3, <2>4, <3>1, <3>2
  <2>7. GiveUpAfterTries' /\ \A q \in Requests : outcome'[q] = "new" => txCount'[q] = 0
    BY <1>2, <2>3, <2>4 DEF SendInv, GiveUpAfterTries
  <2> HIDE DEF next
  <2>8. txCount'[next] >= txRetryCount'
    BY <1>1, <2>4
  <2> QED BY <1>4, <2>4, <2>5, <2>6, <2>7, <2>8 DEF SendInv, HeadOnTheWire
<1> QED BY <1>3, <1>4

\* Every step keeps SendInv.
LEMMA SendInvStep == TypeOK /\ QueueIsUnfinished /\ SendInv /\ [Next]_vars => SendInv'
<1> SUFFICES ASSUME TypeOK, QueueIsUnfinished, SendInv, [Next]_vars PROVE SendInv'
  OBVIOUS
<1>1. ASSUME Keeps PROVE SendInv'
  BY <1>1 DEF Keeps, SendInv, HeadOnTheWire, GiveUpAfterTries, TypeOK
<1> QED BY <1>1, StepKinds, SendRequestKeeps, ResendKeeps, EndKeeps DEF Kinds

\* SendInv holds at the start.
LEMMA SendInvInit == Init => SendInv
BY DEF Init, SendInv, HeadOnTheWire, GiveUpAfterTries

\* SendInv, from which the next two theorems follow, is an invariant.
THEOREM SendCorrect == Spec => []SendInv
BY SendInvInit, SendInvStep, TypeCorrect, QueueCorrect, PTL DEF Spec

\* A request is given up only after it was sent at least twice.
THEOREM GiveUpCorrect == Spec => []GiveUpAfterTries
<1>1. SendInv => GiveUpAfterTries
  BY DEF SendInv
<1> QED BY <1>1, SendCorrect, PTL

\* Only the front request has been sent, and it has been unless some request
\* before it was given up.
THEOREM WireCorrect == Spec => []HeadOnTheWire
<1>1. SendInv => HeadOnTheWire
  BY DEF SendInv
<1> QED BY <1>1, SendCorrect, PTL

-----------------------------------------------------------------------------
(* The timer *)

\* After resendRequest the timer runs, or nothing is on the line.
LEMMA ResendGuards ==
  ASSUME TypeOK, QueueIsUnfinished, SendInv, requests # <<>>, NEW timer, Resend(timer)
  PROVE  HeadIsGuarded'
<1>1. CASE txRetryCount + 1 < MaxTries
  BY <1>1 DEF Resend, PopRequest, TriesLeft, Transmit, HeadIsGuarded
<1>2. CASE ~(txRetryCount + 1 < MaxTries)
  <2>1. requests' = Tail(requests) /\ txCount' = txCount /\ requests \in Seq(Requests)
    BY <1>2 DEF Resend, PopRequest, TriesLeft, sendVars, TypeOK
  <2>2. requests' # <<>> => Head(requests') = requests[2] /\ 2 \in 2..Len(requests)
    BY <2>1, SecondRequest
  <2>3. requests' # <<>> => txCount'[Head(requests')] = 0
    BY <2>1, <2>2 DEF SendInv, HeadOnTheWire
  <2> QED BY <2>3 DEF HeadIsGuarded
<1> QED BY <1>1, <1>2

\* A queued expiry stays queued until the timer's own handler runs.
LEMMA ExpiryStays ==
  ASSUME TypeOK, Queued("timer"), NEW handler, handler # "timer",
         Dispatch(handler), NEW back \in Seq(Handlers),
         ready' = Tail(ready) \o back
  PROVE  Queued("timer")'
<1>1. PICK i \in 1..Len(ready) : ready[i] = "timer"
  BY DEF Queued
<1>2. i - 1 \in 1..Len(Tail(ready)) /\ Tail(ready)[i - 1] = "timer"
  BY <1>1 DEF TypeOK, Dispatch
<1>3. Tail(ready) \in Seq(Handlers)
  BY <1>1 DEF TypeOK
<1>4. i - 1 \in 1..Len(ready') /\ ready'[i - 1] = "timer"
  BY <1>2, <1>3
<1> QED BY <1>4 DEF Queued

\* Every step keeps the front request guarded.
LEMMA GuardStep ==
  TypeOK /\ QueueIsUnfinished /\ SendInv /\ HeadIsGuarded /\ [Next]_vars => HeadIsGuarded'
<1> SUFFICES ASSUME TypeOK, QueueIsUnfinished, SendInv, HeadIsGuarded, [Next]_vars
             PROVE  HeadIsGuarded'
  OBVIOUS
<1> USE DEF queueVars, sendVars, receiveVars
<1>1. ASSUME NEW r \in Requests, SendRequest(r) PROVE HeadIsGuarded'
  <2>1. CASE requests = <<>>
    BY <1>1, <2>1 DEF SendRequest, Transmit, HeadIsGuarded
  <2>2. CASE requests # <<>>
    <3>1. Head(requests') = Head(requests)
      BY <1>1, <2>2, LastRequest DEF SendRequest, TypeOK
    <3> QED BY <1>1, <2>2, <3>1 DEF SendRequest, HeadIsGuarded, Queued
  <2> QED BY <2>1, <2>2
<1>2. CASE Poll
  <2>1. PICK descriptor \in Completions(rx), expired \in BOOLEAN :
          PollWith(descriptor, expired)
    BY <1>2 DEF Poll
  <2> DEFINE last == IF expired THEN <<"timer", "task">> ELSE <<"task">>
             back == descriptor \o last
  <2>2. /\ Dispatch("task")
        /\ txTimer' = IF expired THEN "idle" ELSE txTimer
        /\ ready' = Tail(ready) \o descriptor \o last
        /\ UNCHANGED <<requests, txCount, acked>>
    BY <2>1 DEF PollWith
  <2>3. /\ Tail(ready) \in Seq(Handlers) /\ descriptor \in Seq(Handlers)
        /\ last \in Seq(Handlers) /\ (expired => Len(last) = 2 /\ last[1] = "timer")
    <3>1. ready # <<>> /\ ready \in Seq(Handlers)
      BY DEF TypeOK, Queued
    <3>2. last \in Seq(Handlers) /\ (expired => Len(last) = 2 /\ last[1] = "timer")
      <4>1. CASE expired
        BY <4>1 DEF Handlers
      <4>2. CASE ~expired
        BY <4>2 DEF Handlers
      <4> QED BY <4>1, <4>2
    <3> QED BY <3>1, <3>2, CompletionsType
  <2> HIDE DEF last
  <2>4. back \in Seq(Handlers) /\ ready' = Tail(ready) \o back
    BY <2>2, <2>3
  <2>5. CASE expired
    <3> DEFINE front == Tail(ready) \o descriptor
    <3>1. front \in Seq(Handlers) /\ ready' = front \o last
      BY <2>2, <2>3
    <3> HIDE DEF front
    <3>2. /\ Len(last) = 2 /\ last[1] = "timer" /\ Len(front) \in Nat
          /\ last \in Seq(Handlers) /\ Len(ready') = Len(front) + 2
      <4>1. Len(last) = 2 /\ last[1] = "timer"
        BY <2>3, <2>5, Zenon
      <4>2. last \in Seq(Handlers) /\ Len(front) \in Nat
        BY <2>3, <3>1
      <4>3. Len(front \o last) = Len(front) + Len(last)
        BY <3>1, <4>2, ConcatProperties
      <4> QED BY <3>1, <4>1, <4>2, <4>3
    <3>3. ready'[Len(front) + 1] = last[1]
      BY <3>1, <3>2, ConcatProperties
    <3>4. /\ Len(front) + 1 \in 1..Len(ready')
          /\ ready'[Len(front) + 1] = "timer"
      BY <3>2, <3>3
    <3> QED BY <3>4 DEF HeadIsGuarded, Queued
  <2>6. CASE ~expired /\ Queued("timer")
    <3>1. Queued("timer")'
      BY <2>2, <2>4, <2>6, ExpiryStays
    <3> QED BY <3>1 DEF HeadIsGuarded
  <2>7. CASE ~expired /\ ~Queued("timer")
    BY <2>2, <2>7 DEF HeadIsGuarded
  <2> QED BY <2>5, <2>6, <2>7
<1>3. CASE TimerHandler
  <2>1. CASE requests # <<>>
    BY <1>3, <2>1, ResendGuards DEF TimerHandler
  <2>2. CASE requests = <<>>
    BY <1>3, <2>2 DEF TimerHandler, HeadIsGuarded
  <2> QED BY <2>1, <2>2
<1>4. CASE ReadHandler \/ ReadError
  <2>1. /\ \E handler : handler # "timer" /\ Dispatch(handler)
        /\ ready' = Tail(ready)
        /\ UNCHANGED <<requests, txCount, acked, txTimer>>
    BY <1>4 DEF ReadHandler, ReadError
  <2>2. <<>> \in Seq(Handlers) /\ Tail(ready) = Tail(ready) \o <<>>
    <3>1. Tail(ready) \in Seq(Handlers)
      BY DEF TypeOK, Queued
    <3> QED BY <3>1, ConcatEmptySeq
  <2>3. Queued("timer") => Queued("timer")'
    BY <2>1, <2>2, ExpiryStays
  <2> QED BY <2>1, <2>3 DEF HeadIsGuarded
<1>5. CASE ReceiveAck
  BY <1>5 DEF ReceiveAck, HeadIsGuarded
<1>6. CASE ReceiveNack
  <2>1. CASE requests # <<>>
    BY <1>6, <2>1, ResendGuards DEF ReceiveNack
  <2>2. CASE requests = <<>>
    BY <1>6, <2>2 DEF ReceiveNack, HeadIsGuarded
  <2> QED BY <2>1, <2>2
<1>7. CASE ReceiveResponse \/ ReceiveStatus
  BY <1>7 DEF ReceiveResponse, ReceiveStatus, EndProcedure, PopRequest, SendNext, Transmit, HeadIsGuarded
<1>8. ASSUME UNCHANGED <<requests, txCount, acked, txTimer, ready>>
      PROVE  HeadIsGuarded'
  BY <1>8 DEF HeadIsGuarded, Queued
<1>9. CASE \/ ReceiveCan \/ ReceiveGarbage \/ ReceiveSecondFrame
           \/ ReceiveSendResponse \/ ReceiveRequest \/ ReceiveOther
  <2>1. UNCHANGED <<requests, txCount, acked, txTimer, ready>>
    BY <1>9 DEF ReceiveCan, ReceiveGarbage, ReceiveSecondFrame, ReceiveSendResponse,
                ReceiveRequest, ReceiveOther, TakeFrame, Take
  <2> QED BY <1>8, <2>1
<1>10. CASE EndUpcall \/ (\E m \in Message : Line(m)) \/ UNCHANGED vars
  <2>1. UNCHANGED <<requests, txCount, acked, txTimer, ready>>
    BY <1>10 DEF EndUpcall, Line, vars
  <2> QED BY <1>8, <2>1
<1>11. CASE Receive
  <2>1. PICK completion \in Completions(rx) : ready' = ready \o completion
    BY <1>11 DEF Receive
  <2>2. completion \in Seq(Handlers) /\ ready \in Seq(Handlers)
    BY CompletionsType DEF TypeOK
  <2>3. Queued("timer") => Queued("timer")'
    BY <2>1, <2>2 DEF Queued
  <2> QED BY <1>11, <2>3 DEF Receive, HeadIsGuarded
<1> QED
  BY <1>1, <1>2, <1>3, <1>4, <1>5, <1>6, <1>7, <1>9, <1>10, <1>11
     DEF Next, Host, Run, ReadMessage

\* A request on the line that no ACK has been received for is never left
\* without a timeout.
THEOREM GuardCorrect == Spec => []HeadIsGuarded
<1>1. Init => HeadIsGuarded
  BY DEF Init, HeadIsGuarded
<1> QED BY <1>1, GuardStep, SendCorrect, TypeCorrect, QueueCorrect, PTL DEF Spec

-----------------------------------------------------------------------------
(* The protocol at the dongle *)

USE DongleAssumption

-----------------------------------------------------------------------------
(* Sequences of messages *)

\* One message more at the end of several more.
LEMMA ConcatAppend ==
  ASSUME NEW S, NEW s \in Seq(S), NEW t \in Seq(S), NEW m \in S
  PROVE  s \o Append(t, m) = Append(s \o t, m)
<1>1. s \o Append(t, m) \in Seq(S) /\ Append(s \o t, m) \in Seq(S)
  OBVIOUS
<1>2. Len(s \o Append(t, m)) = Len(Append(s \o t, m))
  OBVIOUS
<1>3. ASSUME NEW i \in 1..Len(s \o Append(t, m))
      PROVE  (s \o Append(t, m))[i] = Append(s \o t, m)[i]
  OBVIOUS
<1> QED BY <1>1, <1>2, <1>3, SeqEqual

\* Is a message of that kind on the way, and is there at most one of it?
Has(s, kind)  == \E i \in 1..Len(s) : s[i] \in kind
Once(s, kind) == \A i, j \in 1..Len(s) : s[i] \in kind /\ s[j] \in kind => i = j

\* Nothing is in an empty sequence.
LEMMA EmptyHas == \A kind : ~Has(<<>>, kind) /\ Once(<<>>, kind)
BY DEF Has, Once

\* One message ...
LEMMA SingleHas ==
  ASSUME NEW m, NEW kind
  PROVE  (Has(<<m>>, kind) <=> m \in kind) /\ Once(<<m>>, kind)
<1>1. Len(<<m>>) = 1 /\ <<m>>[1] = m
  OBVIOUS
<1> QED BY <1>1 DEF Has, Once

\* ... one more behind the others, ...
LEMMA AppendHas ==
  ASSUME NEW S, NEW s \in Seq(S), NEW m \in S, NEW kind
  PROVE  /\ Has(Append(s, m), kind) <=> Has(s, kind) \/ m \in kind
         /\ Once(s, kind) /\ ~(Has(s, kind) /\ m \in kind) => Once(Append(s, m), kind)
<1>1. /\ Len(Append(s, m)) = Len(s) + 1 /\ Len(s) \in Nat
      /\ \A i \in 1..Len(s) : Append(s, m)[i] = s[i]
      /\ Append(s, m)[Len(s) + 1] = m
  OBVIOUS
<1>2. Has(Append(s, m), kind) <=> Has(s, kind) \/ m \in kind
  BY <1>1 DEF Has
<1>3. ASSUME Once(s, kind), ~(Has(s, kind) /\ m \in kind),
             NEW i \in 1..Len(Append(s, m)), NEW j \in 1..Len(Append(s, m)),
             Append(s, m)[i] \in kind, Append(s, m)[j] \in kind
      PROVE  i = j
  BY <1>1, <1>3 DEF Has, Once
<1> QED BY <1>2, <1>3 DEF Once

\* ... several more, ...
LEMMA ConcatHas ==
  ASSUME NEW S, NEW s \in Seq(S), NEW t \in Seq(S), NEW kind
  PROVE  /\ Has(s \o t, kind) <=> Has(s, kind) \/ Has(t, kind)
         /\ Once(s, kind) /\ Once(t, kind) /\ ~(Has(s, kind) /\ Has(t, kind))
              => Once(s \o t, kind)
         /\ Once(s \o t, kind) => Once(s, kind)
<1>1. /\ Len(s \o t) = Len(s) + Len(t) /\ Len(s) \in Nat /\ Len(t) \in Nat
      /\ \A i \in 1..Len(s) : (s \o t)[i] = s[i]
      /\ \A i \in 1..Len(t) : (s \o t)[Len(s) + i] = t[i]
      /\ \A i \in 1..(Len(s) + Len(t)) : i > Len(s) => (s \o t)[i] = t[i - Len(s)]
  OBVIOUS
<1>2. Has(s \o t, kind) <=> Has(s, kind) \/ Has(t, kind)
  <2>1. Has(s \o t, kind) => Has(s, kind) \/ Has(t, kind)
    <3> SUFFICES ASSUME NEW i \in 1..Len(s \o t), (s \o t)[i] \in kind
                 PROVE  Has(s, kind) \/ Has(t, kind)
      BY DEF Has
    <3>1. CASE i <= Len(s)
      BY <1>1, <3>1 DEF Has
    <3>2. CASE i > Len(s)
      <4>1. i - Len(s) \in 1..Len(t) /\ t[i - Len(s)] \in kind
        BY <1>1, <3>2
      <4> QED BY <4>1 DEF Has
    <3> QED BY <1>1, <3>1, <3>2
  <2>2. Has(s, kind) => Has(s \o t, kind)
    BY <1>1 DEF Has
  <2>3. ASSUME NEW i \in 1..Len(t), t[i] \in kind PROVE Has(s \o t, kind)
    <3>1. Len(s) + i \in 1..Len(s \o t) /\ (s \o t)[Len(s) + i] \in kind
      BY <1>1, <2>3
    <3> QED BY <3>1 DEF Has
  <2> QED BY <2>1, <2>2, <2>3 DEF Has
<1>3. ASSUME Once(s, kind), Once(t, kind), ~(Has(s, kind) /\ Has(t, kind)),
             NEW i \in 1..Len(s \o t), NEW j \in 1..Len(s \o t),
             (s \o t)[i] \in kind, (s \o t)[j] \in kind
      PROVE  i = j
  <2>1. CASE i <= Len(s) /\ j <= Len(s)
    BY <1>1, <1>3, <2>1 DEF Once
  <2>2. CASE i > Len(s) /\ j > Len(s)
    <3>1. /\ i - Len(s) \in 1..Len(t) /\ t[i - Len(s)] \in kind
          /\ j - Len(s) \in 1..Len(t) /\ t[j - Len(s)] \in kind
      BY <1>1, <1>3, <2>2
    <3>2. i - Len(s) = j - Len(s)
      BY <1>3, <3>1 DEF Once
    <3> QED BY <1>1, <3>2
  <2>3. CASE i <= Len(s) /\ j > Len(s)
    <3>1. i \in 1..Len(s) /\ s[i] \in kind /\ j - Len(s) \in 1..Len(t) /\ t[j - Len(s)] \in kind
      BY <1>1, <1>3, <2>3
    <3> QED BY <1>3, <3>1 DEF Has
  <2>4. CASE i > Len(s) /\ j <= Len(s)
    <3>1. j \in 1..Len(s) /\ s[j] \in kind /\ i - Len(s) \in 1..Len(t) /\ t[i - Len(s)] \in kind
      BY <1>1, <1>3, <2>4
    <3> QED BY <1>3, <3>1 DEF Has
  <2> QED BY <1>1, <2>1, <2>2, <2>3, <2>4
<1>4. ASSUME Once(s \o t, kind), NEW i \in 1..Len(s), NEW j \in 1..Len(s),
             s[i] \in kind, s[j] \in kind
      PROVE  i = j
  BY <1>1, <1>4 DEF Once
<1> QED BY <1>2, <1>3, <1>4 DEF Once

\* ... and what is left behind the first ones.
LEMMA SuffixHas ==
  ASSUME NEW S, NEW s \in Seq(S), NEW n \in 0..Len(s), NEW kind
  PROVE  /\ SubSeq(s, n + 1, Len(s)) \in Seq(S)
         /\ Has(SubSeq(s, n + 1, Len(s)), kind) => Has(s, kind)
         /\ Once(s, kind) => Once(SubSeq(s, n + 1, Len(s)), kind)
         /\ Once(s, kind) /\ n > 0 /\ Head(s) \in kind
              => ~Has(SubSeq(s, n + 1, Len(s)), kind)
<1> DEFINE t == SubSeq(s, n + 1, Len(s))
<1>1. /\ t \in Seq(S) /\ Len(t) = Len(s) - n /\ Len(s) \in Nat
      /\ \A i \in 1..Len(t) : t[i] = s[n + i]
      /\ \A i \in 1..Len(t) : n + i \in 1..Len(s)
      /\ n > 0 => Head(s) = s[1] /\ 1 \in 1..Len(s)
  <2>1. Len(s) \in Nat /\ n \in Nat /\ n <= Len(s)
    OBVIOUS
  <2>2. \A i \in (n + 1)..Len(s) : s[i] \in S
    BY <2>1
  <2>3. /\ t \in Seq(S)
        /\ Len(t) = IF n + 1 <= Len(s) THEN Len(s) - (n + 1) + 1 ELSE 0
        /\ \A i \in 1..(Len(s) - (n + 1) + 1) : t[i] = s[(n + 1) + i - 1]
    BY <2>1, <2>2, SubSeqProperties
  <2>4. Len(t) = Len(s) - n
    BY <2>1, <2>3
  <2> HIDE DEF t
  <2>5. \A i \in 1..Len(t) : t[i] = s[n + i] /\ n + i \in 1..Len(s)
    <3> SUFFICES ASSUME NEW i \in 1..Len(t) PROVE t[i] = s[n + i] /\ n + i \in 1..Len(s)
      OBVIOUS
    <3>1. i \in 1..(Len(s) - (n + 1) + 1) /\ (n + 1) + i - 1 = n + i /\ n + i \in 1..Len(s)
      BY <2>1, <2>4
    <3> QED BY <2>3, <3>1
  <2>6. n > 0 => Head(s) = s[1] /\ 1 \in 1..Len(s)
    BY <2>1
  <2> QED BY <2>1, <2>3, <2>4, <2>5, <2>6
<1> HIDE DEF t
<1>2. Has(t, kind) => Has(s, kind)
  BY <1>1 DEF Has
<1>3. ASSUME Once(s, kind), NEW i \in 1..Len(t), NEW j \in 1..Len(t),
             t[i] \in kind, t[j] \in kind
      PROVE  i = j
  <2>1. n + i = n + j
    BY <1>1, <1>3 DEF Once
  <2> QED BY <1>1, <2>1
<1>4. ASSUME Once(s, kind), n > 0, Head(s) \in kind, NEW i \in 1..Len(t), t[i] \in kind
      PROVE  FALSE
  <2>1. n + i = 1
    BY <1>1, <1>4 DEF Once
  <2> QED BY <1>1, <1>4, <2>1
<1> QED BY <1>1, <1>2, <1>3, <1>4 DEF t, Has, Once

\* The first message and the others.
LEMMA TailHas ==
  ASSUME NEW S, NEW s \in Seq(S), s # <<>>, NEW kind
  PROVE  /\ Has(s, kind) <=> Head(s) \in kind \/ Has(Tail(s), kind)
         /\ Once(s, kind) => Once(Tail(s), kind)
         /\ Once(s, kind) /\ Head(s) \in kind => ~Has(Tail(s), kind)
<1>1. /\ 1 \in 1..Len(s) /\ Head(s) = s[1] /\ Len(s) \in Nat
      /\ Len(Tail(s)) = Len(s) - 1
      /\ \A i \in 1..Len(Tail(s)) : Tail(s)[i] = s[i + 1] /\ i + 1 \in 1..Len(s)
      /\ \A i \in 1..Len(s) : i > 1 => i - 1 \in 1..Len(Tail(s)) /\ Tail(s)[i - 1] = s[i]
  OBVIOUS
<1>2. Has(s, kind) => Head(s) \in kind \/ Has(Tail(s), kind)
  BY <1>1, SMTT(30) DEF Has
<1>3. Head(s) \in kind \/ Has(Tail(s), kind) => Has(s, kind)
  BY <1>1 DEF Has
<1>4. ASSUME Once(s, kind), NEW i \in 1..Len(Tail(s)), NEW j \in 1..Len(Tail(s)),
             Tail(s)[i] \in kind, Tail(s)[j] \in kind
      PROVE  i = j
  <2>1. i + 1 = j + 1
    BY <1>1, <1>4 DEF Once
  <2> QED BY <1>1, <2>1
<1>5. ASSUME Once(s, kind), Head(s) \in kind, NEW i \in 1..Len(Tail(s)), Tail(s)[i] \in kind
      PROVE  FALSE
  <2>1. i + 1 = 1
    BY <1>1, <1>5 DEF Once
  <2> QED BY <1>1, <2>1
<1> QED BY <1>2, <1>3, <1>4, <1>5 DEF Has, Once

-----------------------------------------------------------------------------
(* Types *)

\* What is on its way between the host and the dongle.
HostFrames ==
  {m \in Sent : /\ m.msg = "SOF"
                /\ m.function = Function[m.request]
                /\ m.request \in SendRequests <=> m.funcId # NoFuncId}
HostMessages == HostFrames \cup {Ack, Nack}

Responses ==
  {m \in Frame : m.type = "RESPONSE" /\ m.data \in Requests /\ m.function = Function[m.data]}
Statuses ==
  {m \in Frame : m.type = "REQUEST" /\ m.data \in SendRequests /\ m.function = Function[m.data]}
ReportFrames == {Report(p) : p \in Reports}
DongleFrames == Responses \cup Statuses \cup ReportFrames

DongleTypeOK ==
  /\ toDongle \in Seq(HostMessages)
  /\ outbox \in Seq(DongleFrames)
  /\ awaiting \in BOOLEAN
  /\ awaiting => outbox # <<>>
  /\ network \subseteq Statuses
  /\ reports \subseteq Reports

\* The steps of the host; an error of the line is not among them.
HostStep == LoopStep \/ \E r \in Requests : SendRequest(r)

\* The frame of a request is a frame of the host.
LEMMA FrameType ==
  ASSUME NEW r \in Requests, NEW id \in FuncIds
  PROVE  /\ r \in SendRequests => RequestFrame(r, id) \in HostFrames
         /\ r \notin SendRequests => RequestFrame(r, NoFuncId) \in HostFrames
<1>1. Function[r] \in Functions
  BY RequestsAssumption
<1>2. id # NoFuncId
  BY DEF FuncIds, NoFuncId
<1> QED BY <1>1, <1>2 DEF HostFrames, Sent, RequestFrame

\* The number a request is sent with.
IdFor(r) == IF r \in SendRequests THEN nextFuncId ELSE NoFuncId

\* sendRequest() writes one frame, that of the front request.
LEMMA TransmitWrites ==
  ASSUME TypeOK, NEW q \in Seq(Requests), q # <<>>, NEW before, Transmit(q, before)
  PROVE  /\ written' = Append(before, RequestFrame(Head(q), IdFor(Head(q))))
         /\ RequestFrame(Head(q), IdFor(Head(q))) \in HostFrames
<1>1. Head(q) \in Requests /\ nextFuncId \in FuncIds
  BY DEF TypeOK
<1> QED BY <1>1, FrameType DEF Transmit, IdFor

\* A step of the host is one of ZWaveProtocol.
LEMMA HostIsNext == HostStep => Next
BY DEF HostStep, LoopStep, Next, Host, Run, Poll, PollWith, ReadPending, Completions

\* What the dongle has to send are messages ZWaveProtocol expects.
LEMMA FramesAreMessages ==
  /\ DongleFrames \subseteq Frame /\ Frame \subseteq Message
  /\ Ack \in Message /\ Nack \in Message
  /\ [msg |-> "CAN"] \in Message /\ [msg |-> "CORRUPT"] \in Message
  /\ HostMessages \subseteq Sent
<1>1. ASSUME NEW p \in Reports PROVE Report(p) \in Frame
  BY DongleAssumption, BoundsAssumption DEF Report, DongleFrame, Frame, FuncIds
<1>2. DongleFrames \subseteq Frame
  BY <1>1 DEF DongleFrames, Responses, Statuses, ReportFrames
<1> QED BY <1>2 DEF Message, Plain, Ack, Nack, HostMessages, HostFrames, Sent

-----------------------------------------------------------------------------
(* What the host does to the line *)

\* The messages of the dongle in the order the host takes them.
line == rxBuffer \o rx

Corrupt == [msg |-> "CORRUPT"]

Writes(before) ==
  written' = before \/ \E f \in HostFrames : written' = Append(before, f)

DropsSome == \E n \in 1..Len(line) : line' = SubSeq(line, n + 1, Len(line))

\* The steps that take a frame.
TakesFrame == ReceiveResponse \/ ReceiveSendResponse \/ ReceiveStatus
              \/ ReceiveRequest \/ ReceiveOther

\* Each frame the host takes is acknowledged, each garbled one is refused.
LineKinds ==
  \/ line' = line /\ Writes(<<>>)
  \/ /\ TakesFrame
     /\ line # <<>> /\ Head(line) \in Frame /\ Head(line) = Head(rxBuffer)
     /\ line' = Tail(line) /\ Writes(<<Ack>>)
  \/ DropsSome /\ Writes(<<>>)
  \/ DropsSome /\ Head(line) = Corrupt /\ written' = <<Nack>>

\* The line is a sequence of messages, and what its front is.
LEMMA LineType ==
  ASSUME TypeOK
  PROVE  /\ line \in Seq(Message)
         /\ rxBuffer # <<>> => line # <<>> /\ Head(line) = Head(rxBuffer)
         /\ rxBuffer = <<>> => line = rx
BY DEF TypeOK, line

\* Taking a message takes the front of the line.
LEMMA TakeLine ==
  ASSUME TypeOK, NEW type, Take(type)
  PROVE  /\ line # <<>> /\ Head(line) = Head(rxBuffer) /\ line' = Tail(line)
         /\ Head(line).msg = type
<1>1. /\ rxBuffer \in Seq(Message) /\ rx \in Seq(Message) /\ rxBuffer # <<>>
      /\ rxBuffer' = Tail(rxBuffer) /\ rx' = rx /\ Head(rxBuffer).msg = type
  BY DEF TypeOK, Take
<1>2. Tail(rxBuffer \o rx) = Tail(rxBuffer) \o rx
  <2>1. rxBuffer \o rx \in Seq(Message) /\ rxBuffer \o rx # <<>>
        /\ Tail(rxBuffer) \o rx \in Seq(Message)
    BY <1>1
  <2>2. Len(Tail(rxBuffer \o rx)) = Len(Tail(rxBuffer) \o rx)
    BY <1>1, <2>1
  <2>3. ASSUME NEW i \in 1..Len(Tail(rxBuffer) \o rx)
        PROVE  Tail(rxBuffer \o rx)[i] = (Tail(rxBuffer) \o rx)[i]
    BY <1>1, <2>1
  <2>4. Tail(rxBuffer \o rx) \in Seq(Message)
    BY <2>1
  <2> QED BY <2>1, <2>2, <2>3, <2>4, SeqEqual
<1> QED BY <1>1, <1>2, LineType DEF line

\* Appending messages is associative.
LEMMA MessagesAppended ==
  ASSUME NEW s \in Seq(Message), NEW t \in Seq(Message), NEW u \in Seq(Message)
  PROVE  (s \o t) \o u = s \o (t \o u)
BY ConcatAssociative, SMTT(30)

\* Reading moves messages into the buffer, in their order.
LEMMA ReadLine ==
  ASSUME TypeOK, ReadHandler
  PROVE  line' = line
<1>1. PICK n \in 1..Len(rx) :
        /\ rxBuffer' = rxBuffer \o SubSeq(rx, 1, n)
        /\ rx' = SubSeq(rx, n + 1, Len(rx))
  BY DEF ReadHandler
<1>2. rx \in Seq(Message) /\ rxBuffer \in Seq(Message) /\ Len(rx) \in Nat
  BY DEF TypeOK
<1>3. SubSeq(rx, 1, n) \o SubSeq(rx, n + 1, Len(rx)) = rx
  BY <1>2, ConcatAdjacentSubSeq, SubSeqFull
<1> DEFINE front == SubSeq(rx, 1, n)
           back  == SubSeq(rx, n + 1, Len(rx))
<1>4. front \in Seq(Message) /\ back \in Seq(Message)
  BY <1>2
<1>5. (rxBuffer \o front) \o back = rxBuffer \o (front \o back)
  BY <1>2, <1>4, MessagesAppended
<1> QED BY <1>1, <1>3, <1>5 DEF line

\* Emptying the buffer drops messages from the front of the line.
LEMMA EmptyLine ==
  ASSUME TypeOK, rxBuffer # <<>>, rxBuffer' = <<>>, rx' = rx
  PROVE  DropsSome
<1>1. rx \in Seq(Message) /\ rxBuffer \in Seq(Message)
      /\ Len(rxBuffer) \in 1..Len(rxBuffer \o rx)
  BY DEF TypeOK
<1> DEFINE rest == SubSeq(rxBuffer \o rx, Len(rxBuffer) + 1, Len(rxBuffer \o rx))
<1>2. rest \in Seq(Message) /\ Len(rest) = Len(rx) /\ \A i \in 1..Len(rx) : rest[i] = rx[i]
  BY <1>1
<1>3. rest = rx
  <2> HIDE DEF rest
  <2> QED BY <1>1, <1>2, SeqEqual
<1>4. line' = rx
  BY <1>1 DEF line
<1> QED BY <1>1, <1>3, <1>4 DEF DropsSome, line

\* A message with the mark of a frame is a frame.
LEMMA FrontFrame ==
  ASSUME TypeOK, Take("SOF")
  PROVE  Head(line) \in Frame
<1>1. Head(rxBuffer) \in Message /\ Head(rxBuffer).msg = "SOF"
  BY DEF TypeOK, Take
<1> QED BY <1>1, TakeLine DEF Message, Plain

\* sendRequest() writes one frame behind what was written before.
LEMMA TransmitIsWrite ==
  ASSUME TypeOK, NEW q \in Seq(Requests), q # <<>>, NEW before, Transmit(q, before)
  PROVE  Writes(before)
BY TransmitWrites DEF Writes

\* resendRequest writes a frame or nothing.
LEMMA ResendWrites ==
  ASSUME TypeOK, requests # <<>>, NEW timer, Resend(timer)
  PROVE  Writes(<<>>)
<1>1. CASE TriesLeft
  <2>1. Transmit(requests, <<>>) /\ requests \in Seq(Requests)
    BY <1>1 DEF Resend, TypeOK
  <2> QED BY <2>1, TransmitIsWrite
<1>2. CASE ~TriesLeft
  BY <1>2 DEF Resend, Writes
<1> QED BY <1>1, <1>2

\* The end of a procedure acknowledges its frame first.
LEMMA EndWrites ==
  ASSUME TypeOK, requests # <<>>, EndProcedure
  PROVE  Writes(<<Ack>>)
<1>1. CASE Tail(requests) # <<>>
  <2>1. Transmit(Tail(requests), <<Ack>>) /\ Tail(requests) \in Seq(Requests)
    BY <1>1 DEF EndProcedure, SendNext, TypeOK
  <2> QED BY <1>1, <2>1, TransmitIsWrite
<1>2. CASE Tail(requests) = <<>>
  BY <1>2 DEF EndProcedure, SendNext, Writes
<1> QED BY <1>1, <1>2

\* What a step of the host does to the line, and what it writes.
LEMMA HostLine ==
  ASSUME TypeOK, HostStep
  PROVE  LineKinds
<1> USE DEF LineKinds
<1>1. ASSUME NEW r \in Requests, SendRequest(r) PROVE LineKinds
  <2>1. line' = line
    BY <1>1 DEF SendRequest, receiveVars, line
  <2>2. CASE requests = <<>>
    <3>1. Transmit(<<r>>, <<>>) /\ <<r>> \in Seq(Requests) /\ <<r>> # <<>>
      BY <1>1, <2>2 DEF SendRequest
    <3> QED BY <2>1, <3>1, TransmitIsWrite
  <2>3. CASE requests # <<>>
    BY <1>1, <2>1, <2>3 DEF SendRequest, Writes
  <2> QED BY <2>2, <2>3
<1>2. ASSUME NEW descriptor, NEW expired, PollWith(descriptor, expired) PROVE LineKinds
  BY <1>2 DEF PollWith, receiveVars, line, Writes
<1>3. CASE TimerHandler
  <2>1. line' = line
    BY <1>3 DEF TimerHandler, receiveVars, line
  <2>2. Writes(<<>>)
    BY <1>3, ResendWrites DEF TimerHandler, Writes
  <2> QED BY <2>1, <2>2
<1>4. CASE ReadHandler
  BY <1>4, ReadLine DEF ReadHandler, Writes
<1>5. CASE EndUpcall \/ Receive
  BY <1>5 DEF EndUpcall, Receive, receiveVars, line, Writes
<1>6. ASSUME NEW type, Take(type), Writes(<<>>) PROVE LineKinds
  <2>1. line' = Tail(line) /\ line # <<>> /\ line \in Seq(Message)
    BY <1>6, TakeLine, LineType
  <2>2. 1 \in 1..Len(line) /\ Tail(line) = SubSeq(line, 1 + 1, Len(line))
    BY <2>1
  <2> QED BY <1>6, <2>1, <2>2 DEF DropsSome
<1>7. CASE ReceiveAck \/ ReceiveCan \/ ReceiveSecondFrame
  BY <1>6, <1>7 DEF ReceiveAck, ReceiveCan, ReceiveSecondFrame, Writes
<1>8. CASE ReceiveNack
  <2>1. Take("NACK") /\ Writes(<<>>)
    BY <1>8, ResendWrites DEF ReceiveNack, Writes
  <2> QED BY <1>6, <2>1
<1>9. CASE ReceiveGarbage
  <2>1. DropsSome
    BY <1>9, EmptyLine DEF ReceiveGarbage
  <2>2. CASE Head(rxBuffer).msg = "CORRUPT"
    <3>1. Head(rxBuffer) \in Message /\ rxBuffer # <<>>
      BY <1>9 DEF ReceiveGarbage, TypeOK
    <3>2. Head(line) = Corrupt
      BY <2>2, <3>1, LineType DEF Corrupt, Message, Plain, Frame
    <3> QED BY <1>9, <2>1, <2>2, <3>2 DEF ReceiveGarbage
  <2>3. CASE Head(rxBuffer).msg # "CORRUPT"
    BY <1>9, <2>1, <2>3 DEF ReceiveGarbage, Writes
  <2> QED BY <2>2, <2>3
<1>10. ASSUME TakesFrame, Take("SOF"), Writes(<<Ack>>) PROVE LineKinds
  BY <1>10, TakeLine, FrontFrame
<1>11. CASE ReceiveResponse \/ ReceiveStatus
  <2>1. Take("SOF") /\ requests # <<>> /\ EndProcedure
    BY <1>11 DEF ReceiveResponse, ReceiveStatus, TakeFrame, Pending
  <2> QED BY <1>10, <1>11, <2>1, EndWrites DEF TakesFrame
<1>12. CASE ReceiveSendResponse \/ ReceiveRequest \/ ReceiveOther
  BY <1>10, <1>12
     DEF ReceiveSendResponse, ReceiveRequest, ReceiveOther, TakeFrame, TakesFrame, Writes
<1> QED
  BY <1>1, <1>2, <1>3, <1>4, <1>5, <1>7, <1>8, <1>9, <1>11, <1>12
     DEF HostStep, LoopStep, ReadMessage

-----------------------------------------------------------------------------
(* The system is a ZWaveProtocol *)

SystemTypeOK == TypeOK /\ DongleTypeOK

\* The host writes nothing but acknowledgements and frames of requests.
LEMMA WrittenType ==
  ASSUME TypeOK, HostStep
  PROVE  written' \in Seq(HostMessages)
<1>1. LineKinds
  BY HostLine
<1>2. <<>> \in Seq(HostMessages) /\ <<Ack>> \in Seq(HostMessages)
      /\ <<Nack>> \in Seq(HostMessages) /\ HostFrames \subseteq HostMessages
  BY DEF HostMessages
<1>3. ASSUME NEW before \in Seq(HostMessages), Writes(before)
      PROVE  written' \in Seq(HostMessages)
  BY <1>2, <1>3 DEF Writes
<1> QED BY <1>1, <1>2, <1>3 DEF LineKinds

\* The dongle puts known messages on the line, so all its steps are steps the
\* environment of ZWaveProtocol may take.
LEMMA DongleIsNext ==
  ASSUME SystemTypeOK, DongleStep \/ MakeReport
  PROVE  [Next]_vars
<1>1. ASSUME NEW m \in Message, Line(m) PROVE Next
  BY <1>1 DEF Next
<1>2. outbox # <<>> => Head(outbox) \in Message
  BY FramesAreMessages DEF SystemTypeOK, DongleTypeOK
<1>3. outbox # <<>> /\ PutFrame => [Next]_vars
  BY <1>1, <1>2, FramesAreMessages DEF PutFrame
<1>4. CASE TakeRequest
  BY <1>1, <1>4, FramesAreMessages DEF TakeRequest
<1>5. CASE CancelRequest
  BY <1>1, <1>5, FramesAreMessages DEF CancelRequest
<1>6. CASE MissRequest
  BY <1>1, <1>6, FramesAreMessages DEF MissRequest
<1>7. CASE TakeAck \/ TakeNack \/ StatusReturns \/ MakeReport
  BY <1>7 DEF TakeAck, TakeNack, StatusReturns, MakeReport
<1>8. CASE SendFrame
  BY <1>3, <1>8 DEF SendFrame
<1>9. CASE SendAgain
  <2>1. outbox # <<>>
    BY <1>9 DEF SendAgain, SystemTypeOK, DongleTypeOK
  <2> QED BY <1>1, <1>2, <1>3, <1>9, <2>1 DEF SendAgain
<1> QED BY <1>4, <1>5, <1>6, <1>7, <1>8, <1>9 DEF DongleStep

\* A frame of the host that arrives is one of a request, and the dongle's
\* answers to it have their types.
LEMMA AnswerTypes ==
  ASSUME NEW f \in HostFrames
  PROVE  /\ Response(f) \in Responses
         /\ f.request \in SendRequests => Status(f) \in Statuses
<1>1. /\ f.request \in Requests /\ f.function \in Functions
      /\ f.function = Function[f.request]
      /\ f.funcId \in FuncIds \cup {NoFuncId}
      /\ f.request \in SendRequests <=> f.funcId # NoFuncId
  BY DEF HostFrames, Sent, Ack, Nack
<1>2. 1 \in FuncIds /\ Requests \subseteq Payloads
  BY DongleAssumption, BoundsAssumption DEF FuncIds
<1> QED BY <1>1, <1>2 DEF Response, Status, DongleFrame, Responses, Statuses, Frame

\* What has arrived is gone from the line.
LEMMA ArriveType ==
  ASSUME SystemTypeOK, NEW msg, Arrives(msg)
  PROVE  /\ toDongle' \in Seq(HostMessages) /\ Head(toDongle) \in HostMessages
         /\ msg = "SOF" => Head(toDongle) \in HostFrames
<1>1. Head(toDongle) \in HostMessages
  BY DEF SystemTypeOK, DongleTypeOK, Arrives
<1> QED BY <1>1 DEF SystemTypeOK, DongleTypeOK, Arrives, HostMessages, Ack, Nack

\* Every step of the host and of the dongle keeps the types of the dongle.
LEMMA DongleTypeStep ==
  ASSUME SystemTypeOK, [SystemNext]_systemVars
  PROVE  DongleTypeOK'
<1> USE DEF SystemTypeOK, DongleTypeOK
<1>1. CASE Loop \/ Call
  <2>1. HostStep /\ OnTheWire
    BY <1>1 DEF Loop, Call, HostStep
  <2>2. toDongle' \in Seq(HostMessages)
    BY <2>1, WrittenType DEF OnTheWire
  <2> QED BY <2>1, <2>2 DEF OnTheWire
<1>2. CASE TakeRequest
  <2>1. Head(toDongle) \in HostFrames /\ toDongle' \in Seq(HostMessages)
    BY <1>2, ArriveType DEF TakeRequest
  <2>2. Response(Head(toDongle)) \in DongleFrames
        /\ network' \subseteq Statuses
    BY <1>2, <2>1, AnswerTypes DEF TakeRequest, Accept, DongleFrames
  <2> QED BY <1>2, <2>1, <2>2 DEF TakeRequest, Accept, Arrives
<1>3. CASE CancelRequest \/ MissRequest
  <2>1. toDongle' \in Seq(HostMessages)
    BY <1>3, ArriveType DEF CancelRequest, MissRequest
  <2> QED BY <1>3, <2>1 DEF CancelRequest, MissRequest, Arrives
<1>4. CASE TakeAck
  <2>1. toDongle' \in Seq(HostMessages)
    BY <1>4, ArriveType DEF TakeAck
  <2>2. UNCHANGED <<network, reports>>
    BY <1>4 DEF TakeAck, Arrives
  <2>3. CASE awaiting' = FALSE
    <3>1. outbox' = outbox \/ (outbox # <<>> /\ outbox' = Tail(outbox))
      BY <1>4 DEF TakeAck
    <3>2. outbox' \in Seq(DongleFrames)
      BY <3>1
    <3> QED BY <2>1, <2>2, <2>3, <3>2
  <2>4. CASE UNCHANGED <<outbox, awaiting>>
    BY <2>1, <2>2, <2>4
  <2> QED BY <1>4, <2>3, <2>4 DEF TakeAck
<1>5. CASE TakeNack
  <2>1. toDongle' \in Seq(HostMessages)
    BY <1>5, ArriveType DEF TakeNack
  <2> QED BY <1>5, <2>1 DEF TakeNack, Arrives
<1>6. CASE SendFrame \/ SendAgain
  BY <1>6 DEF SendFrame, SendAgain
<1>7. CASE StatusReturns
  <2>1. PICK f \in network : outbox' = Append(outbox, f) /\ network' = network \ {f}
    BY <1>7 DEF StatusReturns
  <2>2. f \in DongleFrames
    BY DEF DongleFrames
  <2> QED BY <1>7, <2>1, <2>2 DEF StatusReturns
<1>8. CASE MakeReport
  <2>1. PICK p \in reports : outbox' = Append(outbox, Report(p)) /\ reports' = reports \ {p}
    BY <1>8 DEF MakeReport
  <2>2. Report(p) \in DongleFrames
    BY DEF DongleFrames, ReportFrames
  <2> QED BY <1>8, <2>1, <2>2 DEF MakeReport
<1>9. CASE UNCHANGED systemVars
  BY <1>9 DEF systemVars, dongleVars
<1> QED
  BY <1>1, <1>2, <1>3, <1>4, <1>5, <1>6, <1>7, <1>8, <1>9 DEF SystemNext, DongleStep

\* A step of the system is a step of ZWaveProtocol or none.
LEMMA SystemIsNext ==
  ASSUME SystemTypeOK, [SystemNext]_systemVars
  PROVE  [Next]_vars
<1>1. CASE Loop \/ Call
  BY <1>1, HostIsNext DEF Loop, Call, HostStep
<1>2. CASE DongleStep \/ MakeReport
  BY <1>2, DongleIsNext
<1>3. CASE UNCHANGED systemVars
  BY <1>3 DEF systemVars
<1> QED BY <1>1, <1>2, <1>3 DEF SystemNext

\* Every variable of the host and of the dongle keeps its type.
THEOREM SystemTypes == SystemSpec => []SystemTypeOK
<1>1. ASSUME SystemInit PROVE SystemTypeOK
  <2>1. TypeOK
    BY <1>1, TypeInit DEF SystemInit
  <2>2. /\ <<>> \in Seq(HostMessages) /\ <<>> \in Seq(DongleFrames)
        /\ {} \subseteq Statuses /\ Reports \subseteq Reports
    OBVIOUS
  <2>3. DongleTypeOK
    BY <1>1, <2>2, Zenon DEF SystemInit, DongleTypeOK
  <2> QED BY <2>1, <2>3 DEF SystemTypeOK
<1>2. ASSUME SystemTypeOK, [SystemNext]_systemVars PROVE SystemTypeOK'
  <2>1. TypeOK'
    BY <1>2, SystemIsNext, TypeStep DEF SystemTypeOK
  <2>2. DongleTypeOK'
    BY <1>2, DongleTypeStep
  <2> QED BY <2>1, <2>2 DEF SystemTypeOK
<1> QED BY <1>1, <1>2, PTL DEF SystemSpec

\* The dongle of the README is one of those ZWaveProtocol allows for: whatever
\* holds of the protocol on an arbitrary line holds of it here.
THEOREM SystemImplements == SystemSpec => Spec
<1>1. SystemInit => Init
  BY DEF SystemInit
<1>2. SystemTypeOK /\ [SystemNext]_systemVars => [Next]_vars
  BY SystemIsNext
<1> QED BY <1>1, <1>2, SystemTypes, PTL DEF SystemSpec, Spec

-----------------------------------------------------------------------------
(* The event loop *)

\* What is queued in the event loop, and what a queued expiry means: the timer
\* expires only while the line is silent, so nothing else is queued with it, and
\* the request it was started for is still there.
LoopInv ==
  /\ ready \in {<<"task">>, <<"read", "task">>, <<"task", "read">>, <<"timer", "task">>}
  /\ Queued("read") => rx # <<>>
  /\ Queued("timer") => txTimer = "idle" /\ requests # <<>>
  /\ txTimer = "armed" => requests # <<>>
  /\ pc \in {"loop", "read", "upcall"}
  /\ pc # "loop" => ready = <<"task">>
  /\ pc = "loop" => rxBuffer = <<>>

\* The handlers in each of the queues.
LEMMA ReadyFacts ==
  /\ ready = <<"task">> => ~Queued("read") /\ ~Queued("timer") /\ Head(ready) = "task"
  /\ ready = <<"read", "task">> => /\ Queued("read") /\ ~Queued("timer")
                                   /\ Head(ready) = "read" /\ Tail(ready) = <<"task">>
  /\ ready = <<"task", "read">> => /\ Queued("read") /\ ~Queued("timer")
                                   /\ Head(ready) = "task" /\ Tail(ready) = <<"read">>
  /\ ready = <<"timer", "task">> => /\ Queued("timer") /\ ~Queued("read")
                                    /\ Head(ready) = "timer" /\ Tail(ready) = <<"task">>
<1>1. ASSUME ready = <<"task">> PROVE ~Queued("read") /\ ~Queued("timer") /\ Head(ready) = "task"
  BY <1>1 DEF Queued
<1>2. ASSUME NEW a, NEW b, ready = <<a, b>>
      PROVE  /\ \A h : Queued(h) <=> h = a \/ h = b
             /\ Head(ready) = a /\ Tail(ready) = <<b>>
  <2>1. Len(ready) = 2 /\ ready[1] = a /\ ready[2] = b
    BY <1>2
  <2> QED BY <1>2, <2>1 DEF Queued
<1>3. "read" # "task" /\ "timer" # "task" /\ "read" # "timer"
  OBVIOUS
<1> QED BY <1>1, <1>2, <1>3

\* Short queues put together.
LEMMA JoinFacts ==
  ASSUME NEW a \in Handlers, NEW b \in Handlers
  PROVE  /\ <<a>> \o <<b>> = <<a, b>> /\ <<a>> \o <<>> = <<a>>
         /\ <<>> \o <<a>> = <<a>> /\ Tail(<<a>>) = <<>>
<1> DEFINE s == <<a>>
           t == <<b>>
<1>1. s \in Seq(Handlers) /\ t \in Seq(Handlers) /\ <<a, b>> \in Seq(Handlers)
  OBVIOUS
<1>2. /\ Len(s) = 1 /\ s[1] = a /\ Len(t) = 1 /\ t[1] = b
      /\ Len(<<a, b>>) = 2 /\ <<a, b>>[1] = a /\ <<a, b>>[2] = b
  OBVIOUS
<1>3. s \o t = <<a, b>>
  <2> HIDE DEF s, t
  <2>0. /\ s \o t \in Seq(Handlers) /\ Len(s \o t) = Len(s) + Len(t)
        /\ \A i \in 1..(Len(s) + Len(t)) :
             (s \o t)[i] = IF i <= Len(s) THEN s[i] ELSE t[i - Len(s)]
    BY <1>1, ConcatProperties
  <2>1. s \o t \in Seq(Handlers) /\ Len(s \o t) = 2
    BY <1>2, <2>0
  <2>2. (s \o t)[1] = a /\ (s \o t)[2] = b
    <3>1. 1 <= Len(s) /\ ~(2 <= Len(s)) /\ 2 - Len(s) = 1
      BY <1>2
    <3>2. 1 \in 1..(Len(s) + Len(t)) /\ 2 \in 1..(Len(s) + Len(t))
      BY <1>2
    <3>3. (s \o t)[1] = s[1]
      BY <2>0, <3>1, <3>2
    <3>4. (s \o t)[2] = t[1]
      BY <2>0, <3>1, <3>2
    <3> QED BY <1>2, <3>3, <3>4
  <2> DEFINE u == <<a, b>>
  <2>3. u \in Seq(Handlers) /\ Len(u) = 2 /\ u[1] = a /\ u[2] = b
    BY <1>1, <1>2
  <2> HIDE DEF u
  <2>4. ASSUME NEW i \in 1..Len(u) PROVE (s \o t)[i] = u[i]
    <3>1. i = 1 \/ i = 2
      BY <2>3
    <3> QED BY <2>2, <2>3, <3>1
  <2>5. s \o t = u
    BY <2>1, <2>3, <2>4, SeqEqual
  <2> QED BY <2>5 DEF u
<1>4. s \o <<>> = s /\ <<>> \o s = s
  <2> HIDE DEF s
  <2> QED BY <1>1, ConcatEmptySeq
<1>5. Tail(s) = <<>>
  <2>1. Tail(s) \in Seq(Handlers) /\ Len(Tail(s)) = 0
    BY <1>1, <1>2
  <2> QED BY <2>1, EmptySeq
<1> QED BY <1>3, <1>4, <1>5

\* sendRequest() starts the timer for a request that is in the queue.
LEMMA TransmitArms ==
  ASSUME NEW q, NEW before, Transmit(q, before)
  PROVE  txTimer' = "armed"
BY DEF Transmit

\* So does resendRequest, or it leaves the timer as it is said to be.
LEMMA ResendTimer ==
  ASSUME TypeOK, requests # <<>>, NEW timer, timer # "armed", Resend(timer)
  PROVE  txTimer' = "armed" => requests' # <<>>
BY DEF Resend

\* The end of a procedure starts it for the next request or stops it.
LEMMA EndTimer ==
  ASSUME TypeOK, requests # <<>>, EndProcedure
  PROVE  txTimer' = "armed" => requests' # <<>>
BY DEF EndProcedure, PopRequest, SendNext

\* The expiry of the timer, and completed reads.
LEMMA PollLoop ==
  ASSUME TypeOK, LoopInv, NEW descriptor \in {<<>>, <<"read">>}, NEW expired \in BOOLEAN,
         PollWith(descriptor, expired), expired => Quiet
  PROVE  LoopInv'
<1> USE DEF LoopInv
<1>1. /\ UNCHANGED <<requests, rx, rxBuffer, pc>> /\ pc = "loop" /\ Head(ready) = "task"
      /\ descriptor # <<>> => rx # <<>> /\ ~Queued("read")
      /\ expired => txTimer = "armed" /\ txTimer' = "idle" /\ rx = <<>>
      /\ ~expired => txTimer' = txTimer
  BY DEF PollWith, Dispatch, queueVars, receiveVars, Quiet, ReadPending, Completions
<1>2. ready = <<"task">> \/ ready = <<"task", "read">>
  BY <1>1, ReadyFacts
<1>3. CASE expired
  <2>1. descriptor = <<>> /\ ready = <<"task">>
    BY <1>1, <1>2, <1>3, ReadyFacts
  <2>2. ready' = <<"timer", "task">>
    BY <1>3, <2>1 DEF PollWith
  <2>3. Queued("timer")' /\ ~Queued("read")'
    BY <2>2 DEF Queued
  <2> QED BY <1>1, <1>3, <2>2, <2>3
<1>4. CASE ~expired /\ ready = <<"task", "read">>
  <2>1. descriptor = <<>> /\ rx # <<>>
    BY <1>1, <1>4, ReadyFacts
  <2>2. ready' = <<"read">> \o <<>> \o <<"task">>
    BY <1>4, <2>1, ReadyFacts DEF PollWith
  <2>3. ready' = <<"read", "task">>
    BY <2>2, JoinFacts DEF Handlers
  <2>4. ~Queued("timer")'
    BY <2>3 DEF Queued
  <2> QED BY <1>1, <1>4, <2>1, <2>3, <2>4
<1>5. CASE ~expired /\ ready = <<"task">> /\ descriptor = <<>>
  <2>1. ready' = <<"task">>
    BY <1>5 DEF PollWith
  <2>2. ~Queued("timer")' /\ ~Queued("read")'
    BY <2>1 DEF Queued
  <2> QED BY <1>1, <1>5, <2>1, <2>2
<1>6. CASE ~expired /\ ready = <<"task">> /\ descriptor = <<"read">>
  <2>1. ready' = Tail(<<"task">>) \o <<"read">> \o <<"task">> /\ rx # <<>>
    BY <1>1, <1>6 DEF PollWith
  <2>2. ready' = <<"read", "task">>
    BY <2>1, JoinFacts DEF Handlers
  <2>3. ~Queued("timer")'
    BY <2>2 DEF Queued
  <2> QED BY <1>1, <1>6, <2>1, <2>2, <2>3
<1> QED BY <1>2, <1>3, <1>4, <1>5, <1>6

\* A step in the read handler that keeps to its queue and timer.
LEMMA InRead ==
  ASSUME LoopInv, pc # "loop", UNCHANGED ready, pc' \in {"read", "upcall"},
         txTimer' = "armed" => requests' # <<>>
  PROVE  LoopInv'
<1>1. ready' = <<"task">>
  BY DEF LoopInv
<1>2. ~Queued("timer")' /\ ~Queued("read")'
  BY <1>1 DEF Queued
<1> QED BY <1>1, <1>2 DEF LoopInv

\* No step of the host disturbs the event loop.
LEMMA HostLoop ==
  ASSUME TypeOK, LoopInv, HostStep
  PROVE  LoopInv'
<1>1. ASSUME NEW r \in Requests, SendRequest(r) PROVE LoopInv'
  <2>1. UNCHANGED <<ready, pc, rx, rxBuffer>>
    BY <1>1 DEF SendRequest, receiveVars
  <2>2. requests # <<>> => UNCHANGED txTimer
    BY <1>1 DEF SendRequest
  <2>3. requests' # <<>>
    <3>1. requests' = Append(requests, r) /\ requests \in Seq(Requests)
      BY <1>1 DEF SendRequest, TypeOK
    <3>2. Len(Append(requests, r)) = Len(requests) + 1 /\ Len(requests) \in Nat
      BY <3>1
    <3>3. Append(requests, r) # <<>>
      BY <3>2
    <3> QED BY <3>1, <3>3
  <2> QED BY <2>1, <2>2, <2>3 DEF LoopInv, Queued
<1>2. ASSUME NEW descriptor \in {<<>>, <<"read">>}, NEW expired \in BOOLEAN,
             PollWith(descriptor, expired), expired => Quiet
      PROVE  LoopInv'
  BY <1>2, PollLoop
<1>3. CASE TimerHandler
  <2>1. /\ ready = <<"timer", "task">> /\ txTimer = "idle" /\ requests # <<>>
        /\ pc = "loop"
    BY <1>3, ReadyFacts DEF LoopInv, TimerHandler, Dispatch
  <2>2. /\ ready' = <<"task">> /\ UNCHANGED <<rx, rxBuffer, pc>>
        /\ Resend("idle")
    BY <1>3, <2>1, ReadyFacts DEF TimerHandler, receiveVars
  <2>3. txTimer' = "armed" => requests' # <<>>
    BY <2>1, <2>2, ResendTimer
  <2>4. ~Queued("timer")' /\ ~Queued("read")'
    BY <2>2 DEF Queued
  <2> QED BY <2>1, <2>2, <2>3, <2>4 DEF LoopInv
<1>4. CASE ReadHandler
  <2>1. ready = <<"read", "task">>
    BY <1>4, ReadyFacts DEF LoopInv, ReadHandler, Dispatch
  <2>2. ready' = <<"task">> /\ pc' = "read" /\ UNCHANGED <<requests, txTimer>>
    BY <1>4, <2>1, ReadyFacts DEF ReadHandler, queueVars
  <2>3. ~Queued("timer")' /\ ~Queued("read")'
    BY <2>2 DEF Queued
  <2> QED BY <2>2, <2>3 DEF LoopInv
<1>5. CASE EndUpcall
  BY <1>5, InRead DEF EndUpcall, queueVars, LoopInv
<1>6. CASE Receive /\ ~Queued("error")'
  <2>1. PICK completion \in Completions(rx) : ready' = ready \o completion
    BY <1>6 DEF Receive
  <2>2. /\ ready = <<"task">> /\ pc' = "loop" /\ rxBuffer' = <<>>
        /\ UNCHANGED <<rx, requests, txTimer>>
    BY <1>6 DEF Receive, LoopInv, receiveVars, queueVars
  <2>3. CASE completion = <<>>
    <3>1. ready' = <<"task">>
      BY <2>1, <2>2, <2>3
    <3>2. ~Queued("timer")' /\ ~Queued("read")'
      BY <3>1 DEF Queued
    <3> QED BY <2>2, <3>1, <3>2 DEF LoopInv
  <2>4. CASE completion = <<"error">>
    <3>1. ready' = <<"task", "error">>
      BY <2>1, <2>2, <2>4, JoinFacts DEF Handlers
    <3>2. Queued("error")'
      BY <3>1 DEF Queued
    <3> QED BY <1>6, <3>2
  <2>5. CASE completion = <<"read">> /\ rx # <<>>
    <3>1. ready' = <<"task", "read">>
      BY <2>1, <2>2, <2>5, JoinFacts DEF Handlers
    <3>2. ~Queued("timer")'
      BY <3>1 DEF Queued
    <3> QED BY <2>2, <2>5, <3>1, <3>2 DEF LoopInv
  <2> QED BY <2>3, <2>4, <2>5 DEF Completions
<1>7. ASSUME ReadMessage
      PROVE  pc # "loop" /\ UNCHANGED ready /\ pc' \in {"read", "upcall"}
  BY <1>7 DEF ReadMessage, ReceiveAck, ReceiveNack, ReceiveCan, ReceiveGarbage,
              ReceiveSecondFrame, ReceiveResponse, ReceiveSendResponse, ReceiveStatus,
              ReceiveRequest, ReceiveOther, TakeFrame, Take, EndProcedure, Notify
<1>8. ASSUME ReadMessage
      PROVE  txTimer' = "armed" => requests' # <<>>
  <2> USE DEF LoopInv, queueVars, sendVars
  <2>1. CASE ReceiveAck
    BY <2>1 DEF ReceiveAck
  <2>2. CASE ReceiveNack
    BY <2>2, ResendTimer DEF ReceiveNack
  <2>3. CASE ReceiveCan \/ ReceiveGarbage \/ ReceiveSecondFrame
    BY <2>3 DEF ReceiveCan, ReceiveGarbage, ReceiveSecondFrame
  <2>4. CASE ReceiveResponse \/ ReceiveStatus
    BY <2>4, EndTimer DEF ReceiveResponse, ReceiveStatus, Pending
  <2>5. CASE ReceiveSendResponse \/ ReceiveRequest \/ ReceiveOther
    BY <2>5 DEF ReceiveSendResponse, ReceiveRequest, ReceiveOther
  <2> QED BY <1>8, <2>1, <2>2, <2>3, <2>4, <2>5 DEF ReadMessage
<1> QED
  BY <1>1, <1>2, <1>3, <1>4, <1>5, <1>6, <1>7, <1>8, InRead DEF HostStep, LoopStep

\* The dongle puts messages on the line and leaves the loop alone.
LEMMA DongleSteps ==
  ASSUME DongleStep \/ MakeReport
  PROVE  (\E m : Line(m)) \/ UNCHANGED vars
BY DEF DongleStep, MakeReport, TakeRequest, CancelRequest, MissRequest, TakeAck,
       TakeNack, SendFrame, SendAgain, PutFrame, StatusReturns

\* LoopInv is inductive.
LEMMA LoopStays ==
  ASSUME SystemTypeOK, LoopInv, [SystemNext]_systemVars
  PROVE  LoopInv'
<1>1. CASE Loop \/ Call
  BY <1>1, HostLoop DEF Loop, Call, HostStep, SystemTypeOK
<1>2. ASSUME NEW m, Line(m) PROVE LoopInv'
  <2>1. rx' # <<>> /\ UNCHANGED <<ready, requests, txTimer, pc, rxBuffer>>
    BY <1>2 DEF Line, queueVars, SystemTypeOK, TypeOK
  <2> QED BY <2>1 DEF LoopInv, Queued
<1>3. CASE UNCHANGED vars
  BY <1>3 DEF vars, LoopInv, Queued
<1>4. CASE UNCHANGED systemVars
  BY <1>3, <1>4 DEF systemVars
<1> QED BY <1>1, <1>2, <1>3, <1>4, DongleSteps DEF SystemNext

\* The timer is queued only when it is found expired ...
LEMMA PollKeepsTimer ==
  ASSUME TypeOK, LoopInv, NEW descriptor \in {<<>>, <<"read">>}, NEW expired \in BOOLEAN,
         PollWith(descriptor, expired), ~expired
  PROVE  Queued("timer")' => Queued("timer")
<1> DEFINE T == {"timer"}
           t == <<"task">>
<1>1. ready # <<>> /\ ready \in Seq(Handlers) /\ Tail(ready) \in Seq(Handlers)
  BY ReadyFacts DEF TypeOK, LoopInv
<1>2. ready' = (Tail(ready) \o descriptor) \o t
  BY DEF PollWith
<1>3. /\ descriptor \in Seq(Handlers) /\ t \in Seq(Handlers)
      /\ ~Has(descriptor, T) /\ ~Has(t, T)
  <2>1. ~Has(<<>>, T)
    BY EmptyHas
  <2>2. "task" \notin T /\ "read" \notin T
    OBVIOUS
  <2>3. ~Has(<<"task">>, T) /\ ~Has(<<"read">>, T)
    <3> HIDE DEF T
    <3> QED BY <2>2, SingleHas
  <2>4. descriptor \in Seq(Handlers) /\ t \in Seq(Handlers)
    <3>1. <<>> \in Seq(Handlers)
      OBVIOUS
    <3>2. <<"read">> \in Seq(Handlers) /\ <<"task">> \in Seq(Handlers)
      BY DEF Handlers
    <3> QED BY <3>1, <3>2
  <2> QED BY <2>1, <2>3, <2>4
<1> HIDE DEF T, t
<1>4. Has(ready', T) => Has(Tail(ready), T)
  <2>1. Tail(ready) \o descriptor \in Seq(Handlers)
    BY <1>1, <1>3
  <2> DEFINE u == Tail(ready) \o descriptor
  <2>2. Has(u, T) => Has(Tail(ready), T)
    BY <1>1, <1>3, ConcatHas
  <2> HIDE DEF u
  <2>3. Has(u \o t, T) => Has(u, T)
    BY <1>3, <2>1, ConcatHas DEF u
  <2> QED BY <1>2, <2>2, <2>3 DEF u
<1>5. Has(ready', T) => Has(ready, T)
  BY <1>1, <1>4, TailHas
<1> QED BY <1>5 DEF Has, Queued, T

\* ... and not by the read handler.
LEMMA ReadKeepsTimer ==
  ASSUME TypeOK, LoopInv, ReadHandler \/ EndUpcall \/ Receive \/ ReadMessage
  PROVE  Queued("timer")' => Queued("timer")
<1>1. CASE ReadMessage
  <2>1. UNCHANGED ready
    BY <1>1 DEF ReadMessage, ReceiveAck, ReceiveNack, ReceiveCan, ReceiveGarbage,
                ReceiveSecondFrame, ReceiveResponse, ReceiveSendResponse, ReceiveStatus,
                ReceiveRequest, ReceiveOther, TakeFrame, Take
  <2> QED BY <2>1 DEF Queued
<1>2. CASE ReadHandler
  <2>1. ready' = <<"task">>
    BY <1>2, ReadyFacts DEF LoopInv, ReadHandler, Dispatch
  <2> QED BY <2>1 DEF Queued
<1>3. CASE EndUpcall
  BY <1>3 DEF EndUpcall, Queued
<1>4. CASE Receive
  <2>1. PICK completion \in Completions(rx) : ready' = ready \o completion
    BY <1>4 DEF Receive
  <2>2. ready = <<"task">>
    BY <1>4 DEF Receive, LoopInv
  <2>3. ready' = <<"task">> \/ ready' = <<"task", "error">> \/ ready' = <<"task", "read">>
    BY <2>1, <2>2, JoinFacts DEF Completions, Handlers
  <2> QED BY <2>3 DEF Queued
<1> QED BY <1>1, <1>2, <1>3, <1>4

\* The event loop keeps its shape.
LEMMA LoopCorrect == SystemSpec => []LoopInv
<1>1. SystemInit => LoopInv
  BY ReadyFacts DEF SystemInit, Init, LoopInv
<1> QED BY <1>1, LoopStays, SystemTypes, PTL DEF SystemSpec

\* As long as the timer expires only when nothing is under way (Quiet in
\* SystemNext: the host is never stalled for RESPONSE_TIMEOUT), and at a dongle
\* that keeps the protocol, resendRequest never finds the queue empty: the timer
\* runs only for a request in the queue, and between its expiry and its handler
\* no read handler comes that could end the request.
THEOREM DefinedCorrect == SystemSpec => []Defined
<1>1. LoopInv => Defined
  BY DEF LoopInv, Defined
<1> QED BY <1>1, LoopCorrect, PTL

-----------------------------------------------------------------------------
(* Frames and their acknowledgements *)

Tokens  == Frame \cup {Corrupt}
Replies == {Ack, Nack}

\* Of a frame that awaits its acknowledgement there is one trace on the line at
\* most: the frame, what is left of it, or the host's answer to it.
TokenInv ==
  /\ Once(line, Tokens)
  /\ Once(toDongle, Replies)
  /\ ~(Has(line, Tokens) /\ Has(toDongle, Replies))
  /\ Has(line, Tokens) \/ Has(toDongle, Replies) => awaiting
  /\ ~Has(line, Frame \ {Head(outbox)})

\* A larger set of kinds has what a smaller one has.
LEMMA HasMore ==
  ASSUME NEW s, NEW kind, NEW more, kind \subseteq more, Has(s, kind)
  PROVE  Has(s, more)
BY DEF Has

\* Messages of different kinds differ.
LEMMA KindFacts ==
  /\ \A f \in HostFrames : f \notin Replies /\ f # Ack
  /\ Ack \in Replies /\ Nack \in Replies /\ Ack # Nack
  /\ Ack \notin Tokens /\ Nack \notin Tokens /\ [msg |-> "CAN"] \notin Tokens
  /\ Corrupt \in Tokens /\ Corrupt \notin Frame
<1>1. /\ Ack.msg = "ACK" /\ Nack.msg = "NACK" /\ Corrupt.msg = "CORRUPT"
      /\ [msg |-> "CAN"].msg = "CAN"
      /\ \A f \in HostFrames : f.msg = "SOF"
      /\ \A f \in Frame : f.msg = "SOF"
  BY DEF Ack, Nack, Corrupt, HostFrames, Frame
<1> QED BY <1>1 DEF Replies, Tokens

\* The replies among what the host writes.
LEMMA WritesHas ==
  /\ Writes(<<>>) => ~Has(written', Replies) /\ ~Has(written', {Ack})
  /\ Writes(<<Ack>>) => Has(written', Replies) /\ Has(written', {Ack})
                        /\ Once(written', Replies)
<1>1. ASSUME NEW f \in HostFrames, written' = Append(<<>>, f)
      PROVE  ~Has(written', Replies) /\ ~Has(written', {Ack})
  <2>1. written' = <<f>>
    BY <1>1
  <2> QED BY <2>1, KindFacts, SingleHas
<1>2. ASSUME NEW f \in HostFrames, written' = Append(<<Ack>>, f)
      PROVE  Has(written', Replies) /\ Has(written', {Ack}) /\ Once(written', Replies)
  <2> DEFINE s == <<Ack>>
  <2>1. s \in Seq(HostMessages) /\ f \in HostMessages
    BY DEF HostMessages
  <2>2. f \notin Replies /\ Ack \in Replies /\ Ack \in {Ack}
    BY KindFacts
  <2>3. Has(s, Replies) /\ Has(s, {Ack}) /\ Once(s, Replies)
    BY <2>2, SingleHas
  <2> HIDE DEF s
  <2>4. /\ Has(Append(s, f), Replies) /\ Has(Append(s, f), {Ack})
        /\ Once(Append(s, f), Replies)
    BY <2>1, <2>2, <2>3, AppendHas
  <2> QED BY <1>2, <2>4 DEF s
<1>3. ASSUME written' = <<Ack>>
      PROVE  Has(written', Replies) /\ Has(written', {Ack}) /\ Once(written', Replies)
  BY <1>3, KindFacts, SingleHas
<1>4. ASSUME written' = <<>> PROVE ~Has(written', Replies) /\ ~Has(written', {Ack})
  BY <1>4, EmptyHas
<1> QED BY <1>1, <1>2, <1>3, <1>4 DEF Writes

\* Messages the host drops from the front of the line.
LEMMA DropsHas ==
  ASSUME TypeOK, DropsSome, NEW kind
  PROVE  /\ Has(line', kind) => Has(line, kind)
         /\ Once(line, kind) => Once(line', kind)
         /\ Once(line, kind) /\ Head(line) \in kind => ~Has(line', kind)
<1>1. PICK n \in 1..Len(line) : line' = SubSeq(line, n + 1, Len(line))
  BY DEF DropsSome
<1>2. n \in 0..Len(line) /\ n > 0 /\ line \in Seq(Message)
  BY LineType
<1> HIDE DEF line
<1> QED BY <1>1, <1>2, SuffixHas

\* The host answers the frame it takes, and no other.
LEMMA HostTokens ==
  ASSUME SystemTypeOK, TokenInv, HostStep, OnTheWire
  PROVE  TokenInv'
<1>1. /\ toDongle' = toDongle \o written' /\ outbox' = outbox /\ awaiting' = awaiting
      /\ toDongle \in Seq(HostMessages) /\ written' \in Seq(HostMessages)
      /\ line \in Seq(Message) /\ TypeOK
  BY WrittenType, LineType DEF OnTheWire, SystemTypeOK, DongleTypeOK
<1> HIDE DEF line
<1>2. /\ Has(toDongle', Replies) <=> Has(toDongle, Replies) \/ Has(written', Replies)
      /\ Once(toDongle, Replies) /\ Once(written', Replies)
           /\ ~(Has(toDongle, Replies) /\ Has(written', Replies)) => Once(toDongle', Replies)
  BY <1>1, ConcatHas
<1>3. Once(written', Replies) /\ LineKinds
  <2>1. LineKinds
    BY <1>1, HostLine
  <2>2. Once(written', Replies) \/ ~Has(written', Replies)
    BY <2>1, WritesHas, SingleHas, KindFacts DEF LineKinds
  <2> QED BY <2>1, <2>2 DEF Has, Once
<1>4. CASE line' = line /\ Writes(<<>>)
  BY <1>1, <1>2, <1>3, <1>4, WritesHas DEF TokenInv
<1>5. CASE line # <<>> /\ Head(line) \in Frame /\ line' = Tail(line) /\ Writes(<<Ack>>)
  <2>1. Head(line) \in Tokens
    BY <1>5 DEF Tokens
  <2>2. Has(line, Tokens) /\ ~Has(line', Tokens)
    BY <1>1, <1>5, <2>1, TailHas DEF TokenInv
  <2>3. Once(line', Tokens) /\ ~Has(line', Frame \ {Head(outbox)})
    BY <2>2 DEF Has, Once, Tokens
  <2> QED BY <1>1, <1>2, <1>3, <1>5, <2>2, <2>3 DEF TokenInv
<1>6. CASE DropsSome /\ Writes(<<>>)
  <2>1. /\ Has(line', Tokens) => Has(line, Tokens)
        /\ Once(line', Tokens) /\ ~Has(line', Frame \ {Head(outbox)})
    BY <1>1, <1>6, DropsHas DEF TokenInv
  <2> QED BY <1>1, <1>2, <1>3, <1>6, <2>1, WritesHas DEF TokenInv
<1>7. CASE DropsSome /\ Head(line) = Corrupt /\ written' = <<Nack>>
  <2>1. Head(line) \in Tokens /\ line # <<>>
    BY <1>1, <1>7, KindFacts DEF DropsSome
  <2>2. Has(line, Tokens) /\ ~Has(line', Tokens)
    BY <1>1, <1>7, <2>1, TailHas, DropsHas DEF TokenInv
  <2>3. Once(line', Tokens) /\ ~Has(line', Frame \ {Head(outbox)})
    BY <2>2 DEF Has, Once, Tokens
  <2> QED BY <1>1, <1>2, <1>3, <1>7, <2>2, <2>3 DEF TokenInv
<1> QED BY <1>3, <1>4, <1>5, <1>6, <1>7 DEF LineKinds

\* The same when the dongle takes what the host has sent: its answer is gone ...
LEMMA ArriveHas ==
  ASSUME SystemTypeOK, NEW msg, Arrives(msg), NEW kind
  PROVE  /\ Has(toDongle, kind) <=> Head(toDongle) \in kind \/ Has(toDongle', kind)
         /\ Once(toDongle, kind) => Once(toDongle', kind)
         /\ Once(toDongle, kind) /\ Head(toDongle) \in kind => ~Has(toDongle', kind)
BY TailHas DEF SystemTypeOK, DongleTypeOK, Arrives

\* ... and when it puts something on the line.
LEMMA LineHas ==
  ASSUME TypeOK, NEW m \in Message, Line(m), NEW kind
  PROVE  /\ Has(line', kind) <=> Has(line, kind) \/ m \in kind
         /\ Once(line, kind) /\ ~(Has(line, kind) /\ m \in kind) => Once(line', kind)
<1>1. rxBuffer \in Seq(Message) /\ rx \in Seq(Message) /\ line \in Seq(Message)
  BY LineType DEF TypeOK
<1>2. line' = Append(line, m)
  <2>1. line' = rxBuffer \o Append(rx, m)
    BY DEF Line, line
  <2> QED BY <1>1, <2>1, ConcatAppend DEF line
<1> HIDE DEF line
<1> QED BY <1>1, <1>2, AppendHas

\* While nothing is put on the line it is as it was.
LEMMA LineSame == UNCHANGED vars => line' = line
BY DEF vars, line

\* A frame that is lost has left no trace.
LEMMA LostHas ==
  ASSUME SystemTypeOK, LoopInv, FrameLost
  PROVE  ~Has(line, Tokens) /\ ~Has(toDongle, Replies)
<1>1. line = rx
  BY LineType DEF LoopInv, FrameLost, SystemTypeOK
<1>2. \A m \in Tokens : m.msg \in {"SOF", "CORRUPT"}
  BY DEF Tokens, Frame, Corrupt
<1>3. \A m \in Replies : m.msg \in {"ACK", "NACK"}
  BY DEF Replies, Ack, Nack
<1> HIDE DEF line
<1> QED BY <1>1, <1>2, <1>3 DEF Has, FrameLost

\* TokenInv holds when no trace is left.
LEMMA NoTokens ==
  ASSUME ~Has(line, Tokens), ~Has(toDongle, Replies)
  PROVE  TokenInv
BY HasMore DEF TokenInv, Has, Once, Tokens

\* The frame at the front stays there when others are put behind it.
LEMMA OutboxFront ==
  ASSUME SystemTypeOK, TokenInv, NEW f \in DongleFrames, outbox' = Append(outbox, f),
         UNCHANGED <<toDongle, awaiting>>, line' = line
  PROVE  TokenInv'
<1>1. outbox # <<>> => Head(outbox') = Head(outbox)
  BY DEF SystemTypeOK, DongleTypeOK
<1>2. CASE outbox # <<>>
  BY <1>1, <1>2 DEF TokenInv
<1>3. CASE outbox = <<>>
  <2>1. ~Has(line', Tokens) /\ ~Has(toDongle', Replies)
    BY <1>3 DEF TokenInv, SystemTypeOK, DongleTypeOK
  <2> QED BY <2>1 DEF TokenInv, Has, Once, Tokens
<1> QED BY <1>2, <1>3

\* A frame goes on the line only when no trace of it is left there.
LEMMA PutTokens ==
  ASSUME SystemTypeOK, ~Has(line, Tokens), ~Has(toDongle, Replies), outbox # <<>>,
         PutFrame, UNCHANGED <<toDongle, outbox>>, awaiting'
  PROVE  TokenInv'
<1>0. Head(outbox) \in Frame /\ Head(outbox) \in Message /\ TypeOK
      /\ [msg |-> "CORRUPT"] \in Message
  BY FramesAreMessages DEF SystemTypeOK, DongleTypeOK
<1>1. CASE Line(Head(outbox))
  <2>1. Once(line', Tokens) /\ Head(outbox) \notin Frame \ {Head(outbox)}
    BY <1>0, <1>1, LineHas DEF Has, Once
  <2>2. ~Has(line', Frame \ {Head(outbox)})
    <3>1. ~Has(line, Frame \ {Head(outbox)})
      BY DEF Has, Tokens
    <3> QED BY <1>0, <1>1, <2>1, <3>1, LineHas
  <2> QED BY <2>1, <2>2 DEF TokenInv, Has, Once
<1>2. CASE UNCHANGED vars
  <2>1. line' = line
    BY <1>2, LineSame
  <2> QED BY <2>1 DEF TokenInv, Has, Once, Tokens
<1>3. CASE Line([msg |-> "CORRUPT"])
  <2>1. Once(line', Tokens)
    BY <1>0, <1>3, LineHas DEF Has, Once
  <2>2. ~Has(line', Frame \ {Head(outbox)})
    <3>1. ~Has(line, Frame \ {Head(outbox)}) /\ [msg |-> "CORRUPT"] \notin Frame
      BY DEF Has, Tokens, Frame
    <3> QED BY <1>0, <1>3, <3>1, LineHas
  <2> QED BY <2>1, <2>2 DEF TokenInv, Has, Once
<1> QED BY <1>1, <1>2, <1>3 DEF PutFrame

\* TokenInv is inductive when no frame is sent again that is not lost.
LEMMA TokenStep ==
  ASSUME "late" \notin Faults, SystemTypeOK, LoopInv, TokenInv, [SystemNext]_systemVars
  PROVE  TokenInv'
<1>0. TypeOK /\ [msg |-> "CAN"] \in Message /\ Ack \in Message /\ Nack \in Message
      /\ DongleFrames \subseteq Message
  BY FramesAreMessages DEF SystemTypeOK
<1> HIDE DEF line
<1>1. CASE Loop \/ Call
  BY <1>1, HostTokens DEF Loop, Call, HostStep
<1>2. ASSUME NEW m \in {Ack, Nack, [msg |-> "CAN"]}, UNCHANGED vars \/ Line(m)
      PROVE  /\ Has(line', Tokens) <=> Has(line, Tokens)
             /\ Once(line, Tokens) => Once(line', Tokens)
             /\ ~Has(line, Frame \ {Head(outbox)}) => ~Has(line', Frame \ {Head(outbox)})
  <2>1. m \notin Tokens /\ m \notin Frame /\ m \in Message
    BY <1>0, KindFacts DEF Tokens
  <2>2. CASE UNCHANGED vars
    BY <2>2, LineSame
  <2>3. CASE Line(m)
    BY <1>0, <2>1, <2>3, LineHas
  <2> QED BY <1>2, <2>2, <2>3
<1>3. ASSUME NEW msg, Arrives(msg), UNCHANGED awaiting,
             NEW m \in {Ack, Nack, [msg |-> "CAN"]}, UNCHANGED vars \/ Line(m),
             outbox' = outbox \/ ~awaiting
      PROVE  TokenInv'
  <2>1. /\ Has(toDongle', Replies) => Has(toDongle, Replies)
        /\ Once(toDongle', Replies)
    BY <1>3, ArriveHas DEF TokenInv
  <2>2. /\ Has(line', Tokens) <=> Has(line, Tokens)
        /\ Once(line', Tokens)
        /\ ~Has(line', Frame \ {Head(outbox)})
    BY <1>2, <1>3 DEF TokenInv
  <2>3. CASE outbox' = outbox
    BY <1>3, <2>1, <2>2, <2>3 DEF TokenInv
  <2>4. CASE ~awaiting
    <3>1. ~Has(line', Tokens) /\ ~Has(toDongle', Replies)
      BY <2>1, <2>2, <2>4 DEF TokenInv
    <3> QED BY <3>1 DEF TokenInv, Has, Once, Tokens
  <2> QED BY <1>3, <2>3, <2>4
<1>4. CASE TakeRequest
  BY <1>3, <1>4 DEF TakeRequest
<1>5. CASE CancelRequest
  BY <1>3, <1>5 DEF CancelRequest
<1>6. CASE MissRequest
  BY <1>3, <1>6 DEF MissRequest
<1>7. CASE TakeAck \/ TakeNack
  <2>1. Head(toDongle) \in Replies /\ toDongle # <<>>
    <3>1. Head(toDongle).msg \in {"ACK", "NACK"} /\ Head(toDongle) \in HostMessages
          /\ toDongle # <<>>
      BY <1>7 DEF TakeAck, TakeNack, Arrives, SystemTypeOK, DongleTypeOK
    <3> QED BY <3>1 DEF HostMessages, HostFrames, Replies
  <2>2. PICK msg : Arrives(msg)
    BY <1>7 DEF TakeAck, TakeNack
  <2>3. Has(toDongle, Replies) /\ ~Has(toDongle', Replies)
    BY <2>1, <2>2, ArriveHas DEF TokenInv
  <2>4. UNCHANGED vars /\ ~Has(line', Tokens)
    <3>1. UNCHANGED vars
      BY <1>7 DEF TakeAck, TakeNack
    <3> QED BY <2>3, <3>1, LineSame DEF TokenInv
  <2> QED BY <2>3, <2>4 DEF TokenInv, Has, Once, Tokens
<1>8. CASE SendFrame
  <2>1. ~Has(line, Tokens) /\ ~Has(toDongle, Replies)
    BY <1>8 DEF SendFrame, TokenInv
  <2> QED BY <1>8, <2>1, PutTokens DEF SendFrame
<1>9. CASE SendAgain
  <2>1. FrameLost /\ PutFrame /\ UNCHANGED <<toDongle, outbox, awaiting>> /\ awaiting
    BY <1>9 DEF SendAgain, Fault
  <2>2. outbox # <<>> /\ awaiting'
    BY <2>1 DEF SystemTypeOK, DongleTypeOK
  <2> QED BY <2>1, <2>2, LostHas, PutTokens
<1>10. CASE StatusReturns \/ MakeReport
  <2>1. \E f \in DongleFrames : outbox' = Append(outbox, f)
    BY <1>10 DEF StatusReturns, MakeReport, SystemTypeOK, DongleTypeOK, DongleFrames,
                 ReportFrames
  <2>2. UNCHANGED <<toDongle, awaiting>> /\ line' = line
    BY <1>10, LineSame DEF StatusReturns, MakeReport
  <2> QED BY <2>1, <2>2, OutboxFront
<1>11. CASE UNCHANGED systemVars
  <2>1. UNCHANGED <<vars, toDongle, outbox, awaiting>>
    BY <1>11 DEF systemVars, dongleVars
  <2> QED BY <2>1, LineSame DEF TokenInv
<1> QED
  BY <1>1, <1>4, <1>5, <1>6, <1>7, <1>8, <1>9, <1>10, <1>11 DEF SystemNext, DongleStep

\* Nothing is on the way at the start.
LEMMA TokenInit == SystemInit => TokenInv
<1> SUFFICES ASSUME SystemInit PROVE TokenInv
  OBVIOUS
<1>1. line = <<>> /\ toDongle = <<>>
  BY DEF SystemInit, Init, line
<1> HIDE DEF line
<1> QED BY <1>1, EmptyHas DEF TokenInv

\* Once the dongle is told that a report has arrived, it has.
ReportInv ==
  /\ \A p \in Reports : Has(toDongle, {Ack}) /\ Head(outbox) = Report(p) => p \in reported
  /\ ConfirmedReportsArrived

\* A report the host acknowledges is passed to onRequest: it has a function no
\* request has.
LEMMA ReportTaken ==
  ASSUME TypeOK, OnTheWire, TakesFrame, NEW p \in Reports, Head(rxBuffer) = Report(p)
  PROVE  p \in reported'
<1>1. /\ Report(p).type = "REQUEST" /\ Report(p).function = ReportFunction
      /\ Report(p).data = p
  BY DEF Report, DongleFrame
<1>2. ~Pending(Head(rxBuffer))
  <2>1. requests # <<>> => Function[Head(requests)] # ReportFunction
    BY DongleAssumption DEF TypeOK
  <2> QED BY <1>1, <2>1 DEF Pending
<1>3. ReceiveRequest
  BY <1>1, <1>2 DEF TakesFrame, ReceiveResponse, ReceiveSendResponse, ReceiveStatus,
                    ReceiveOther, TakeFrame
<1> QED BY <1>1, <1>3 DEF OnTheWire

\* ReportInv is inductive.
LEMMA ReportStep ==
  ASSUME SystemTypeOK, TokenInv, ReportInv, [SystemNext]_systemVars
  PROVE  ReportInv'
<1> USE DEF ConfirmedReportsArrived
<1>1. CASE Loop \/ Call
  <2>1. HostStep /\ OnTheWire /\ TypeOK
    BY <1>1 DEF Loop, Call, HostStep, SystemTypeOK
  <2>2. /\ UNCHANGED <<outbox, confirmed>> /\ reported \subseteq reported'
        /\ toDongle' = toDongle \o written'
    BY <2>1 DEF OnTheWire
  <2>3. Has(toDongle', {Ack}) => Has(toDongle, {Ack}) \/ Has(written', {Ack})
    BY <2>1, <2>2, WrittenType, ConcatHas DEF SystemTypeOK, DongleTypeOK
  <2>4. ASSUME NEW p \in Reports, Has(written', {Ack}), Head(outbox) = Report(p)
        PROVE  p \in reported'
    <3>1. LineKinds /\ ~Writes(<<>>) /\ written' # <<Nack>>
      BY <2>1, <2>4, HostLine, WritesHas, KindFacts, SingleHas
    <3>2. /\ TakesFrame /\ line # <<>> /\ Head(line) \in Frame
          /\ Head(line) = Head(rxBuffer)
      BY <3>1 DEF LineKinds
    <3>3. Head(line) = Head(outbox)
      <4>1. line \in Seq(Message) /\ ~Has(line, Frame \ {Head(outbox)})
        BY <2>1, LineType DEF TokenInv
      <4> HIDE DEF line
      <4> QED BY <3>2, <4>1, TailHas
    <3> QED BY <2>1, <2>4, <3>2, <3>3, ReportTaken
  <2> QED BY <2>2, <2>3, <2>4 DEF ReportInv
<1>2. CASE TakeAck
  <2>1. Head(toDongle) = Ack /\ Head(toDongle) \in Replies /\ toDongle # <<>>
    <3>1. Head(toDongle).msg = "ACK" /\ Head(toDongle) \in HostMessages /\ toDongle # <<>>
      BY <1>2 DEF TakeAck, Arrives, SystemTypeOK, DongleTypeOK
    <3> QED BY <3>1 DEF HostMessages, HostFrames, Replies, Nack
  <2>2. Has(toDongle, {Ack}) /\ ~Has(toDongle', {Ack})
    <3>1. Arrives("ACK") /\ {Ack} \subseteq Replies
      BY <1>2 DEF TakeAck, Replies
    <3>2. ~Has(toDongle', Replies)
      BY <2>1, <3>1, ArriveHas DEF TokenInv
    <3>3. Has(toDongle, {Ack})
      BY <2>1, <3>1, ArriveHas
    <3> QED BY <3>1, <3>2, <3>3, HasMore
  <2>3. confirmed' = confirmed \/ confirmed' = confirmed \cup {Head(outbox)}
    BY <1>2 DEF TakeAck
  <2>4. reported' = reported
    BY <1>2 DEF TakeAck, Arrives
  <2> QED BY <2>2, <2>3, <2>4 DEF ReportInv
<1>3. CASE TakeRequest \/ CancelRequest \/ MissRequest \/ TakeNack
  <2>1. PICK msg : Arrives(msg)
    BY <1>3 DEF TakeRequest, CancelRequest, MissRequest, TakeNack
  <2>2. Has(toDongle', {Ack}) => Has(toDongle, {Ack}) /\ Has(toDongle, Replies)
    <3>1. {Ack} \subseteq Replies
      BY DEF Replies
    <3> QED BY <2>1, <3>1, ArriveHas, HasMore
  <2>3. UNCHANGED <<confirmed, reported>>
    BY <1>3 DEF TakeRequest, CancelRequest, MissRequest, TakeNack, Arrives
  <2>4. outbox' = outbox \/ ~awaiting
    BY <1>3 DEF TakeRequest, CancelRequest, MissRequest, TakeNack
  <2> QED BY <2>2, <2>3, <2>4 DEF ReportInv, TokenInv
<1>4. CASE SendFrame \/ SendAgain
  <2>1. UNCHANGED <<toDongle, outbox, confirmed, reported>>
    BY <1>4 DEF SendFrame, SendAgain
  <2> QED BY <2>1 DEF ReportInv
<1>5. CASE StatusReturns \/ MakeReport
  <2>1. UNCHANGED <<toDongle, confirmed, reported>> /\ \E f : outbox' = Append(outbox, f)
    BY <1>5 DEF StatusReturns, MakeReport
  <2>2. Has(toDongle, {Ack}) => outbox # <<>>
    <3>1. {Ack} \subseteq Replies
      BY DEF Replies
    <3> QED BY <3>1, HasMore DEF TokenInv, SystemTypeOK, DongleTypeOK
  <2>3. outbox # <<>> => Head(outbox') = Head(outbox)
    BY <2>1 DEF SystemTypeOK, DongleTypeOK
  <2> QED BY <2>1, <2>2, <2>3 DEF ReportInv
<1>6. CASE UNCHANGED systemVars
  BY <1>6 DEF systemVars, dongleVars, ReportInv
<1> QED BY <1>1, <1>2, <1>3, <1>4, <1>5, <1>6 DEF SystemNext, DongleStep

\* A frame that waits for its ACK has one trace on the line at most.
LEMMA TokenCorrect ==
  ASSUME "late" \notin Faults
  PROVE  SystemSpec => []TokenInv
<1>1. SystemTypeOK /\ LoopInv /\ TokenInv /\ [SystemNext]_systemVars => TokenInv'
  BY TokenStep
<1> QED BY <1>1, TokenInit, SystemTypes, LoopCorrect, PTL DEF SystemSpec

\* A report the dongle need not send again was passed to onRequest, whatever is
\* lost or garbled on the line, unless the dongle sends a frame again that is
\* not lost: then the ACK of the first copy may count for the next report.
THEOREM ReportsCorrect ==
  ASSUME "late" \notin Faults
  PROVE  SystemSpec => []ConfirmedReportsArrived
<1>1. SystemInit => ReportInv
  BY EmptyHas DEF SystemInit, ReportInv, ConfirmedReportsArrived
<1>2. SystemTypeOK /\ TokenInv /\ ReportInv /\ [SystemNext]_systemVars => ReportInv'
  BY ReportStep
<1>3. ReportInv => ConfirmedReportsArrived
  BY DEF ReportInv
<1>4. SystemSpec => []TokenInv
  BY TokenCorrect
<1> QED BY <1>1, <1>2, <1>3, <1>4, SystemTypes, PTL DEF SystemSpec

-----------------------------------------------------------------------------
(* Requests and the answers to them *)

\* Frames the host has not yet acknowledged.
Unseen == IF Has(toDongle, {Ack}) THEN Tail(outbox) ELSE outbox

\* One kind of message comes before another.
Before(s, first, second) ==
  \A i, j \in 1..Len(s) : s[i] \in first /\ s[j] \in second => i < j

\* The order of a sequence to which something is appended ...
LEMMA AppendBefore ==
  ASSUME NEW S, NEW s \in Seq(S), NEW m \in S, NEW first, NEW second, Before(s, first, second),
         m \in first => m \notin second /\ ~Has(s, second)
  PROVE  Before(Append(s, m), first, second)
<1>1. /\ Len(Append(s, m)) = Len(s) + 1 /\ Len(s) \in Nat
      /\ \A i \in 1..Len(s) : Append(s, m)[i] = s[i]
      /\ Append(s, m)[Len(s) + 1] = m
  OBVIOUS
<1>2. ASSUME NEW i \in 1..Len(Append(s, m)), NEW j \in 1..Len(Append(s, m)),
             Append(s, m)[i] \in first, Append(s, m)[j] \in second
      PROVE  i < j
  <2>1. CASE i \in 1..Len(s) /\ j \in 1..Len(s)
    BY <1>1, <1>2, <2>1 DEF Before
  <2>2. CASE i \in 1..Len(s) /\ j = Len(s) + 1
    BY <1>1, <2>2
  <2>3. CASE i = Len(s) + 1
    BY <1>1, <1>2, <2>3 DEF Has
  <2> QED BY <1>1, <2>1, <2>2, <2>3
<1> QED BY <1>2 DEF Before

\* ... or from which the front is taken.
LEMMA TailBefore ==
  ASSUME NEW S, NEW s \in Seq(S), s # <<>>, NEW first, NEW second, Before(s, first, second)
  PROVE  /\ Before(Tail(s), first, second)
         /\ Head(s) \in second => ~Has(s, first)
<1>1. /\ 1 \in 1..Len(s) /\ Head(s) = s[1] /\ Len(s) \in Nat
      /\ \A i \in 1..Len(Tail(s)) : Tail(s)[i] = s[i + 1] /\ i + 1 \in 1..Len(s)
      /\ Len(Tail(s)) = Len(s) - 1
  OBVIOUS
<1>2. ASSUME NEW i \in 1..Len(Tail(s)), NEW j \in 1..Len(Tail(s)),
             Tail(s)[i] \in first, Tail(s)[j] \in second
      PROVE  i < j
  <2>1. i + 1 < j + 1
    BY <1>1, <1>2 DEF Before
  <2> QED BY <1>1, <2>1
<1>3. ASSUME Head(s) \in second, NEW i \in 1..Len(s), s[i] \in first PROVE FALSE
  <2>1. i < 1
    BY <1>1, <1>3 DEF Before
  <2> QED BY <1>1, <2>1
<1> QED BY <1>2, <1>3 DEF Before, Has

\* The dongle has to send frames.
LEMMA UnseenType ==
  ASSUME SystemTypeOK, TokenInv
  PROVE  /\ Unseen \in Seq(DongleFrames)
         /\ Has(toDongle, {Ack}) => outbox # <<>> /\ awaiting
<1>1. Has(toDongle, {Ack}) => Has(toDongle, Replies)
  BY HasMore, KindFacts
<1> QED BY <1>1 DEF Unseen, TokenInv, SystemTypeOK, DongleTypeOK

\* The frame the host takes is the first one it has not acknowledged.
LEMMA TakenIsUnseen ==
  ASSUME SystemTypeOK, TokenInv, line # <<>>, Head(line) \in Frame
  PROVE  /\ ~Has(toDongle, {Ack}) /\ Unseen = outbox /\ outbox # <<>>
         /\ Head(line) = Head(Unseen)
<1>1. Head(line) \in Tokens /\ line \in Seq(Message)
  BY LineType DEF Tokens, SystemTypeOK
<1>2. Has(line, Tokens) /\ (Has(line, Frame \ {Head(outbox)}) \/ Head(line) = Head(outbox))
  <2> HIDE DEF line
  <2> QED BY <1>1, TailHas
<1>3. ~Has(toDongle, {Ack})
  BY <1>2, HasMore, KindFacts DEF TokenInv
<1> QED BY <1>2, <1>3 DEF Unseen, TokenInv, SystemTypeOK, DongleTypeOK

\* What each step of the host does to the frames not acknowledged ...
LEMMA HostUnseen ==
  ASSUME SystemTypeOK, TokenInv, HostStep, OnTheWire
  PROVE  /\ Has(written', {Ack}) => /\ TakesFrame
                                    /\ Unseen # <<>> /\ Head(Unseen) = Head(rxBuffer)
                                    /\ Unseen' = Tail(Unseen)
         /\ ~Has(written', {Ack}) => Unseen' = Unseen
<1>1. /\ toDongle \in Seq(HostMessages) /\ written' \in Seq(HostMessages)
      /\ toDongle' = toDongle \o written' /\ outbox' = outbox /\ TypeOK
  BY WrittenType DEF OnTheWire, SystemTypeOK, DongleTypeOK
<1>2. Has(toDongle', {Ack}) <=> Has(toDongle, {Ack}) \/ Has(written', {Ack})
  BY <1>1, ConcatHas
<1>3. ASSUME Has(written', {Ack})
      PROVE  TakesFrame /\ line # <<>> /\ Head(line) \in Frame /\ Head(line) = Head(rxBuffer)
  <2>1. LineKinds /\ ~Writes(<<>>) /\ written' # <<Nack>>
    BY <1>1, <1>3, HostLine, WritesHas, KindFacts, SingleHas
  <2> QED BY <2>1 DEF LineKinds
<1>4. ASSUME Has(written', {Ack})
      PROVE  Unseen # <<>> /\ Head(Unseen) = Head(rxBuffer) /\ Unseen' = Tail(Unseen)
  BY <1>1, <1>2, <1>3, <1>4, TakenIsUnseen DEF Unseen
<1> QED BY <1>1, <1>2, <1>3, <1>4 DEF Unseen

\* ... and each step of the dongle.
LEMMA ArriveUnseen ==
  ASSUME SystemTypeOK, TokenInv, NEW msg, Arrives(msg), Head(toDongle) # Ack
  PROVE  /\ outbox' = outbox => Unseen' = Unseen
         /\ ~awaiting => Unseen = outbox /\ Unseen' = outbox'
<1>1. Has(toDongle', {Ack}) <=> Has(toDongle, {Ack})
  BY ArriveHas
<1> QED BY <1>1, UnseenType DEF Unseen

\* Once the dongle has the ACK the frame leaves it.
LEMMA AckUnseen ==
  ASSUME "hostAck" \notin Faults, SystemTypeOK, TokenInv, TakeAck
  PROVE  Unseen' = Unseen
<1>1. Arrives("ACK") /\ Head(toDongle) = Ack
  <2>1. Head(toDongle).msg = "ACK" /\ Head(toDongle) \in HostMessages /\ toDongle # <<>>
    BY DEF TakeAck, Arrives, SystemTypeOK, DongleTypeOK
  <2> QED BY <2>1 DEF HostMessages, HostFrames, Nack, TakeAck
<1>2. Has(toDongle, {Ack}) /\ ~Has(toDongle', {Ack})
  <2>1. {Ack} \subseteq Replies /\ Head(toDongle) \in Replies
    BY <1>1 DEF Replies
  <2>2. ~Has(toDongle', Replies)
    BY <1>1, <2>1, ArriveHas DEF TokenInv
  <2> QED BY <1>1, <2>1, <2>2, ArriveHas, HasMore
<1>3. outbox' = Tail(outbox)
  BY <1>2, UnseenType DEF TakeAck, Fault
<1> QED BY <1>2, <1>3 DEF Unseen

\* What the dongle has to send comes after what it had to send before.
LEMMA AppendUnseen ==
  ASSUME SystemTypeOK, TokenInv, NEW f \in DongleFrames, outbox' = Append(outbox, f),
         UNCHANGED toDongle
  PROVE  Unseen' = Append(Unseen, f)
<1>1. CASE Has(toDongle, {Ack})
  <2>1. outbox # <<>> /\ outbox \in Seq(DongleFrames)
    BY <1>1, UnseenType DEF SystemTypeOK, DongleTypeOK
  <2>2. Tail(Append(outbox, f)) = Append(Tail(outbox), f)
    BY <2>1, HeadTailAppend
  <2> QED BY <1>1, <2>2 DEF Unseen
<1>2. CASE ~Has(toDongle, {Ack})
  BY <1>2 DEF Unseen
<1> QED BY <1>1, <1>2

-----------------------------------------------------------------------------
(* One exchange at a time *)

\* The request on the wire and the number it was sent with last.
Cur    == Head(requests)
LastId == IF Cur \in SendRequests THEN funcId[Cur] ELSE NoFuncId

\* Is status m still to come?
Coming(m) == m \in network \/ Has(Unseen, {m})

\* No message of an exchange is on its way.
NoneLeft == ~Has(toDongle, HostFrames) /\ ~Has(line, {Nack}) /\ ~Has(Unseen, Responses)

\* Of the exchange with the dongle one message is on its way at most: the frame
\* of the current request, the refusal of it, or the response to it.  When the
\* timer has expired there is none.
ExchangeInv ==
  /\ Once(toDongle, HostFrames) /\ Once(line, {Nack}) /\ Once(Unseen, Responses)
  /\ ~(Has(toDongle, HostFrames) /\ Has(line, {Nack}))
  /\ ~(Has(toDongle, HostFrames) /\ Has(Unseen, Responses))
  /\ ~(Has(line, {Nack}) /\ Has(Unseen, Responses))
  /\ Has(toDongle, HostFrames) \/ Has(line, {Nack}) \/ Has(Unseen, Responses) =>
       requests # <<>> /\ ~Queued("timer")
  /\ ~Has(toDongle, HostFrames \ {RequestFrame(Cur, LastId)})
  /\ ~Has(Unseen, {m \in Responses : m.data # Cur})

\* A status that carries the number of the current request is the one of that
\* request; the dongle has taken the request then and has sent its response
\* before.
StatusInv ==
  requests # <<>> /\ Cur \in SendRequests =>
    /\ funcId[Cur] # Unset
    /\ \A m \in Statuses : Coming(m) /\ m.funcId = funcId[Cur] =>
         /\ m.data = Cur
         /\ ~Has(toDongle, HostFrames) /\ ~Has(line, {Nack})
         /\ Before(Unseen, Responses, {m})

\* No kind of message is added when t follows s.
Fewer(s, t, kinds) ==
  /\ \A kind \in SUBSET kinds : Has(t, kind) => Has(s, kind)
  /\ Once(s, kinds) => Once(t, kinds)

\* Steps that only take away from the exchange keep both.
LEMMA Fades ==
  ASSUME ExchangeInv, StatusInv, UNCHANGED funcId,
         requests' = <<>> <=> requests = <<>>, Cur' = Cur,
         Fewer(toDongle, toDongle', HostFrames), Fewer(line, line', {Nack}),
         Fewer(Unseen, Unseen', Responses),
         \A m \in Statuses : Coming(m)' => Coming(m),
         \A m \in Statuses : Before(Unseen, Responses, {m}) => Before(Unseen', Responses, {m}),
         Queued("timer")' => Queued("timer") \/ NoneLeft
  PROVE  ExchangeInv' /\ StatusInv'
<1>1. /\ HostFrames \in SUBSET HostFrames /\ {Nack} \in SUBSET {Nack}
      /\ Responses \in SUBSET Responses
      /\ HostFrames \ {RequestFrame(Cur, LastId)} \in SUBSET HostFrames
      /\ {m \in Responses : m.data # Cur} \in SUBSET Responses
  OBVIOUS
<1>2. /\ Has(toDongle', HostFrames) => Has(toDongle, HostFrames)
      /\ Has(line', {Nack}) => Has(line, {Nack})
      /\ Has(Unseen', Responses) => Has(Unseen, Responses)
      /\ ~Has(toDongle', HostFrames \ {RequestFrame(Cur, LastId)})
      /\ ~Has(Unseen', {m \in Responses : m.data # Cur})
  <2> HIDE DEF Cur, LastId, line, Unseen
  <2> QED BY <1>1 DEF Fewer, ExchangeInv
<1>3. Once(toDongle', HostFrames) /\ Once(line', {Nack}) /\ Once(Unseen', Responses)
  <2> HIDE DEF line, Unseen
  <2> QED BY DEF Fewer, ExchangeInv
<1>4. LastId' = LastId
  BY DEF LastId
<1> HIDE DEF Cur, LastId, line, Unseen, Coming
<1>5. ExchangeInv'
  BY <1>2, <1>3, <1>4 DEF ExchangeInv, NoneLeft
<1>6. StatusInv'
  BY <1>2 DEF StatusInv
<1> QED BY <1>5, <1>6

\* The number the next request gets is not in use any more.
NextIdIsFree == \A m \in Statuses : Coming(m) => m.funcId # nextFuncId
FreshIds     == nextFuncId' # nextFuncId => NextIdIsFree

\* Each number differs from the one before.
LEMMA NextDiffers ==
  ASSUME MaxFuncId > 1, NEW id \in FuncIds
  PROVE  NextId(id) # id
BY BoundsAssumption DEF NextId, FuncIds

\* What sendRequest() writes.
LEMMA WrittenFrame ==
  ASSUME NEW before \in {<<>>, <<Ack>>}, NEW f \in HostFrames, written' = Append(before, f)
  PROVE  /\ written' \in Seq(HostMessages) /\ Once(written', HostFrames)
         /\ ~Has(written', HostFrames \ {f})
<1>1. Ack \notin HostFrames /\ Ack \in HostMessages /\ f \in HostMessages
  BY KindFacts DEF HostMessages
<1>2. /\ before \in Seq(HostMessages)
      /\ ~Has(before, HostFrames) /\ ~Has(before, HostFrames \ {f})
      /\ Once(before, HostFrames)
  <2>1. CASE before = <<>>
    BY <2>1, EmptyHas
  <2>2. CASE before = <<Ack>>
    BY <1>1, <2>2, SingleHas
  <2> QED BY <2>1, <2>2
<1>3. f \notin HostFrames \ {f}
  OBVIOUS
<1> QED BY <1>1, <1>2, <1>3, AppendHas

\* Sending the front request starts an exchange when none is left.
LEMMA NewExchange ==
  ASSUME SystemTypeOK, MaxFuncId > 1, FreshIds, OnTheWire, LoopInv',
         requests' \in Seq(Requests), requests' # <<>>,
         NEW before \in {<<>>, <<Ack>>}, Transmit(requests', before),
         ~Has(toDongle, HostFrames), ~Has(line', {Nack}), ~Has(Unseen', Responses),
         \A m \in Statuses : Coming(m)' => Coming(m)
  PROVE  ExchangeInv' /\ StatusInv'
<1> DEFINE r == Cur'
           f == RequestFrame(r, IdFor(r))
<1>1. r \in Requests /\ r = Head(requests') /\ nextFuncId \in FuncIds
  BY DEF Cur, SystemTypeOK, TypeOK
<1>2. written' = Append(before, f) /\ f \in HostFrames
  BY <1>1, TransmitWrites DEF SystemTypeOK
<1>3. IdFor(r) = LastId' /\ (r \in SendRequests => funcId'[r] = nextFuncId)
  BY <1>1 DEF Transmit, IdFor, LastId, SystemTypeOK, TypeOK
<1>4. /\ Once(toDongle', HostFrames) /\ ~Has(toDongle', HostFrames \ {f})
  <2>1. /\ toDongle' = toDongle \o written' /\ toDongle \in Seq(HostMessages)
        /\ written' \in Seq(HostMessages) /\ Once(written', HostFrames)
        /\ ~Has(written', HostFrames \ {f})
    BY <1>2, WrittenFrame DEF OnTheWire, SystemTypeOK, DongleTypeOK
  <2>2. ~Has(toDongle, HostFrames \ {f}) /\ Once(toDongle, HostFrames)
    BY DEF Has, Once
  <2> HIDE DEF f
  <2> QED BY <2>1, <2>2, ConcatHas
<1>5. Once(line', {Nack}) /\ Once(Unseen', Responses)
      /\ ~Has(Unseen', {m \in Responses : m.data # r})
  <2> HIDE DEF line, Unseen, r
  <2> QED BY DEF Has, Once
<1>6. ~Queued("timer")'
  BY TransmitArms DEF LoopInv
<1> HIDE DEF line, Unseen, Coming
<1>7. ExchangeInv'
  <2>1. f = RequestFrame(Cur, LastId)'
    BY <1>1, <1>3 DEF RequestFrame
  <2> HIDE DEF f, r
  <2> QED BY <1>4, <1>5, <1>6, <2>1 DEF ExchangeInv, r
<1>8. ASSUME r \in SendRequests
      PROVE  /\ funcId'[r] # Unset
             /\ \A m \in Statuses : Coming(m)' => m.funcId # funcId'[r]
  <2>1. nextFuncId' # nextFuncId /\ nextFuncId # Unset
    BY <1>1, <1>8, NextDiffers DEF Transmit, FuncIds, Unset
  <2> QED BY <1>3, <1>8, <2>1 DEF FreshIds, NextIdIsFree
<1>9. StatusInv'
  BY <1>8 DEF StatusInv
<1> QED BY <1>7, <1>9

\* When the last request is done no exchange is left either.
LEMMA NoExchange ==
  ASSUME SystemTypeOK, OnTheWire, LoopInv', requests' = <<>>, written' \in {<<>>, <<Ack>>},
         ~Has(toDongle, HostFrames), ~Has(line', {Nack}), ~Has(Unseen', Responses)
  PROVE  ExchangeInv' /\ StatusInv'
<1>1. /\ toDongle' = toDongle \o written' /\ toDongle \in Seq(HostMessages)
      /\ written' \in Seq(HostMessages) /\ ~Has(written', HostFrames)
  <2>1. Ack \notin HostFrames /\ Ack \in HostMessages
    BY KindFacts DEF HostMessages
  <2>2. CASE written' = <<>>
    BY <2>2, EmptyHas DEF OnTheWire, SystemTypeOK, DongleTypeOK
  <2>3. CASE written' = <<Ack>>
    BY <2>1, <2>3, SingleHas DEF OnTheWire, SystemTypeOK, DongleTypeOK
  <2> QED BY <2>2, <2>3
<1>2. ~Has(toDongle', HostFrames)
  BY <1>1, ConcatHas
<1> HIDE DEF line, Unseen, Coming, Cur, LastId
<1>3. ExchangeInv'
  BY <1>2 DEF ExchangeInv, Has, Once
<1> QED BY <1>3 DEF StatusInv

\* A step of the host takes messages from the line, and frames the dongle waits
\* to see acknowledged.
LEMMA HostTakes ==
  ASSUME SystemTypeOK, TokenInv, HostStep, OnTheWire
  PROVE  /\ Fewer(line, line', {Nack}) /\ Fewer(Unseen, Unseen', Responses)
         /\ \A m \in Statuses : Coming(m)' => Coming(m)
         /\ \A m \in Statuses : Before(Unseen, Responses, {m}) => Before(Unseen', Responses, {m})
<1>1. TypeOK /\ line \in Seq(Message) /\ Unseen \in Seq(DongleFrames)
      /\ network' = network
  BY LineType, UnseenType DEF SystemTypeOK, OnTheWire
<1>2. line' = line \/ (line # <<>> /\ line' = Tail(line)) \/ DropsSome
  BY <1>1, HostLine DEF LineKinds
<1>3. Unseen' = Unseen \/ (Unseen # <<>> /\ Unseen' = Tail(Unseen))
  BY HostUnseen
<1> HIDE DEF line, Unseen
<1>4. Fewer(line, line', {Nack})
  BY <1>1, <1>2, TailHas, DropsHas DEF Fewer
<1>5. Fewer(Unseen, Unseen', Responses)
  BY <1>1, <1>3, TailHas DEF Fewer
<1>6. \A m \in Statuses : Coming(m)' => Coming(m)
  BY <1>1, <1>3, TailHas DEF Coming
<1>7. \A m \in Statuses : Before(Unseen, Responses, {m}) => Before(Unseen', Responses, {m})
  BY <1>1, <1>3, TailBefore
<1> QED BY <1>4, <1>5, <1>6, <1>7

\* Steps of the host that send no request, and keep the current one.
LEMMA HostKeeps ==
  ASSUME SystemTypeOK, TokenInv, ExchangeInv, StatusInv, HostStep, OnTheWire,
         written' \in {<<>>, <<Ack>>, <<Nack>>}, UNCHANGED funcId,
         requests' = <<>> <=> requests = <<>>, Cur' = Cur,
         Queued("timer")' => Queued("timer") \/ NoneLeft
  PROVE  ExchangeInv' /\ StatusInv'
<1>1. /\ toDongle' = toDongle \o written' /\ toDongle \in Seq(HostMessages)
      /\ written' \in Seq(HostMessages)
  BY WrittenType DEF OnTheWire, SystemTypeOK, DongleTypeOK
<1>2. ~Has(written', HostFrames) /\ Once(written', HostFrames)
  <2>1. Ack \notin HostFrames /\ Nack \notin HostFrames
    BY KindFacts
  <2> QED BY <2>1, EmptyHas, SingleHas
<1>3. Fewer(toDongle, toDongle', HostFrames)
  <2>1. ASSUME NEW kind \in SUBSET HostFrames PROVE ~Has(written', kind)
    BY <1>2 DEF Has
  <2> QED BY <1>1, <1>2, <2>1, ConcatHas DEF Fewer
<1> HIDE DEF line, Unseen, Cur, Coming, NoneLeft
<1> QED BY <1>3, HostTakes, Fades

\* A frame that is taken is the first of those not acknowledged.
LEMMA FrameTaken ==
  ASSUME SystemTypeOK, TokenInv, HostStep, OnTheWire, TakesFrame
  PROVE  /\ Unseen \in Seq(DongleFrames) /\ Unseen # <<>> /\ Unseen' = Tail(Unseen)
         /\ Head(Unseen) = Head(rxBuffer) /\ Head(rxBuffer) \in DongleFrames
<1>1. Writes(<<Ack>>)
  <2>1. CASE ReceiveResponse \/ ReceiveStatus
    BY <2>1, EndWrites DEF ReceiveResponse, ReceiveStatus, Pending, SystemTypeOK
  <2>2. CASE ReceiveSendResponse \/ ReceiveRequest \/ ReceiveOther
    BY <2>2 DEF ReceiveSendResponse, ReceiveRequest, ReceiveOther, Writes
  <2> QED BY <2>1, <2>2 DEF TakesFrame
<1>2. Has(written', {Ack})
  BY <1>1, WritesHas
<1>3. Unseen \in Seq(DongleFrames)
  BY UnseenType
<1>4. Unseen # <<>> /\ Head(Unseen) = Head(rxBuffer) /\ Unseen' = Tail(Unseen)
  BY <1>2, HostUnseen
<1> HIDE DEF Unseen
<1> QED BY <1>3, <1>4

\* The kinds of the dongle's frames that belong to the current request.
LEMMA FrameKinds ==
  ASSUME SystemTypeOK, NEW m \in DongleFrames, Pending(m)
  PROVE  /\ m.type = "RESPONSE" => m \in Responses
         /\ m.type = "REQUEST" => m \in Statuses
<1>1. ASSUME NEW p \in Reports PROVE ~Pending(Report(p))
  BY DongleAssumption DEF Pending, Report, DongleFrame, SystemTypeOK, TypeOK
<1> QED BY <1>1 DEF DongleFrames, Responses, Statuses, ReportFrames

\* Responses the host takes for answers to the current request are.
LEMMA ResponseTaken ==
  ASSUME SystemTypeOK, TokenInv, ExchangeInv, HostStep, OnTheWire,
         ReceiveResponse \/ ReceiveSendResponse
  PROVE  /\ Head(rxBuffer).data = Cur
         /\ ~Has(toDongle, HostFrames) /\ ~Has(line, {Nack}) /\ ~Has(Unseen', Responses)
<1>1. /\ TakesFrame /\ Pending(Head(rxBuffer)) /\ Head(rxBuffer).type = "RESPONSE"
  BY DEF TakesFrame, ReceiveResponse, ReceiveSendResponse, TakeFrame
<1>2. /\ Unseen \in Seq(DongleFrames) /\ Unseen # <<>> /\ Unseen' = Tail(Unseen)
      /\ Head(Unseen) = Head(rxBuffer) /\ Head(Unseen) \in Responses
  BY <1>1, FrameTaken, FrameKinds
<1> HIDE DEF Unseen, line, Cur, LastId
<1>3. Has(Unseen, Responses) /\ ~Has(Unseen', Responses)
  BY <1>2, TailHas DEF ExchangeInv
<1>4. ~Has(Unseen, {m \in Responses : m.data # Cur})
  BY DEF ExchangeInv
<1>5. Head(Unseen) \notin {m \in Responses : m.data # Cur}
  BY <1>2, <1>4, TailHas
<1> QED BY <1>2, <1>3, <1>5 DEF ExchangeInv

\* So are the statuses.
LEMMA StatusTaken ==
  ASSUME SystemTypeOK, TokenInv, ExchangeInv, StatusInv, HostStep, OnTheWire, ReceiveStatus
  PROVE  /\ Head(rxBuffer).data = Cur
         /\ ~Has(toDongle, HostFrames) /\ ~Has(line, {Nack}) /\ ~Has(Unseen', Responses)
<1> DEFINE m == Head(Unseen)
<1>1. /\ TakesFrame /\ Pending(Head(rxBuffer)) /\ Head(rxBuffer).type = "REQUEST"
      /\ requests # <<>> /\ Cur \in SendRequests /\ MayMatch(Cur, Head(rxBuffer))
  BY DEF TakesFrame, ReceiveStatus, TakeFrame, Pending, Cur
<1>2. /\ Unseen \in Seq(DongleFrames) /\ Unseen # <<>> /\ Unseen' = Tail(Unseen)
      /\ m = Head(rxBuffer) /\ m \in Statuses
  BY <1>1, FrameTaken, FrameKinds
<1> HIDE DEF Unseen, line, Cur, LastId
<1>3. Coming(m)
  <2>1. m \in {m}
    OBVIOUS
  <2>2. Has(Unseen, {m})
    BY <1>2, <2>1, TailHas
  <2> QED BY <2>2 DEF Coming
<1>4. m.funcId = funcId[Cur]
  BY <1>1, <1>2 DEF MayMatch, StatusInv
<1>5. m.data = Cur /\ ~Has(toDongle, HostFrames) /\ ~Has(line, {Nack})
      /\ Before(Unseen, Responses, {m})
  BY <1>1, <1>2, <1>3, <1>4 DEF StatusInv
<1>6. ~Has(Unseen, Responses)
  BY <1>2, <1>5, TailBefore
<1> QED BY <1>2, <1>5, <1>6, TailHas

\* What resendRequest does when it does not give up.
LEMMA ResendSends ==
  ASSUME TypeOK, requests # <<>>, NEW timer, Resend(timer), NothingGivenUp'
  PROVE  requests' = requests /\ Transmit(requests, <<>>)
<1>1. CASE TriesLeft
  BY <1>1 DEF Resend
<1>2. CASE ~TriesLeft
  <2>1. Head(requests) \in Requests /\ outcome'[Head(requests)] = "failed"
    BY <1>2 DEF Resend, PopRequest, TypeOK
  <2> QED BY <2>1 DEF NothingGivenUp
<1> QED BY <1>1, <1>2

\* The end of a procedure starts the next exchange or leaves none.
LEMMA EndExchange ==
  ASSUME SystemTypeOK, TokenInv, MaxFuncId > 1, FreshIds, HostStep, OnTheWire, LoopInv',
         requests # <<>>, EndProcedure,
         ~Has(toDongle, HostFrames), ~Has(line', {Nack}), ~Has(Unseen', Responses)
  PROVE  ExchangeInv' /\ StatusInv'
<1>1. requests' = Tail(requests) /\ Tail(requests) \in Seq(Requests)
  BY DEF EndProcedure, PopRequest, SystemTypeOK, TypeOK
<1>2. \A m \in Statuses : Coming(m)' => Coming(m)
  BY HostTakes
<1>3. <<Ack>> \in {<<>>, <<Ack>>}
  OBVIOUS
<1>4. CASE Tail(requests) # <<>>
  <2>1. Transmit(requests', <<Ack>>)
    BY <1>1, <1>4 DEF EndProcedure, SendNext, Transmit
  <2> HIDE DEF Unseen, line, Coming
  <2> QED BY <1>1, <1>2, <1>3, <1>4, <2>1, NewExchange
<1>5. CASE Tail(requests) = <<>>
  <2>1. written' = <<Ack>>
    BY <1>5 DEF EndProcedure, SendNext
  <2> HIDE DEF Unseen, line
  <2> QED BY <1>1, <1>3, <1>5, <2>1, NoExchange
<1> QED BY <1>4, <1>5

\* The host keeps to one exchange at a time.
LEMMA HostExchange ==
  ASSUME SystemTypeOK, LoopInv, TokenInv, ExchangeInv, StatusInv, MaxFuncId > 1, FreshIds,
         HostStep, OnTheWire, LoopInv', NothingGivenUp'
  PROVE  ExchangeInv' /\ StatusInv'
<1>0. /\ TypeOK /\ requests \in Seq(Requests) /\ <<>> \in {<<>>, <<Ack>>}
      /\ \A m \in Statuses : Coming(m)' => Coming(m)
  BY HostTakes DEF SystemTypeOK, TypeOK
<1>00. /\ Fewer(line, line', {Nack}) /\ Fewer(Unseen, Unseen', Responses)
  BY HostTakes
<1>1. ASSUME NEW r \in Requests, SendRequest(r) PROVE ExchangeInv' /\ StatusInv'
  <2>1. requests' = Append(requests, r) /\ UNCHANGED ready
    BY <1>1 DEF SendRequest
  <2>2. CASE requests = <<>>
    <3>1. requests' = <<r>> /\ Transmit(requests', <<>>) /\ requests' \in Seq(Requests)
          /\ requests' # <<>>
      BY <1>1, <2>1, <2>2 DEF SendRequest, Transmit
    <3>2. ~Has(toDongle, HostFrames) /\ ~Has(line, {Nack}) /\ ~Has(Unseen, Responses)
      BY <2>2 DEF ExchangeInv
    <3>3. ~Has(line', {Nack}) /\ ~Has(Unseen', Responses)
      <4> HIDE DEF line, Unseen
      <4> QED BY <1>00, <3>2 DEF Fewer
    <3> HIDE DEF line, Unseen, Coming
    <3> QED BY <1>0, <3>1, <3>2, <3>3, NewExchange
  <2>3. CASE requests # <<>>
    <3>1. /\ written' = <<>> /\ UNCHANGED funcId /\ requests' # <<>>
          /\ Cur' = Cur
      BY <1>0, <1>1, <2>1, <2>3 DEF SendRequest, sendVars, Cur
    <3>2. Queued("timer")' => Queued("timer")
      BY <2>1 DEF Queued
    <3> HIDE DEF line, Unseen, Cur
    <3> QED BY <2>3, <3>1, <3>2, HostKeeps
  <2> QED BY <2>2, <2>3
<1>2. ASSUME NEW descriptor \in {<<>>, <<"read">>}, NEW expired \in BOOLEAN,
             PollWith(descriptor, expired), expired => Quiet
      PROVE  ExchangeInv' /\ StatusInv'
  <2>1. /\ written' = <<>> /\ UNCHANGED <<funcId, requests>> /\ pc = "loop"
        /\ Dispatch("task")
    BY <1>2 DEF PollWith, sendVars, queueVars, Dispatch
  <2>2. Queued("timer")' => Queued("timer") \/ NoneLeft
    <3>1. CASE expired
      <4>1. toDongle = <<>> /\ line = <<>> /\ Unseen = <<>>
        <5>1. toDongle = <<>> /\ outbox = <<>> /\ rx = <<>> /\ rxBuffer = <<>>
          BY <1>2, <2>1, <3>1 DEF Quiet, LoopInv
        <5>2. ~Has(toDongle, {Ack})
          BY <5>1, EmptyHas
        <5> QED BY <5>1, <5>2 DEF line, Unseen
      <4> HIDE DEF line, Unseen
      <4> QED BY <4>1, EmptyHas DEF NoneLeft
    <3>2. CASE ~expired
      BY <1>0, <1>2, <3>2, PollKeepsTimer
    <3> QED BY <3>1, <3>2
  <2>3. Cur' = Cur
    BY <2>1 DEF Cur
  <2> HIDE DEF line, Unseen, Cur
  <2> QED BY <2>1, <2>2, <2>3, HostKeeps
<1>3. CASE TimerHandler
  <2>1. Queued("timer") /\ requests # <<>> /\ line' = line
    <3>1. ready = <<"timer", "task">>
      BY <1>3, ReadyFacts DEF LoopInv, TimerHandler, Dispatch
    <3> QED BY <1>3, <3>1, ReadyFacts DEF LoopInv, TimerHandler, receiveVars, line
  <2>2. requests' = requests /\ Transmit(requests', <<>>)
    <3>1. Resend(txTimer)
      BY <1>3, <2>1 DEF TimerHandler
    <3>2. requests' = requests /\ Transmit(requests, <<>>)
      BY <1>0, <2>1, <3>1, ResendSends
    <3> QED BY <3>2 DEF Transmit
  <2>3. ~Has(toDongle, HostFrames) /\ ~Has(line, {Nack}) /\ ~Has(Unseen, Responses)
    BY <2>1 DEF ExchangeInv
  <2>4. ~Has(line', {Nack}) /\ ~Has(Unseen', Responses)
    <3> HIDE DEF line, Unseen
    <3> QED BY <1>00, <2>3 DEF Fewer
  <2> HIDE DEF line, Unseen, Coming
  <2> QED BY <1>0, <2>1, <2>2, <2>3, <2>4, NewExchange
<1>4. ASSUME UNCHANGED <<requests, funcId>>, written' \in {<<>>, <<Ack>>, <<Nack>>},
             Queued("timer")' => Queued("timer")
      PROVE  ExchangeInv' /\ StatusInv'
  <2>1. Cur' = Cur
    BY <1>4 DEF Cur
  <2> HIDE DEF line, Unseen, Cur
  <2> QED BY <1>4, <2>1, HostKeeps
<1>5. ASSUME ReadMessage PROVE Queued("timer")' => Queued("timer")
  BY <1>0, <1>5, ReadKeepsTimer
<1>6. CASE ReadHandler \/ EndUpcall \/ Receive
  <2>1. Queued("timer")' => Queued("timer")
    BY <1>0, <1>6, ReadKeepsTimer
  <2> QED BY <1>4, <1>6, <2>1 DEF ReadHandler, EndUpcall, Receive, queueVars, sendVars
<1>8. CASE ReceiveAck \/ ReceiveCan \/ ReceiveGarbage \/ ReceiveSecondFrame
  BY <1>4, <1>5, <1>8 DEF ReadMessage, ReceiveAck, ReceiveCan, ReceiveGarbage,
                          ReceiveSecondFrame, queueVars, sendVars
<1>9. CASE ReceiveSendResponse \/ ReceiveRequest \/ ReceiveOther
  BY <1>4, <1>5, <1>9 DEF ReadMessage, ReceiveSendResponse, ReceiveRequest, ReceiveOther,
                          queueVars, sendVars
<1>10. CASE ReceiveNack
  <2>1. CASE requests = <<>>
    BY <1>4, <1>5, <1>10, <2>1 DEF ReadMessage, ReceiveNack, queueVars, sendVars
  <2>2. CASE requests # <<>>
    <3>1. requests' = requests /\ Transmit(requests', <<>>)
      <4>1. requests' = requests /\ Transmit(requests, <<>>)
        BY <1>0, <1>10, <2>2, ResendSends DEF ReceiveNack
      <4> QED BY <4>1 DEF Transmit
    <3>2. line # <<>> /\ Head(line) = Nack /\ line' = Tail(line) /\ line \in Seq(Message)
      <4>1. line # <<>> /\ Head(line).msg = "NACK" /\ line' = Tail(line)
            /\ line \in Seq(Message)
        BY <1>0, <1>10, TakeLine, LineType DEF ReceiveNack
      <4> HIDE DEF line
      <4>2. Head(line) \in Message
        BY <4>1
      <4> QED BY <4>1, <4>2 DEF Message, Plain, Frame, Nack
    <3>3. Has(line, {Nack}) /\ ~Has(line', {Nack})
      <4>1. Head(line) \in {Nack}
        BY <3>2
      <4> HIDE DEF line
      <4> QED BY <3>2, <4>1, TailHas DEF ExchangeInv
    <3>4. ~Has(toDongle, HostFrames) /\ ~Has(Unseen, Responses)
      BY <3>3 DEF ExchangeInv
    <3>5. ~Has(Unseen', Responses)
      <4> HIDE DEF Unseen
      <4> QED BY <1>00, <3>4 DEF Fewer
    <3> HIDE DEF line, Unseen, Coming
    <3> QED BY <1>0, <2>2, <3>1, <3>3, <3>4, <3>5, NewExchange
  <2> QED BY <2>1, <2>2
<1>11. CASE ReceiveResponse \/ ReceiveStatus
  <2>1. requests # <<>> /\ EndProcedure
    BY <1>11 DEF ReceiveResponse, ReceiveStatus, TakeFrame, Pending
  <2>2. ~Has(toDongle, HostFrames) /\ ~Has(line, {Nack}) /\ ~Has(Unseen', Responses)
    BY <1>11, ResponseTaken, StatusTaken
  <2>3. ~Has(line', {Nack})
    <3> HIDE DEF line
    <3> QED BY <1>00, <2>2 DEF Fewer
  <2> HIDE DEF line, Unseen
  <2> QED BY <2>1, <2>2, <2>3, EndExchange
<1> QED
  BY <1>1, <1>2, <1>3, <1>6, <1>8, <1>9, <1>10, <1>11 DEF HostStep, LoopStep, ReadMessage

\* Taking what has arrived only takes away from the exchange.
LEMMA ArriveFewer ==
  ASSUME SystemTypeOK, NEW msg, Arrives(msg)
  PROVE  Fewer(toDongle, toDongle', HostFrames)
BY ArriveHas DEF Fewer

\* Nothing the dongle puts on the line is a refusal, except when it refuses.
LEMMA LineFewer ==
  ASSUME SystemTypeOK, NEW m, m \in Message, m # Nack, UNCHANGED vars \/ Line(m)
  PROVE  /\ Fewer(line, line', {Nack})
         /\ UNCHANGED <<funcId, requests, ready>> /\ Cur' = Cur
         /\ Queued("timer")' => Queued("timer")
<1>1. CASE UNCHANGED vars
  <2>1. line' = line /\ UNCHANGED <<funcId, requests, ready>>
    BY <1>1, LineSame DEF vars
  <2> QED BY <2>1 DEF Fewer, Cur, Queued
<1>2. CASE Line(m)
  <2>1. UNCHANGED <<funcId, requests, ready>>
    BY <1>2 DEF Line, queueVars, sendVars
  <2>2. TypeOK /\ m \notin {Nack}
    BY DEF SystemTypeOK
  <2>3. Fewer(line, line', {Nack})
    <3>1. ASSUME NEW kind \in SUBSET {Nack} PROVE Has(line', kind) => Has(line, kind)
      <4>1. m \notin kind
        BY <2>2
      <4> HIDE DEF line
      <4> QED BY <1>2, <2>2, <4>1, LineHas
    <3>2. Once(line, {Nack}) => Once(line', {Nack})
      <4> HIDE DEF line
      <4> QED BY <1>2, <2>2, LineHas
    <3> HIDE DEF line
    <3> QED BY <3>1, <3>2 DEF Fewer
  <2> QED BY <2>1, <2>3 DEF Cur, Queued
<1> QED BY <1>1, <1>2

\* The same of putting a frame on the line.
LEMMA PutFewer ==
  ASSUME SystemTypeOK, outbox # <<>>, PutFrame
  PROVE  /\ Fewer(line, line', {Nack})
         /\ UNCHANGED <<funcId, requests, ready>> /\ Cur' = Cur
         /\ Queued("timer")' => Queued("timer")
<1>1. /\ Head(outbox) \in Message /\ Head(outbox) # Nack
      /\ [msg |-> "CORRUPT"] \in Message /\ [msg |-> "CORRUPT"] # Nack
  <2>1. Head(outbox) \in Frame /\ Frame \subseteq Message
    BY FramesAreMessages DEF SystemTypeOK, DongleTypeOK
  <2>2. Nack \notin Tokens /\ Head(outbox) \in Tokens
    BY <2>1, KindFacts DEF Tokens
  <2> QED BY <2>1, <2>2, FramesAreMessages, KindFacts DEF Corrupt
<1> HIDE DEF line, Cur
<1>2. (UNCHANGED vars \/ Line(Head(outbox))) \/ Line([msg |-> "CORRUPT"])
  BY DEF PutFrame
<1> QED BY <1>1, <1>2, LineFewer

\* A request that is taken is answered, ...
LEMMA TakeExchange ==
  ASSUME SystemTypeOK, TokenInv, ExchangeInv, StatusInv, TakeRequest
  PROVE  ExchangeInv' /\ StatusInv'
<1> DEFINE f == Head(toDongle)
           m == Response(f)
<1>1. /\ Arrives("SOF") /\ ~awaiting /\ outbox' = Append(outbox, m)
      /\ network' = (IF f.request \in SendRequests THEN network \cup {Status(f)} ELSE network)
      /\ UNCHANGED vars \/ Line(Ack)
  BY DEF TakeRequest, Accept
<1>2. f \in HostFrames /\ toDongle \in Seq(HostMessages)
  BY <1>1, ArriveType DEF SystemTypeOK, DongleTypeOK
<1>3. /\ m \in Responses /\ m \in DongleFrames /\ m \notin Statuses /\ m.data = f.request
      /\ f.request \in SendRequests => Status(f).funcId = f.funcId /\ Status(f).data = f.request
  <2>1. m \in Responses
    BY <1>2, AnswerTypes
  <2> QED BY <2>1 DEF Response, Status, DongleFrame, Responses, Statuses, DongleFrames
<1>4. Unseen = outbox /\ Unseen' = Append(Unseen, m) /\ Unseen \in Seq(DongleFrames)
  <2>1. Head(toDongle) # Ack
    BY <1>2, KindFacts
  <2> QED BY <1>1, <2>1, ArriveUnseen, UnseenType
<1>5. /\ Fewer(line, line', {Nack}) /\ UNCHANGED <<funcId, requests, ready>> /\ Cur' = Cur
      /\ Queued("timer")' => Queued("timer")
  <2>1. Ack \in Message /\ Ack # Nack
    BY FramesAreMessages, KindFacts
  <2> QED BY <1>1, <2>1, LineFewer
<1> HIDE DEF line, Unseen, Cur, LastId, m
<1>6. Has(toDongle, HostFrames) /\ ~Has(toDongle', HostFrames)
  BY <1>1, <1>2, ArriveHas DEF ExchangeInv
<1>7. /\ ~Has(line, {Nack}) /\ ~Has(Unseen, Responses) /\ requests # <<>> /\ ~Queued("timer")
      /\ ~Has(line', {Nack})
  BY <1>5, <1>6 DEF ExchangeInv, Fewer
<1>8. f = RequestFrame(Cur, LastId)
  <2>1. f \in HostFrames \ {RequestFrame(Cur, LastId)} => FALSE
    BY <1>1, ArriveHas DEF ExchangeInv
  <2> QED BY <1>2, <2>1
<1>9. f.request = Cur /\ f.funcId = LastId
  BY <1>8 DEF RequestFrame
<1>10. ExchangeInv'
  <2>1. Once(Unseen', Responses)
    BY <1>3, <1>4, <1>7, AppendHas DEF Has, Once
  <2>2. ~Has(Unseen', {n \in Responses : n.data # Cur})
    <3>1. m \notin {n \in Responses : n.data # Cur}
      BY <1>3, <1>9
    <3>2. ~Has(Unseen, {n \in Responses : n.data # Cur})
      BY <1>7 DEF Has
    <3> QED BY <1>3, <1>4, <3>1, <3>2, AppendHas
  <2>3. Once(toDongle', HostFrames) /\ ~Has(toDongle', HostFrames \ {RequestFrame(Cur, LastId)'})
    BY <1>6 DEF Has, Once
  <2>4. Once(line', {Nack})
    BY <1>7 DEF Has, Once
  <2> QED BY <1>5, <1>6, <1>7, <2>1, <2>2, <2>3, <2>4 DEF ExchangeInv
<1>11. StatusInv'
  <2> SUFFICES ASSUME Cur \in SendRequests
               PROVE  /\ funcId[Cur] # Unset
                      /\ \A n \in Statuses : Coming(n)' /\ n.funcId = funcId[Cur] =>
                           n.data = Cur /\ Before(Unseen', Responses, {n})
    BY <1>5, <1>6, <1>7 DEF StatusInv
  <2>1. funcId[Cur] # Unset
    BY <1>7 DEF StatusInv
  <2>2. \A n \in Statuses : Coming(n) => n.funcId # funcId[Cur]
    BY <1>6, <1>7 DEF StatusInv
  <2>3. ASSUME NEW n \in Statuses, Coming(n)', n.funcId = funcId[Cur]
        PROVE  n.data = Cur /\ Before(Unseen', Responses, {n})
    <3>1. ~Coming(n)
      BY <2>2, <2>3
    <3>2. ~Has(Unseen', {n})
      <4>1. ~Has(Unseen, {n}) /\ m \notin {n}
        BY <1>3, <3>1 DEF Coming
      <4> QED BY <1>3, <1>4, <4>1, AppendHas
    <3>3. n = Status(f) /\ f.request \in SendRequests
      BY <1>1, <2>3, <3>1, <3>2 DEF Coming
    <3>4. n.data = Cur
      BY <1>3, <1>9, <3>3
    <3> QED BY <3>2, <3>4 DEF Before, Has
  <2> QED BY <2>1, <2>3
<1> QED BY <1>10, <1>11

\* ... or refused, or lost.
LEMMA MissExchange ==
  ASSUME SystemTypeOK, TokenInv, ExchangeInv, StatusInv, MissRequest, Line(Nack)
  PROVE  ExchangeInv' /\ StatusInv'
<1>1. /\ Arrives("SOF") /\ outbox' = outbox /\ network' = network
      /\ UNCHANGED <<funcId, requests, ready>>
  BY DEF MissRequest, Line, queueVars, sendVars
<1>2. Head(toDongle) \in HostFrames
  BY <1>1, ArriveType
<1>3. Unseen' = Unseen
  <2>1. Head(toDongle) # Ack
    BY <1>2, KindFacts
  <2> QED BY <1>1, <2>1, ArriveUnseen
<1>4. Has(toDongle, HostFrames) /\ ~Has(toDongle', HostFrames)
  BY <1>1, <1>2, ArriveHas DEF ExchangeInv
<1>5. Cur' = Cur /\ Queued("timer")' = Queued("timer")
  BY <1>1 DEF Cur, Queued
<1>6. \A n : Coming(n)' <=> Coming(n)
  BY <1>1, <1>3 DEF Coming
<1>7. TypeOK /\ Nack \in Message /\ Nack \in {Nack}
  BY FramesAreMessages DEF SystemTypeOK
<1> HIDE DEF line, Unseen, Cur, LastId, Coming
<1>8. /\ ~Has(line, {Nack}) /\ ~Has(Unseen, Responses) /\ requests # <<>> /\ ~Queued("timer")
  BY <1>4 DEF ExchangeInv
<1>9. Once(line', {Nack})
  BY <1>7, <1>8, LineHas DEF Has, Once
<1>10. ExchangeInv'
  <2>1. Once(toDongle', HostFrames) /\ ~Has(toDongle', HostFrames \ {RequestFrame(Cur, LastId)'})
    BY <1>4 DEF Has, Once
  <2>2. Once(Unseen', Responses) /\ ~Has(Unseen', {m \in Responses : m.data # Cur})
    BY <1>3, <1>8 DEF Has, Once
  <2> QED BY <1>1, <1>3, <1>4, <1>5, <1>8, <1>9, <2>1, <2>2 DEF ExchangeInv
<1>11. StatusInv'
  BY <1>1, <1>4, <1>5, <1>6, <1>8 DEF StatusInv
<1> QED BY <1>10, <1>11

\* A frame with no response in it that the dongle gets to send.
LEMMA MoreExchange ==
  ASSUME SystemTypeOK, TokenInv, ExchangeInv, StatusInv, NEW f \in DongleFrames,
         f \notin Responses, outbox' = Append(outbox, f), UNCHANGED <<vars, toDongle>>,
         \A m \in Statuses : Coming(m)' => Coming(m)
  PROVE  ExchangeInv' /\ StatusInv'
<1>1. Unseen' = Append(Unseen, f) /\ Unseen \in Seq(DongleFrames)
  BY AppendUnseen, UnseenType
<1>2. /\ line' = line /\ Cur' = Cur /\ UNCHANGED <<funcId, requests>>
      /\ Queued("timer")' = Queued("timer")
  BY LineSame DEF vars, Cur, Queued
<1> HIDE DEF line, Unseen, Cur, Coming
<1>3. Fewer(Unseen, Unseen', Responses)
  <2>1. ASSUME NEW kind \in SUBSET Responses PROVE Has(Unseen', kind) => Has(Unseen, kind)
    <3>1. f \notin kind
      OBVIOUS
    <3> QED BY <1>1, <3>1, AppendHas
  <2> QED BY <1>1, <2>1, AppendHas DEF Fewer
<1>4. \A m \in Statuses : Before(Unseen, Responses, {m}) => Before(Unseen', Responses, {m})
  BY <1>1, AppendBefore
<1>5. Fewer(toDongle, toDongle', HostFrames) /\ Fewer(line, line', {Nack})
  BY <1>2 DEF Fewer
<1> QED BY <1>2, <1>3, <1>4, <1>5, Fades

\* Steps of the dongle that leave what it has to send.
LEMMA DongleKeeps ==
  ASSUME SystemTypeOK, TokenInv, ExchangeInv, StatusInv, Unseen' = Unseen, network' = network,
         Fewer(toDongle, toDongle', HostFrames), Fewer(line, line', {Nack}),
         UNCHANGED <<funcId, requests, ready>>
  PROVE  ExchangeInv' /\ StatusInv'
<1>1. /\ Cur' = Cur /\ Queued("timer")' = Queued("timer")
      /\ \A m \in Statuses : Coming(m)' => Coming(m)
  BY DEF Cur, Queued, Coming
<1> HIDE DEF line, Unseen, Cur, Coming
<1>2. Fewer(Unseen, Unseen', Responses)
  BY DEF Fewer
<1> QED BY <1>1, <1>2, Fades

\* The dongle keeps to one exchange at a time when it gets every ACK.
LEMMA DongleExchange ==
  ASSUME "hostAck" \notin Faults, "late" \notin Faults,
         SystemTypeOK, LoopInv, TokenInv, ExchangeInv, StatusInv, DongleStep \/ MakeReport
  PROVE  ExchangeInv' /\ StatusInv'
<1>0. \A n \in {"SOF", "NACK"} : Arrives(n) => Head(toDongle) # Ack
  BY DEF Arrives, Ack
<1>00. UNCHANGED vars => /\ Fewer(line, line', {Nack}) /\ UNCHANGED <<funcId, requests, ready>>
  BY LineSame DEF Fewer, vars
<1>1. CASE TakeRequest
  BY <1>1, TakeExchange
<1>2. CASE CancelRequest
  <2>1. /\ Arrives("SOF") /\ Line([msg |-> "CAN"]) /\ outbox' = outbox /\ network' = network
        /\ [msg |-> "CAN"] \in Message /\ [msg |-> "CAN"] # Nack
    BY <1>2, FramesAreMessages DEF CancelRequest, Nack
  <2>2. Unseen' = Unseen
    BY <1>0, <2>1, ArriveUnseen
  <2> HIDE DEF line, Unseen
  <2> QED BY <2>1, <2>2, ArriveFewer, LineFewer, DongleKeeps
<1>3. CASE MissRequest
  <2>1. CASE Line(Nack)
    BY <1>3, <2>1, MissExchange
  <2>2. CASE UNCHANGED vars
    <3>1. Arrives("SOF") /\ outbox' = outbox /\ network' = network
      BY <1>3 DEF MissRequest
    <3>2. Unseen' = Unseen
      BY <1>0, <3>1, ArriveUnseen
    <3> HIDE DEF line, Unseen
    <3> QED BY <1>00, <2>2, <3>1, <3>2, ArriveFewer, DongleKeeps
  <2> QED BY <1>3, <2>1, <2>2 DEF MissRequest
<1>4. CASE TakeAck
  <2>1. Arrives("ACK") /\ network' = network /\ UNCHANGED vars
    BY <1>4 DEF TakeAck
  <2>2. Unseen' = Unseen
    BY <1>4, AckUnseen
  <2> HIDE DEF line, Unseen
  <2> QED BY <1>00, <2>1, <2>2, ArriveFewer, DongleKeeps
<1>5. CASE TakeNack
  <2>1. Arrives("NACK") /\ outbox' = outbox /\ network' = network /\ UNCHANGED vars
    BY <1>5 DEF TakeNack
  <2>2. Unseen' = Unseen
    BY <1>0, <2>1, ArriveUnseen
  <2> HIDE DEF line, Unseen
  <2> QED BY <1>00, <2>1, <2>2, ArriveFewer, DongleKeeps
<1>6. CASE SendFrame \/ SendAgain
  <2>1. /\ PutFrame /\ outbox # <<>> /\ UNCHANGED <<toDongle, outbox, network>>
    BY <1>6 DEF SendFrame, SendAgain, Fault, SystemTypeOK, DongleTypeOK
  <2>2. Unseen' = Unseen /\ Fewer(toDongle, toDongle', HostFrames)
    BY <2>1 DEF Unseen, Fewer
  <2> HIDE DEF line, Unseen
  <2> QED BY <2>1, <2>2, PutFewer, DongleKeeps
<1>7. CASE StatusReturns
  <2>1. PICK f \in network : outbox' = Append(outbox, f) /\ network' = network \ {f}
    BY <1>7 DEF StatusReturns
  <2>2. /\ f \in Statuses /\ f \in DongleFrames /\ f \notin Responses
        /\ UNCHANGED <<vars, toDongle>>
    BY <1>7 DEF SystemTypeOK, DongleTypeOK, Statuses, Responses, DongleFrames, StatusReturns
  <2>3. ASSUME NEW m \in Statuses, Coming(m)' PROVE Coming(m)
    <3>1. Unseen' = Append(Unseen, f) /\ Unseen \in Seq(DongleFrames)
      BY <2>1, <2>2, AppendUnseen, UnseenType
    <3> HIDE DEF Unseen
    <3> QED BY <2>1, <2>2, <2>3, <3>1, AppendHas DEF Coming
  <2> QED BY <2>1, <2>2, <2>3, MoreExchange
<1>8. CASE MakeReport
  <2>1. PICK p \in reports : outbox' = Append(outbox, Report(p))
    BY <1>8 DEF MakeReport
  <2> DEFINE f == Report(p)
  <2>2. /\ f \in DongleFrames /\ f \notin Responses /\ f \notin Statuses
    <3>1. f \in ReportFrames /\ f.function = ReportFunction /\ f.type = "REQUEST"
      BY DEF SystemTypeOK, DongleTypeOK, ReportFrames, Report, DongleFrame
    <3>2. ASSUME NEW g \in Statuses PROVE g.function # ReportFunction
      BY DongleAssumption, RequestsAssumption DEF Statuses
    <3>3. ASSUME NEW g \in Responses PROVE g.type # "REQUEST"
      BY DEF Responses
    <3> HIDE DEF f
    <3> QED BY <3>1, <3>2, <3>3 DEF DongleFrames
  <2>3. UNCHANGED <<vars, toDongle, network>>
    BY <1>8 DEF MakeReport
  <2> HIDE DEF f
  <2>4. ASSUME NEW m \in Statuses, Coming(m)' PROVE Coming(m)
    <3>1. Unseen' = Append(Unseen, f) /\ Unseen \in Seq(DongleFrames)
      BY <2>1, <2>2, <2>3, AppendUnseen, UnseenType DEF f
    <3>2. f \notin {m}
      BY <2>2
    <3> HIDE DEF Unseen
    <3> QED BY <2>2, <2>3, <2>4, <3>1, <3>2, AppendHas DEF Coming
  <2> QED BY <2>1, <2>2, <2>3, <2>4, MoreExchange DEF f
<1> QED BY <1>1, <1>2, <1>3, <1>4, <1>5, <1>6, <1>7, <1>8 DEF DongleStep

\* Every step of the system keeps to one exchange at a time, as long as no
\* request is given up and no number is used that is still in use.
LEMMA ExchangeStep ==
  ASSUME MaxFuncId > 1, "hostAck" \notin Faults, "late" \notin Faults,
         SystemTypeOK, LoopInv, LoopInv', TokenInv, ExchangeInv, StatusInv, NothingGivenUp',
         [SystemNext]_systemVars, [FreshIds]_systemVars
  PROVE  ExchangeInv' /\ StatusInv'
<1>1. CASE Loop \/ Call
  <2>1. HostStep /\ OnTheWire
    BY <1>1 DEF Loop, Call, HostStep
  <2>2. CASE FreshIds
    BY <2>1, <2>2, HostExchange
  <2>3. CASE UNCHANGED systemVars
    <3>1. nextFuncId' = nextFuncId
      BY <2>3 DEF systemVars, vars
    <3> QED BY <2>1, <3>1, HostExchange DEF FreshIds
  <2> QED BY <2>2, <2>3
<1>2. CASE DongleStep \/ MakeReport
  BY <1>2, DongleExchange
<1>3. CASE UNCHANGED systemVars
  <2>1. UNCHANGED <<vars, toDongle, outbox, network>>
    BY <1>3 DEF systemVars, dongleVars
  <2>2. Unseen' = Unseen /\ line' = line /\ UNCHANGED <<funcId, requests, ready>>
    BY <2>1, LineSame DEF Unseen, vars
  <2> HIDE DEF line, Unseen
  <2> QED BY <2>1, <2>2, DongleKeeps DEF Fewer
<1> QED BY <1>1, <1>2, <1>3 DEF SystemNext

\* What a request is told is the answer to itself.
LEMMA AnswersStep ==
  ASSUME SystemTypeOK, TokenInv, ExchangeInv, StatusInv, AnswersAreOwn,
         [SystemNext]_systemVars
  PROVE  AnswersAreOwn'
<1> USE DEF AnswersAreOwn
<1>1. ASSUME Notify(Cur, Head(rxBuffer)), Head(rxBuffer).data = Cur PROVE AnswersAreOwn'
  <2>1. notified' = [notified EXCEPT ![Cur] = @ \cup {Cur}]
        /\ notified \in [Requests -> SUBSET Payloads]
    BY <1>1 DEF Notify, SystemTypeOK, TypeOK
  <2> HIDE DEF Cur
  <2> QED BY <2>1
<1>2. CASE notified' = notified
  BY <1>2
<1>3. CASE Loop \/ Call
  <2>1. HostStep /\ OnTheWire
    BY <1>3 DEF Loop, Call, HostStep
  <2>2. CASE ReceiveResponse \/ ReceiveSendResponse
    <3>1. Notify(Cur, Head(rxBuffer))
      BY <2>2 DEF ReceiveResponse, ReceiveSendResponse, EndProcedure, Cur
    <3> QED BY <1>1, <2>1, <2>2, <3>1, ResponseTaken
  <2>3. CASE ReceiveStatus
    <3>1. Notify(Cur, Head(rxBuffer))
      BY <2>3 DEF ReceiveStatus, EndProcedure, Cur
    <3> QED BY <1>1, <2>1, <2>3, <3>1, StatusTaken
  <2>4. CASE ~(ReceiveResponse \/ ReceiveSendResponse \/ ReceiveStatus)
    <3>1. CASE \E r \in Requests : SendRequest(r)
      BY <1>2, <3>1 DEF SendRequest
    <3>2. CASE TimerHandler \/ ReadHandler \/ EndUpcall \/ Receive
      BY <1>2, <3>2 DEF TimerHandler, ReadHandler, EndUpcall, Receive
    <3>3. CASE ReadMessage
      BY <1>2, <2>4, <3>3 DEF ReadMessage, ReceiveAck, ReceiveNack, ReceiveCan,
                 ReceiveGarbage, ReceiveSecondFrame, ReceiveRequest, ReceiveOther
    <3>4. ASSUME NEW descriptor, NEW expired, PollWith(descriptor, expired)
          PROVE  AnswersAreOwn'
      BY <1>2, <3>4 DEF PollWith
    <3> QED BY <2>1, <3>1, <3>2, <3>3, <3>4 DEF HostStep, LoopStep
  <2> QED BY <2>2, <2>3, <2>4
<1>4. CASE DongleStep \/ MakeReport
  <2>1. (\E m : Line(m)) \/ UNCHANGED vars
    BY <1>4, DongleSteps
  <2> QED BY <1>2, <2>1 DEF Line, vars
<1>5. CASE UNCHANGED systemVars
  BY <1>2, <1>5 DEF systemVars, vars
<1> QED BY <1>3, <1>4, <1>5 DEF SystemNext

\* A request is told its own answers and no others, although an answer has only
\* a function and perhaps a number that is used again.  It takes that the dongle
\* gets the ACKs of the host and does not send a frame again that is not lost
\* (else a response comes twice), that no request is given up (its answer may
\* come still, and a number never written matches any), and that a number is
\* not used while a status with that number is to come.
THEOREM AnswersCorrect ==
  ASSUME MaxFuncId > 1, "hostAck" \notin Faults, "late" \notin Faults
  PROVE  SystemSpec /\ []NothingGivenUp /\ [][FreshIds]_systemVars => []AnswersAreOwn
<1>1. SystemInit => ExchangeInv /\ StatusInv /\ AnswersAreOwn
  <2> SUFFICES ASSUME SystemInit PROVE ExchangeInv /\ StatusInv /\ AnswersAreOwn
    OBVIOUS
  <2>1. /\ line = <<>> /\ toDongle = <<>> /\ Unseen = <<>> /\ requests = <<>>
        /\ notified = [r \in Requests |-> {}]
    BY EmptyHas DEF SystemInit, Init, line, Unseen
  <2> HIDE DEF line, Unseen
  <2> QED BY <2>1, EmptyHas DEF ExchangeInv, StatusInv, AnswersAreOwn
<1>2. /\ SystemTypeOK /\ LoopInv /\ LoopInv' /\ TokenInv /\ ExchangeInv /\ StatusInv
      /\ NothingGivenUp' /\ [SystemNext]_systemVars /\ [FreshIds]_systemVars
      => ExchangeInv' /\ StatusInv'
  BY ExchangeStep
<1>3. /\ SystemTypeOK /\ TokenInv /\ ExchangeInv /\ StatusInv /\ AnswersAreOwn
      /\ [SystemNext]_systemVars
      => AnswersAreOwn'
  BY AnswersStep
<1>4. SystemSpec => []TokenInv
  BY TokenCorrect
<1> QED BY <1>1, <1>2, <1>3, <1>4, SystemTypes, LoopCorrect, PTL DEF SystemSpec

-----------------------------------------------------------------------------
(* The retransmissions suffice *)

Unknown == [msg |-> "UNKNOWN"]

\* The front request was sent, and nothing will come of that: the frame is gone,
\* and no ACK for it has come or is on its way.
Doomed == /\ requests # <<>> /\ ~acked
          /\ ~Has(toDongle, HostFrames) /\ ~Has(line, {Ack})

\* A status that is to come at the wrong time: not the one that ends the current
\* request, or one the request will not know any more after it is sent again.
Loose(m) ==
  /\ Coming(m)
  /\ ~(requests # <<>> /\ Cur \in SendRequests /\ m.funcId = funcId[Cur] /\ ~Doomed)
SomeLoose == \E m \in Statuses : Loose(m)

\* The request on the line arrives before the ACK of the frame the dongle waits
\* to see acknowledged, so the dongle will cancel it.
Blocks == ~Before(toDongle, {Ack}, HostFrames)

\* Garbage is never in front of an ACK: the host that empties its buffer drops
\* none.
LineOrder  == Before(line, {Ack}, Tokens) /\ ~Has(line, {Unknown})
StatusOnce == \A m \in Statuses : /\ Once(Unseen, {m})
                                  /\ m \in network => ~Has(Unseen, {m})

\* How much one fault can do.  It dooms one transmission, and when what was lost
\* is an ACK it leaves one loose status, which may come in the way of one more
\* transmission.  That makes two, and the third one is left.
RetryInv ==
  /\ LineOrder /\ StatusOnce
  /\ faults \in {0, 1}
  /\ \A m, n \in Statuses : Loose(m) /\ Loose(n) => m = n
  /\ Blocks => ~SomeLoose
  /\ faults = 0 => txRetryCount = 0 /\ ~Doomed /\ ~Blocks /\ ~SomeLoose
  /\ Has(line, {Nack}) => faults # 0 /\ txRetryCount = 0 /\ ~SomeLoose
  /\ Doomed => txRetryCount <= 1
  /\ Doomed /\ (\E m \in Statuses : Loose(m) /\ (m \in network \/ Queued("timer"))) =>
       txRetryCount = 0
  /\ ~Doomed /\ (SomeLoose \/ Blocks) => txRetryCount <= 1
  /\ txTimer = "armed" => ~acked
  /\ Queued("timer") => Doomed

\* The order in what is left behind the first ones, ...
LEMMA SuffixBefore ==
  ASSUME NEW S, NEW s \in Seq(S), NEW n \in 0..Len(s), NEW first, NEW second,
         Before(s, first, second)
  PROVE  Before(SubSeq(s, n + 1, Len(s)), first, second)
<1> DEFINE t == SubSeq(s, n + 1, Len(s))
<1>1. /\ t \in Seq(S) /\ Len(t) = Len(s) - n /\ Len(s) \in Nat
      /\ \A i \in 1..Len(t) : t[i] = s[n + i]
      /\ \A i \in 1..Len(t) : n + i \in 1..Len(s)
  OBVIOUS
<1> HIDE DEF t
<1>2. ASSUME NEW i \in 1..Len(t), NEW j \in 1..Len(t), t[i] \in first, t[j] \in second
      PROVE  i < j
  <2>1. n + i < n + j
    BY <1>1, <1>2 DEF Before
  <2> QED BY <1>1, <2>1
<1> QED BY <1>2 DEF Before, t

\* ... and in one sequence behind another.
LEMMA ConcatBefore ==
  ASSUME NEW S, NEW s \in Seq(S), NEW t \in Seq(S), NEW first, NEW second,
         Before(s, first, second), ~Has(t, second), ~Has(t, first) \/ ~Has(s, second)
  PROVE  Before(s \o t, first, second)
<1>1. /\ Len(s \o t) = Len(s) + Len(t) /\ Len(s) \in Nat /\ Len(t) \in Nat
      /\ \A i \in 1..Len(s) : (s \o t)[i] = s[i]
      /\ \A i \in 1..(Len(s) + Len(t)) : i > Len(s) =>
           (s \o t)[i] = t[i - Len(s)] /\ i - Len(s) \in 1..Len(t)
  OBVIOUS
<1>2. ASSUME NEW i \in 1..Len(s \o t), NEW j \in 1..Len(s \o t),
             (s \o t)[i] \in first, (s \o t)[j] \in second
      PROVE  i < j
  <2>1. j <= Len(s)
    <3>1. ~(j > Len(s))
      BY <1>1, <1>2 DEF Has
    <3> QED BY <1>1, <3>1
  <2>2. j \in 1..Len(s) /\ s[j] \in second
    BY <1>1, <1>2, <2>1
  <2>3. i <= Len(s)
    <3>1. ~(i > Len(s))
      <4> SUFFICES ASSUME i > Len(s) PROVE FALSE
        OBVIOUS
      <4>1. Has(t, first)
        BY <1>1, <1>2 DEF Has
      <4>2. Has(s, second)
        BY <2>2 DEF Has
      <4> QED BY <4>1, <4>2
    <3> QED BY <1>1, <3>1
  <2> QED BY <1>1, <1>2, <2>2, <2>3 DEF Before
<1> QED BY <1>2 DEF Before

\* The last message comes after the others.
LEMMA LastAfter ==
  ASSUME NEW S, NEW s \in Seq(S), NEW m \in S, NEW first, NEW second,
         ~Has(s, second), m \notin first
  PROVE  Before(Append(s, m), first, second)
<1>1. Before(s, first, second)
  BY DEF Has, Before
<1> QED BY <1>1, AppendBefore

\* Steps that lose nothing keep RetryInv.
LEMMA RetryFades ==
  ASSUME RetryInv, LineOrder', StatusOnce', txRetryCount \in Nat,
         txRetryCount' \in {0, txRetryCount}, faults' = faults \/ faults' = 1,
         Doomed' <=> Doomed, \A m \in Statuses : Loose(m)' => Loose(m),
         network' \subseteq network,
         Blocks' => Blocks \/ (SomeLoose /\ ~Doomed /\ ~SomeLoose'),
         Has(line', {Nack}) => Has(line, {Nack}),
         Queued("timer")' => Queued("timer") \/ (Doomed /\ Unseen = <<>>),
         txTimer' = "armed" => ~acked'
  PROVE  RetryInv'
<1>1. SomeLoose' => SomeLoose
  BY DEF SomeLoose
<1>2. Unseen = <<>> => \A m \in Statuses : Loose(m) => m \in network
  BY EmptyHas DEF Loose, Coming
<1> HIDE DEF line, Unseen
<1>3. /\ faults' \in {0, 1} /\ (faults' = 0 => faults = 0)
      /\ \A m, n \in Statuses : Loose(m)' /\ Loose(n)' => m = n
      /\ Blocks' => ~SomeLoose'
  BY <1>1 DEF RetryInv
<1>4. faults' = 0 => txRetryCount' = 0 /\ ~Doomed' /\ ~Blocks' /\ ~SomeLoose'
  BY <1>1, <1>3 DEF RetryInv
<1>5. Has(line', {Nack}) => faults' # 0 /\ txRetryCount' = 0 /\ ~SomeLoose'
  BY <1>1 DEF RetryInv
<1>6. Doomed' => txRetryCount' <= 1
  BY DEF RetryInv
<1>7. ASSUME Doomed', NEW m \in Statuses, Loose(m)', m \in network' \/ Queued("timer")'
      PROVE  txRetryCount' = 0
  <2>1. Loose(m) /\ (m \in network \/ Queued("timer"))
    BY <1>2, <1>7
  <2> QED BY <1>7, <2>1 DEF RetryInv
<1>8. ~Doomed' /\ (SomeLoose' \/ Blocks') => txRetryCount' <= 1
  BY <1>1 DEF RetryInv
<1>9. Queued("timer")' => Doomed'
  BY DEF RetryInv
<1> HIDE DEF Doomed, Loose, SomeLoose, Blocks, LineOrder, StatusOnce
<1> QED BY <1>3, <1>4, <1>5, <1>6, <1>7, <1>8, <1>9 DEF RetryInv

\* So does a new transmission, or the end of the last request, when the statuses
\* that are to come then are few enough.
LEMMA RetryFresh ==
  ASSUME LineOrder', StatusOnce', faults' \in {0, 1}, txRetryCount' \in Nat,
         ~Doomed', ~Blocks', ~Has(line', {Nack}), ~Queued("timer")',
         txTimer' = "armed" => ~acked',
         \A m, n \in Statuses : Coming(m)' /\ Coming(n)' => m = n,
         \A m \in Statuses : Coming(m)' => txRetryCount' <= 1 /\ faults' # 0,
         faults' = 0 => txRetryCount' = 0
  PROVE  RetryInv'
<1>1. \A m \in Statuses : Loose(m)' => Coming(m)'
  BY DEF Loose
<1> HIDE DEF line, Unseen, Doomed, Loose, Coming, Blocks, LineOrder, StatusOnce
<1> QED BY <1>1 DEF RetryInv, SomeLoose

\* And so does the one fault.
LEMMA RetryFault ==
  ASSUME LineOrder', StatusOnce', faults' = 1, txRetryCount' = 0, ~Blocks',
         ~Queued("timer")', txTimer' = "armed" => ~acked',
         \A m, n \in Statuses : Coming(m)' /\ Coming(n)' => m = n,
         Has(line', {Nack}) => \A m \in Statuses : ~Coming(m)'
  PROVE  RetryInv'
<1>1. \A m \in Statuses : Loose(m)' => Coming(m)'
  BY DEF Loose
<1> HIDE DEF line, Unseen, Doomed, Loose, Coming, Blocks, LineOrder, StatusOnce
<1> QED BY <1>1 DEF RetryInv, SomeLoose

\* Taking messages from the line, and having frames acknowledged, keeps their order.
LEMMA HostOrder ==
  ASSUME SystemTypeOK, TokenInv, LineOrder, StatusOnce, HostStep, OnTheWire
  PROVE  LineOrder' /\ StatusOnce'
<1>1. TypeOK /\ line \in Seq(Message) /\ Unseen \in Seq(DongleFrames)
      /\ network' = network
  BY LineType, UnseenType DEF SystemTypeOK, OnTheWire
<1>2. line' = line \/ (line # <<>> /\ line' = Tail(line)) \/ DropsSome
  BY <1>1, HostLine DEF LineKinds
<1>3. Unseen' = Unseen \/ (Unseen # <<>> /\ Unseen' = Tail(Unseen))
  BY HostUnseen
<1>4. ASSUME DropsSome PROVE Before(line', {Ack}, Tokens) /\ ~Has(line', {Unknown})
  <2>1. PICK n \in 1..Len(line) : line' = SubSeq(line, n + 1, Len(line))
    BY <1>4 DEF DropsSome
  <2>2. n \in 0..Len(line)
    OBVIOUS
  <2> HIDE DEF line
  <2>3. Before(line', {Ack}, Tokens)
    BY <1>1, <2>1, <2>2, SuffixBefore DEF LineOrder
  <2>4. ~Has(line', {Unknown})
    BY <1>1, <2>1, <2>2, SuffixHas DEF LineOrder
  <2> QED BY <2>3, <2>4
<1> HIDE DEF line, Unseen
<1>5. ASSUME line # <<>>, line' = Tail(line)
      PROVE  Before(line', {Ack}, Tokens) /\ ~Has(line', {Unknown})
  <2>1. Before(line', {Ack}, Tokens)
    BY <1>1, <1>5, TailBefore DEF LineOrder
  <2>2. ~Has(line', {Unknown})
    BY <1>1, <1>5, TailHas DEF LineOrder
  <2> QED BY <2>1, <2>2
<1>6. LineOrder'
  BY <1>2, <1>4, <1>5 DEF LineOrder
<1>7. ASSUME NEW m \in Statuses
      PROVE  Once(Unseen', {m}) /\ (m \in network' => ~Has(Unseen', {m}))
  <2>1. Once(Unseen, {m}) /\ (m \in network => ~Has(Unseen, {m}))
    BY DEF StatusOnce
  <2>2. CASE Unseen # <<>> /\ Unseen' = Tail(Unseen)
    <3>1. Once(Tail(Unseen), {m}) /\ (Has(Tail(Unseen), {m}) => Has(Unseen, {m}))
      BY <1>1, <2>1, <2>2, TailHas
    <3> QED BY <1>1, <2>1, <2>2, <3>1
  <2> QED BY <1>1, <1>3, <2>1, <2>2
<1>8. StatusOnce'
  BY <1>7 DEF StatusOnce
<1> QED BY <1>6, <1>8

\* No ACK of the dongle is lost in the buffer.
LEMMA AckStays ==
  ASSUME SystemTypeOK, LineOrder, HostStep, ~ReceiveAck
  PROVE  Has(line', {Ack}) <=> Has(line, {Ack})
<1>0. TypeOK /\ line \in Seq(Message)
  BY LineType DEF SystemTypeOK
<1>1. ASSUME NEW type, type # "ACK", Take(type)
      PROVE  Has(line', {Ack}) <=> Has(line, {Ack})
  <2>1. line # <<>> /\ line' = Tail(line) /\ Head(line).msg # "ACK"
    BY <1>0, <1>1, TakeLine
  <2> HIDE DEF line
  <2>2. Head(line) \notin {Ack}
    BY <2>1 DEF Ack
  <2> QED BY <1>0, <2>1, <2>2, TailHas
<1>2. CASE ReceiveGarbage
  <2>1. DropsSome /\ line # <<>> /\ Head(line).msg \in {"UNKNOWN", "CORRUPT"}
    BY <1>0, <1>2, EmptyLine, LineType DEF ReceiveGarbage
  <2> HIDE DEF line
  <2>2. Head(line) = Unknown \/ Head(line) = Corrupt
    <3>1. Head(line) \in Message
      BY <1>0, <2>1
    <3> QED BY <2>1, <3>1 DEF Message, Plain, Frame, Unknown, Corrupt
  <2>3. Head(line) \notin {Unknown}
    BY <1>0, <2>1, TailHas DEF LineOrder
  <2>4. Head(line) \in Tokens
    BY <2>2, <2>3, KindFacts
  <2>5. ~Has(line, {Ack})
    BY <1>0, <2>1, <2>4, TailBefore DEF LineOrder
  <2> QED BY <1>0, <2>1, <2>5, DropsHas
<1>3. CASE line' = line
  BY <1>3
<1>4. CASE TimerHandler \/ EndUpcall \/ Receive \/ \E r \in Requests : SendRequest(r)
  BY <1>3, <1>4 DEF TimerHandler, EndUpcall, Receive, SendRequest, receiveVars, line
<1>5. ASSUME NEW descriptor, NEW expired, PollWith(descriptor, expired) PROVE line' = line
  BY <1>5 DEF PollWith, receiveVars, line
<1>6. CASE ReadHandler
  BY <1>0, <1>3, <1>6, ReadLine
<1>7. CASE ReadMessage /\ ~ReceiveGarbage
  <2>1. Take("NACK") \/ Take("CAN") \/ Take("SOF")
    BY <1>7 DEF ReadMessage, ReceiveNack, ReceiveCan, ReceiveSecondFrame, ReceiveResponse,
                ReceiveSendResponse, ReceiveStatus, ReceiveRequest, ReceiveOther, TakeFrame
  <2> QED BY <1>1, <2>1
<1> QED BY <1>2, <1>3, <1>4, <1>5, <1>6, <1>7 DEF HostStep, LoopStep

\* What the host takes while its request is on the line was loose.
LEMMA TakenLoose ==
  ASSUME SystemTypeOK, TokenInv, ExchangeInv, StatusInv, StatusOnce, Reports = {},
         HostStep, OnTheWire, TakesFrame, Has(toDongle, HostFrames)
  PROVE  \E m \in Statuses : Loose(m) /\ ~Coming(m)'
<1>0. PICK m : m = Head(Unseen)
  OBVIOUS
<1>1. /\ Unseen \in Seq(DongleFrames) /\ Unseen # <<>> /\ Unseen' = Tail(Unseen)
      /\ m \in DongleFrames /\ network' = network
  BY <1>0, FrameTaken DEF OnTheWire
<1> HIDE DEF Unseen, line, Cur
<1>2. Has(Unseen, {m})
  <2>1. m \in {m}
    OBVIOUS
  <2> QED BY <1>0, <1>1, <2>1, TailHas
<1>3. m \in Statuses
  <2>1. ~Has(Unseen, Responses)
    BY DEF ExchangeInv
  <2>2. m \notin Responses
    BY <1>0, <1>1, <2>1, TailHas
  <2> QED BY <1>1, <2>2 DEF DongleFrames, ReportFrames
<1>4. Loose(m)
  BY <1>2, <1>3 DEF Loose, Coming, StatusInv
<1>5. ~Coming(m)'
  <2>1. m \notin network /\ Once(Unseen, {m})
    BY <1>2, <1>3 DEF StatusOnce
  <2>2. m \in {m}
    OBVIOUS
  <2>3. ~Has(Unseen', {m})
    BY <1>0, <1>1, <2>1, <2>2, TailHas
  <2> QED BY <1>1, <2>1, <2>3 DEF Coming
<1> QED BY <1>3, <1>4, <1>5

\* Steps of the host that send no request keep RetryInv.
LEMMA RetryKeeps ==
  ASSUME SystemTypeOK, TokenInv, ExchangeInv, StatusInv, RetryInv, Reports = {},
         HostStep, OnTheWire, written' \in {<<>>, <<Ack>>, <<Nack>>}, UNCHANGED funcId,
         written' = <<Ack>> => TakesFrame,
         requests' = <<>> <=> requests = <<>>, Cur' = Cur,
         \/ ReceiveAck
         \/ UNCHANGED <<txRetryCount, acked>> /\ (txTimer' = "armed" => txTimer = "armed"),
         Queued("timer")' => Queued("timer") \/ (Doomed /\ Unseen = <<>>)
  PROVE  RetryInv'
<1>1. /\ toDongle' = toDongle \o written' /\ toDongle \in Seq(HostMessages)
      /\ written' \in Seq(HostMessages) /\ network' = network /\ faults' = faults
  BY WrittenType DEF OnTheWire, SystemTypeOK, DongleTypeOK
<1>2. /\ ~Has(written', HostFrames) /\ (written' # <<Ack>> => ~Has(written', {Ack}))
  <2>1. Ack \notin HostFrames /\ Nack \notin HostFrames /\ Nack \notin {Ack}
    BY KindFacts
  <2> QED BY <2>1, EmptyHas, SingleHas
<1>3. LineOrder' /\ StatusOnce'
  BY HostOrder DEF RetryInv
<1>4. /\ \A m \in Statuses : Coming(m)' => Coming(m)
      /\ Has(line', {Nack}) => Has(line, {Nack})
  <2>1. {Nack} \in SUBSET {Nack}
    OBVIOUS
  <2> QED BY <2>1, HostTakes DEF Fewer
<1> HIDE DEF line, Unseen, Cur, Coming
<1>5. Has(toDongle', HostFrames) <=> Has(toDongle, HostFrames)
  BY <1>1, <1>2, ConcatHas
<1>6. ReceiveAck => Has(line, {Ack}) /\ acked' /\ txTimer' = "idle" /\ txRetryCount' = 0
  <2> SUFFICES ASSUME ReceiveAck PROVE Has(line, {Ack})
    BY DEF ReceiveAck
  <2>1. line # <<>> /\ Head(line).msg = "ACK" /\ line \in Seq(Message)
    BY TakeLine, LineType DEF ReceiveAck, SystemTypeOK
  <2>2. Head(line) \in {Ack}
    <3>1. Head(line) \in Message
      BY <2>1
    <3> QED BY <2>1, <3>1 DEF Message, Plain, Frame, Ack
  <2> QED BY <2>1, <2>2, TailHas
<1>7. Doomed' <=> Doomed
  <2>1. CASE ReceiveAck
    BY <1>6, <2>1 DEF Doomed
  <2>2. CASE ~ReceiveAck
    BY <1>5, <2>2, AckStays DEF Doomed, RetryInv
  <2> QED BY <2>1, <2>2
<1>8. \A m \in Statuses : Loose(m)' => Loose(m)
  BY <1>4, <1>7 DEF Loose
<1>9. Blocks' => Blocks \/ (SomeLoose /\ ~Doomed /\ ~SomeLoose')
  <2> SUFFICES ASSUME Blocks', ~Blocks PROVE SomeLoose /\ ~Doomed /\ ~SomeLoose'
    OBVIOUS
  <2>1. Has(written', {Ack}) /\ Has(toDongle, HostFrames)
    BY <1>1, <1>2, ConcatBefore DEF Blocks
  <2>2. TakesFrame
    BY <1>2, <2>1
  <2>3. PICK m \in Statuses : Loose(m) /\ ~Coming(m)'
    BY <2>1, <2>2, TakenLoose DEF RetryInv
  <2>4. ~SomeLoose'
    <3>1. ASSUME NEW n \in Statuses, Loose(n)' PROVE FALSE
      <4>1. n = m
        BY <1>8, <2>3, <3>1 DEF RetryInv
      <4> QED BY <2>3, <3>1, <4>1 DEF Loose
    <3> QED BY <3>1 DEF SomeLoose
  <2> QED BY <2>1, <2>3, <2>4 DEF SomeLoose, Doomed
<1>10. /\ txRetryCount \in Nat /\ txRetryCount' \in {0, txRetryCount}
       /\ txTimer' = "armed" => ~acked'
  BY <1>6 DEF SystemTypeOK, TypeOK, RetryInv
<1> HIDE DEF Doomed, Loose, SomeLoose, Blocks, LineOrder, StatusOnce
<1> QED BY <1>1, <1>3, <1>4, <1>7, <1>8, <1>9, <1>10, RetryFades

\* A new transmission: its frame comes last on the line to the dongle.
LEMMA NewRetry ==
  ASSUME SystemTypeOK, TokenInv, RetryInv, HostStep, OnTheWire, LoopInv',
         requests' \in Seq(Requests), requests' # <<>>,
         NEW before \in {<<>>, <<Ack>>}, Transmit(requests', before),
         ~Has(toDongle, HostFrames), ~Has(line', {Nack}), txRetryCount' \in Nat,
         \A m, n \in Statuses : Coming(m)' /\ Coming(n)' => m = n,
         \A m \in Statuses : Coming(m)' => txRetryCount' <= 1 /\ faults # 0,
         faults = 0 => txRetryCount' = 0
  PROVE  RetryInv'
<1> DEFINE f == RequestFrame(Head(requests'), IdFor(Head(requests')))
           s == toDongle \o before
<1>1. /\ written' = Append(before, f) /\ f \in HostFrames /\ f \in HostMessages
      /\ f # Ack /\ Ack \notin HostFrames /\ Ack \in HostMessages
  BY TransmitWrites, KindFacts DEF SystemTypeOK, HostMessages
<1>2. /\ toDongle \in Seq(HostMessages) /\ before \in Seq(HostMessages)
      /\ toDongle' = toDongle \o written' /\ faults' = faults
  <2>1. <<>> \in Seq(HostMessages) /\ <<Ack>> \in Seq(HostMessages)
    BY <1>1
  <2> QED BY <2>1 DEF OnTheWire, SystemTypeOK, DongleTypeOK
<1> HIDE DEF f, line, Unseen, Coming, Cur
<1>3. ~Has(s, HostFrames) /\ s \in Seq(HostMessages)
  <2>1. ~Has(before, HostFrames)
    BY <1>1, EmptyHas, SingleHas
  <2> QED BY <1>2, <2>1, ConcatHas
<1>4. toDongle' = Append(s, f)
  BY <1>1, <1>2, ConcatAppend
<1> HIDE DEF s
<1>5. ~Blocks'
  <2>1. f \notin {Ack}
    BY <1>1
  <2> QED BY <1>1, <1>3, <1>4, <2>1, LastAfter DEF Blocks
<1>6. ~Doomed'
  BY <1>1, <1>3, <1>4, AppendHas DEF Doomed
<1>7. txTimer' = "armed" /\ ~acked' /\ ~Queued("timer")'
  BY DEF Transmit, LoopInv
<1>8. LineOrder' /\ StatusOnce' /\ faults' \in {0, 1}
  BY <1>2, HostOrder DEF RetryInv
<1> HIDE DEF Doomed, Blocks, LineOrder, StatusOnce
<1> QED BY <1>2, <1>5, <1>6, <1>7, <1>8, RetryFresh

\* The end of a procedure leaves at most one loose status, and the retry count is
\* reset.
LEMMA EndRetry ==
  ASSUME SystemTypeOK, TokenInv, StatusInv, RetryInv, HostStep, OnTheWire, LoopInv',
         ReceiveResponse \/ ReceiveStatus,
         ~Has(toDongle, HostFrames), ~Has(line', {Nack})
  PROVE  RetryInv'
<1>1. /\ requests # <<>> /\ EndProcedure /\ TakesFrame /\ Pending(Head(rxBuffer))
      /\ requests' = Tail(requests) /\ Tail(requests) \in Seq(Requests)
      /\ txRetryCount' = 0 /\ faults' = faults /\ network' = network
  BY DEF ReceiveResponse, ReceiveStatus, TakeFrame, TakesFrame, Pending, EndProcedure,
         PopRequest, OnTheWire, SystemTypeOK, TypeOK
<1>2. \A m \in Statuses : Coming(m)' => Coming(m)
  BY HostTakes
<1>3. ASSUME NEW n \in Statuses, Coming(n)' PROVE Loose(n)
  <2> SUFFICES ASSUME Cur \in SendRequests, n.funcId = funcId[Cur] PROVE FALSE
    BY <1>2, <1>3 DEF Loose
  <2>1. ReceiveStatus
    BY DEF ReceiveResponse, Cur
  <2>2. PICK m : m = Head(Unseen)
    OBVIOUS
  <2>3. /\ Unseen \in Seq(DongleFrames) /\ Unseen # <<>> /\ Unseen' = Tail(Unseen)
        /\ m \in Statuses /\ MayMatch(Cur, m)
    BY <1>1, <2>1, <2>2, FrameTaken, FrameKinds DEF ReceiveStatus, TakeFrame, Cur
  <2> HIDE DEF Unseen, line, Cur
  <2>4. Has(Unseen, {m})
    <3>1. m \in {m}
      OBVIOUS
    <3> QED BY <2>2, <2>3, <3>1, TailHas
  <2>5. Coming(m) /\ m.funcId = funcId[Cur]
    BY <1>1, <2>3, <2>4 DEF Coming, StatusInv, MayMatch
  <2>6. n.data = Cur /\ m.data = Cur
    BY <1>1, <1>2, <1>3, <2>3, <2>5 DEF StatusInv
  <2>7. n = m
    BY <2>3, <2>5, <2>6 DEF Statuses, Frame
  <2>8. m \notin network /\ Once(Unseen, {m})
    BY <2>3, <2>4 DEF RetryInv, StatusOnce
  <2>9. ~Has(Unseen', {m})
    <3>1. m \in {m}
      OBVIOUS
    <3> QED BY <2>2, <2>3, <2>8, <3>1, TailHas
  <2> QED BY <1>1, <1>3, <2>7, <2>8, <2>9 DEF Coming
<1>4. /\ \A m, n \in Statuses : Coming(m)' /\ Coming(n)' => m = n
      /\ \A m \in Statuses : Coming(m)' => faults # 0
  BY <1>3 DEF RetryInv, SomeLoose
<1>5. CASE Tail(requests) # <<>>
  <2>1. Transmit(requests', <<Ack>>) /\ <<Ack>> \in {<<>>, <<Ack>>}
    BY <1>1, <1>5 DEF EndProcedure, SendNext, Transmit
  <2>2. txRetryCount' \in Nat /\ txRetryCount' <= 1
    BY <1>1
  <2> HIDE DEF Unseen, line, Coming
  <2> QED BY <1>1, <1>4, <1>5, <2>1, <2>2, NewRetry
<1>6. CASE Tail(requests) = <<>>
  <2>1. /\ written' = <<Ack>> /\ txTimer' = "idle"
    BY <1>1, <1>6 DEF EndProcedure, SendNext
  <2>2. ~Doomed' /\ ~Queued("timer")'
    BY <1>1, <1>6 DEF Doomed, LoopInv
  <2>3. ~Blocks'
    <3>1. /\ toDongle \in Seq(HostMessages) /\ <<Ack>> \in Seq(HostMessages)
          /\ toDongle' = toDongle \o <<Ack>> /\ Ack \notin HostFrames
      BY <2>1, KindFacts DEF OnTheWire, SystemTypeOK, DongleTypeOK, HostMessages
    <3> DEFINE t == <<Ack>>
    <3>2. ~Has(t, HostFrames)
      BY <3>1, SingleHas
    <3> HIDE DEF t
    <3>3. ~Has(toDongle \o t, HostFrames)
      BY <3>1, <3>2, ConcatHas DEF t
    <3> QED BY <3>1, <3>3 DEF Blocks, Before, Has, t
  <2>4. LineOrder' /\ StatusOnce' /\ faults' \in {0, 1}
    BY <1>1, HostOrder DEF RetryInv
  <2>5. txRetryCount' \in Nat /\ txRetryCount' <= 1
    BY <1>1
  <2> HIDE DEF Doomed, Blocks, LineOrder, StatusOnce, Unseen, line, Coming
  <2> QED BY <1>1, <1>4, <2>1, <2>2, <2>3, <2>4, <2>5, RetryFresh
<1> QED BY <1>5, <1>6

\* No request is given up: the timer expires only for a transmission that is
\* doomed, and a request is refused only the first time.
LEMMA NoGiveUp ==
  ASSUME SystemTypeOK, RetryInv, NothingGivenUp, [SystemNext]_systemVars
  PROVE  NothingGivenUp'
<1>0. TypeOK /\ outcome \in [Requests -> Outcomes] /\ txRetryCount \in Nat
  BY DEF SystemTypeOK, TypeOK
<1>1. CASE outcome' = outcome
  BY <1>1 DEF NothingGivenUp
<1>2. ASSUME NEW timer, Resend(timer), txRetryCount <= 1 PROVE NothingGivenUp'
  <2>1. TriesLeft
    BY <1>0, <1>2 DEF TriesLeft, MaxTries
  <2> QED BY <1>1, <1>2, <2>1 DEF Resend
<1>3. ASSUME NEW r \in Requests, SendRequest(r) PROVE NothingGivenUp'
  BY <1>0, <1>3 DEF SendRequest, NothingGivenUp
<1>4. CASE TimerHandler
  <2>1. Queued("timer")
    BY <1>0, <1>4 DEF TimerHandler, Dispatch, Queued, TypeOK
  <2>2. txRetryCount <= 1
    BY <2>1 DEF RetryInv
  <2> QED BY <1>1, <1>2, <1>4, <2>2 DEF TimerHandler, queueVars
<1>5. CASE ReceiveNack
  <2>1. line # <<>> /\ Head(line).msg = "NACK" /\ line \in Seq(Message)
    BY <1>0, <1>5, TakeLine, LineType DEF ReceiveNack
  <2> HIDE DEF line
  <2>2. Head(line) \in {Nack}
    <3>1. Head(line) \in Message
      BY <2>1
    <3> QED BY <2>1, <3>1 DEF Message, Plain, Frame, Nack
  <2>3. Has(line, {Nack})
    BY <2>1, <2>2, TailHas
  <2>4. txRetryCount <= 1
    BY <1>0, <2>3 DEF RetryInv
  <2> QED BY <1>1, <1>2, <1>5, <2>4 DEF ReceiveNack, queueVars
<1>6. CASE ReceiveResponse \/ ReceiveStatus
  <2>1. outcome' = [outcome EXCEPT ![Head(requests)] = "done"]
    BY <1>6 DEF ReceiveResponse, ReceiveStatus, EndProcedure, PopRequest
  <2> QED BY <1>0, <2>1 DEF NothingGivenUp
<1>7. CASE ReadMessage /\ ~ReceiveNack /\ ~ReceiveResponse /\ ~ReceiveStatus
  BY <1>1, <1>7 DEF ReadMessage, ReceiveAck, ReceiveCan, ReceiveGarbage, ReceiveSecondFrame,
                    ReceiveSendResponse, ReceiveRequest, ReceiveOther, queueVars
<1>8. CASE ReadHandler \/ EndUpcall \/ Receive
  BY <1>1, <1>8 DEF ReadHandler, EndUpcall, Receive, queueVars
<1>9. ASSUME NEW descriptor, NEW expired, PollWith(descriptor, expired) PROVE NothingGivenUp'
  BY <1>1, <1>9 DEF PollWith, queueVars
<1>10. CASE DongleStep \/ MakeReport
  <2>1. (\E m : Line(m)) \/ UNCHANGED vars
    BY <1>10, DongleSteps
  <2> QED BY <1>1, <2>1 DEF Line, vars, queueVars
<1>11. CASE UNCHANGED systemVars
  BY <1>1, <1>11 DEF systemVars, vars
<1> QED
  BY <1>3, <1>4, <1>5, <1>6, <1>7, <1>8, <1>9, <1>10, <1>11
     DEF SystemNext, Loop, Call, LoopStep

\* What is to come when the current request is still on its way, or refused, or
\* when there is none, is loose.
LEMMA AllLoose ==
  ASSUME StatusInv, NEW m \in Statuses, Coming(m),
         requests = <<>> \/ Doomed \/ Has(toDongle, HostFrames) \/ Has(line, {Nack})
  PROVE  Loose(m)
BY DEF Loose, StatusInv

\* The host keeps RetryInv.
LEMMA HostRetry ==
  ASSUME SystemTypeOK, LoopInv, TokenInv, ExchangeInv, StatusInv, RetryInv, Reports = {},
         HostStep, OnTheWire, LoopInv', NothingGivenUp'
  PROVE  RetryInv'
<1>0. /\ TypeOK /\ requests \in Seq(Requests) /\ <<>> \in {<<>>, <<Ack>>}
      /\ txRetryCount \in Nat /\ \A m \in Statuses : Coming(m)' => Coming(m)
  BY HostTakes DEF SystemTypeOK, TypeOK
<1>00. Fewer(line, line', {Nack})
  BY HostTakes
<1>000. Has(line', {Nack}) => Has(line, {Nack})
  <2>1. {Nack} \in SUBSET {Nack}
    OBVIOUS
  <2> HIDE DEF line
  <2> QED BY <1>00, <2>1 DEF Fewer
<1>1. ASSUME NEW r \in Requests, SendRequest(r) PROVE RetryInv'
  <2>1. requests' = Append(requests, r) /\ UNCHANGED <<ready, txRetryCount>>
    BY <1>1 DEF SendRequest
  <2>2. CASE requests = <<>>
    <3>1. requests' = <<r>> /\ Transmit(requests', <<>>) /\ requests' \in Seq(Requests)
          /\ requests' # <<>>
      BY <1>1, <2>1, <2>2 DEF SendRequest, Transmit
    <3>2. ~Has(toDongle, HostFrames) /\ ~Has(line', {Nack})
      BY <1>000, <2>2 DEF ExchangeInv
    <3>3. ~Doomed /\ \A m \in Statuses : Coming(m)' => Loose(m)
      BY <1>0, <2>2, AllLoose DEF Doomed
    <3>4. /\ \A m, n \in Statuses : Coming(m)' /\ Coming(n)' => m = n
          /\ \A m \in Statuses : Coming(m)' => txRetryCount' <= 1 /\ faults # 0
          /\ faults = 0 => txRetryCount' = 0
      BY <2>1, <3>3 DEF RetryInv, SomeLoose
    <3> HIDE DEF line, Unseen, Coming
    <3> QED BY <1>0, <2>1, <3>1, <3>2, <3>4, NewRetry
  <2>3. CASE requests # <<>>
    <3>1. /\ written' = <<>> /\ UNCHANGED <<funcId, acked, txTimer>> /\ requests' # <<>>
          /\ Cur' = Cur /\ <<>> # <<Ack>>
      BY <1>0, <1>1, <2>1, <2>3 DEF SendRequest, sendVars, Cur
    <3>2. Queued("timer")' => Queued("timer")
      BY <2>1 DEF Queued
    <3> HIDE DEF line, Unseen, Cur
    <3> QED BY <2>1, <2>3, <3>1, <3>2, RetryKeeps
  <2> QED BY <2>2, <2>3
<1>2. ASSUME NEW descriptor \in {<<>>, <<"read">>}, NEW expired \in BOOLEAN,
             PollWith(descriptor, expired), expired => Quiet
      PROVE  RetryInv'
  <2>1. /\ written' = <<>> /\ UNCHANGED <<funcId, requests, acked, txRetryCount>> /\ pc = "loop"
        /\ txTimer' = "armed" => txTimer = "armed"
        /\ expired => txTimer = "armed"
    BY <1>2 DEF PollWith, sendVars, queueVars, Dispatch
  <2>2. Queued("timer")' => Queued("timer") \/ (Doomed /\ Unseen = <<>>)
    <3>1. CASE expired
      <4>1. toDongle = <<>> /\ line = <<>> /\ Unseen = <<>>
        <5>1. toDongle = <<>> /\ outbox = <<>> /\ rx = <<>> /\ rxBuffer = <<>>
          BY <1>2, <2>1, <3>1 DEF Quiet, LoopInv
        <5>2. ~Has(toDongle, {Ack})
          BY <5>1, EmptyHas
        <5> QED BY <5>1, <5>2 DEF line, Unseen
      <4>2. ~acked /\ requests # <<>>
        BY <2>1, <3>1 DEF RetryInv, LoopInv
      <4> HIDE DEF line, Unseen
      <4> QED BY <4>1, <4>2, EmptyHas DEF Doomed
    <3>2. CASE ~expired
      <4>1. Queued("timer")' => Queued("timer")
        BY <1>0, <1>2, <3>2, PollKeepsTimer
      <4> QED BY <4>1
    <3> QED BY <3>1, <3>2
  <2>3. Cur' = Cur
    BY <2>1 DEF Cur
  <2>4. <<>> # <<Ack>>
    OBVIOUS
  <2> HIDE DEF line, Unseen, Cur
  <2> QED BY <2>1, <2>2, <2>3, <2>4, RetryKeeps
<1>3. ASSUME Transmit(requests, <<>>), requests' = requests, requests # <<>>,
             ~Has(toDongle, HostFrames), ~Has(line', {Nack}), faults # 0,
             txRetryCount' \in Nat, SomeLoose => txRetryCount' <= 1, Doomed \/ Has(line, {Nack})
      PROVE  RetryInv'
  <2>1. Transmit(requests', <<>>) /\ requests' \in Seq(Requests) /\ requests' # <<>>
    BY <1>0, <1>3 DEF Transmit
  <2>2. \A m \in Statuses : Coming(m)' => Loose(m)
    BY <1>0, <1>3, AllLoose
  <2>3. /\ \A m, n \in Statuses : Coming(m)' /\ Coming(n)' => m = n
        /\ \A m \in Statuses : Coming(m)' => txRetryCount' <= 1 /\ faults # 0
    BY <1>3, <2>2 DEF RetryInv, SomeLoose
  <2> HIDE DEF line, Unseen, Coming
  <2> QED BY <1>0, <1>3, <2>1, <2>3, NewRetry
<1>4. CASE TimerHandler
  <2>1. Queued("timer") /\ requests # <<>>
    <3>1. ready = <<"timer", "task">>
      BY <1>4, ReadyFacts DEF LoopInv, TimerHandler, Dispatch
    <3> QED BY <3>1, ReadyFacts DEF LoopInv
  <2>2. Resend(txTimer)
    BY <1>4, <2>1 DEF TimerHandler
  <2>3. requests' = requests /\ Transmit(requests, <<>>)
    BY <1>0, <2>1, <2>2, ResendSends
  <2>4. Doomed /\ faults # 0
    BY <2>1 DEF RetryInv
  <2>5. txRetryCount <= 1 /\ (SomeLoose => txRetryCount = 0)
    BY <2>1, <2>4 DEF RetryInv, SomeLoose
  <2>6. txRetryCount' = txRetryCount + 1
    <3>1. TriesLeft
      BY <1>0, <2>5 DEF TriesLeft, MaxTries
    <3> QED BY <2>2, <3>1 DEF Resend
  <2>7. ~Has(toDongle, HostFrames) /\ ~Has(line', {Nack})
    BY <1>000, <2>1 DEF ExchangeInv
  <2>8. txRetryCount' \in Nat /\ (SomeLoose => txRetryCount' <= 1)
    BY <1>0, <2>5, <2>6
  <2> HIDE DEF line, Doomed, SomeLoose
  <2> QED BY <1>3, <2>1, <2>3, <2>4, <2>7, <2>8
<1>5. CASE ReceiveNack /\ requests # <<>>
  <2>1. Resend("idle")
    BY <1>5 DEF ReceiveNack
  <2>2. requests' = requests /\ Transmit(requests, <<>>)
    BY <1>0, <1>5, <2>1, ResendSends
  <2>3. Has(line, {Nack}) /\ ~Has(line', {Nack})
    <3>1. line # <<>> /\ Head(line).msg = "NACK" /\ line' = Tail(line) /\ line \in Seq(Message)
      BY <1>0, <1>5, TakeLine, LineType DEF ReceiveNack
    <3> HIDE DEF line
    <3>2. Head(line) \in Message
      BY <3>1
    <3>3. Head(line) \in {Nack}
      BY <3>1, <3>2 DEF Message, Plain, Frame, Nack
    <3> QED BY <3>1, <3>3, TailHas DEF ExchangeInv
  <2>4. ~Has(toDongle, HostFrames) /\ faults # 0 /\ txRetryCount = 0 /\ ~SomeLoose
    BY <2>3 DEF ExchangeInv, RetryInv
  <2>5. txRetryCount' = 1
    <3>1. TriesLeft
      BY <2>4 DEF TriesLeft, MaxTries
    <3> QED BY <2>1, <2>4, <3>1 DEF Resend
  <2> HIDE DEF line, Doomed, SomeLoose
  <2> QED BY <1>3, <1>5, <2>2, <2>3, <2>4, <2>5
<1>6. ASSUME UNCHANGED <<requests, funcId>>, written' \in {<<>>, <<Ack>>, <<Nack>>},
             written' = <<Ack>> => TakesFrame,
             \/ ReceiveAck
             \/ UNCHANGED <<txRetryCount, acked>> /\ (txTimer' = "armed" => txTimer = "armed"),
             Queued("timer")' => Queued("timer")
      PROVE  RetryInv'
  <2>1. Cur' = Cur
    BY <1>6 DEF Cur
  <2> HIDE DEF line, Unseen, Cur
  <2> QED BY <1>6, <2>1, RetryKeeps
<1>7. ASSUME ReadMessage PROVE Queued("timer")' => Queued("timer")
  BY <1>0, <1>7, ReadKeepsTimer
<1>8. <<>> # <<Ack>> /\ <<Nack>> # <<Ack>>
  <2>1. Len(<<>>) = 0 /\ Len(<<Ack>>) = 1 /\ <<Ack>>[1] = Ack /\ <<Nack>>[1] = Nack
    OBVIOUS
  <2> QED BY <2>1, KindFacts
<1>9. CASE ReadHandler \/ EndUpcall \/ Receive
  <2>1. Queued("timer")' => Queued("timer")
    BY <1>0, <1>9, ReadKeepsTimer
  <2> QED BY <1>6, <1>8, <1>9, <2>1 DEF ReadHandler, EndUpcall, Receive, queueVars, sendVars
<1>10. CASE ReceiveAck
  BY <1>6, <1>7, <1>8, <1>10 DEF ReadMessage, ReceiveAck, sendVars
<1>11. CASE ReceiveCan \/ ReceiveGarbage \/ ReceiveSecondFrame
  BY <1>6, <1>7, <1>8, <1>11 DEF ReadMessage, ReceiveCan, ReceiveGarbage, ReceiveSecondFrame,
                                 queueVars, sendVars
<1>12. CASE ReceiveSendResponse \/ ReceiveRequest \/ ReceiveOther
  BY <1>6, <1>7, <1>12 DEF ReadMessage, TakesFrame, ReceiveSendResponse, ReceiveRequest,
                           ReceiveOther, queueVars, sendVars
<1>13. CASE ReceiveNack /\ requests = <<>>
  BY <1>6, <1>7, <1>8, <1>13 DEF ReadMessage, ReceiveNack, queueVars, sendVars
<1>14. CASE ReceiveResponse \/ ReceiveStatus
  <2>1. ~Has(toDongle, HostFrames) /\ ~Has(line, {Nack})
    BY <1>14, ResponseTaken, StatusTaken
  <2> HIDE DEF line
  <2> QED BY <1>000, <1>14, <2>1, EndRetry
<1> QED
  BY <1>1, <1>2, <1>4, <1>5, <1>9, <1>10, <1>11, <1>12, <1>13, <1>14
     DEF HostStep, LoopStep, ReadMessage

\* What the dongle puts on the line keeps its order: an ACK only when nothing of
\* a frame is left there.
LEMMA LineKeepsOrder ==
  ASSUME SystemTypeOK, LineOrder, NEW m \in Message, m # Unknown,
         UNCHANGED vars \/ Line(m), m = Ack => ~Has(line, Tokens)
  PROVE  /\ LineOrder'
         /\ m # Ack => (Has(line', {Ack}) <=> Has(line, {Ack}))
         /\ m # Nack => (Has(line', {Nack}) <=> Has(line, {Nack}))
         /\ UNCHANGED <<requests, txRetryCount, funcId, acked, txTimer, ready>> /\ Cur' = Cur
         /\ Queued("timer")' = Queued("timer")
<1>1. CASE UNCHANGED vars
  <2>1. line' = line
    BY <1>1, LineSame
  <2>2. UNCHANGED <<requests, txRetryCount, funcId, acked, txTimer, ready>>
    BY <1>1 DEF vars
  <2> QED BY <2>1, <2>2 DEF LineOrder, Cur, Queued
<1>2. CASE Line(m)
  <2>1. TypeOK /\ line \in Seq(Message) /\ Ack \notin Tokens
    BY LineType, KindFacts DEF SystemTypeOK
  <2>2. UNCHANGED <<requests, txRetryCount, funcId, acked, txTimer, ready>>
    BY <1>2 DEF Line, queueVars, sendVars
  <2>3. line' = Append(line, m)
    <3>1. rx \in Seq(Message) /\ rxBuffer \in Seq(Message)
          /\ line' = rxBuffer \o Append(rx, m)
      BY <1>2, <2>1 DEF Line, line, TypeOK
    <3> QED BY <3>1, ConcatAppend DEF line
  <2> HIDE DEF line
  <2>4. Before(line', {Ack}, Tokens)
    <3>1. m \in {Ack} => m \notin Tokens /\ ~Has(line, Tokens)
      BY <2>1
    <3>2. Before(line, {Ack}, Tokens)
      BY DEF LineOrder
    <3> QED BY <2>1, <2>3, <3>1, <3>2, AppendBefore
  <2>5. ~Has(line', {Unknown})
    BY <2>1, <2>3, AppendHas DEF LineOrder
  <2>6. /\ m # Ack => (Has(line', {Ack}) <=> Has(line, {Ack}))
        /\ m # Nack => (Has(line', {Nack}) <=> Has(line, {Nack}))
    BY <2>1, <2>3, AppendHas
  <2> QED BY <2>2, <2>4, <2>5, <2>6 DEF LineOrder, Cur, Queued
<1> QED BY <1>1, <1>2

\* A fault is the first one.
LEMMA FirstFault ==
  ASSUME MaxFaults <= 1, RetryInv, NEW kind, Fault(kind)
  PROVE  faults = 0 /\ faults' = 1
BY DongleAssumption DEF Fault, RetryInv

\* Steps of the dongle by which no request is lost.
LEMMA DongleRetryKeeps ==
  ASSUME SystemTypeOK, StatusInv, RetryInv, NEW m \in Message, m \notin {Ack, Nack, Unknown},
         UNCHANGED vars \/ Line(m), faults' = faults \/ faults' = 1,
         Has(toDongle', HostFrames) <=> Has(toDongle, HostFrames), Blocks' => Blocks,
         network' \subseteq network, \A n \in Statuses : Coming(n)' => Coming(n), StatusOnce'
  PROVE  RetryInv'
<1>1. LineOrder
  BY DEF RetryInv
<1> HIDE DEF line, Unseen, Cur, Coming, Blocks, StatusOnce, LineOrder
<1>2. /\ LineOrder' /\ (Has(line', {Ack}) <=> Has(line, {Ack}))
      /\ Has(line', {Nack}) <=> Has(line, {Nack})
      /\ UNCHANGED <<requests, txRetryCount, funcId, acked, txTimer, ready>> /\ Cur' = Cur
      /\ Queued("timer")' = Queued("timer")
  BY <1>1, LineKeepsOrder
<1>3. Doomed' <=> Doomed
  BY <1>2 DEF Doomed
<1>4. \A n \in Statuses : Loose(n)' => Loose(n)
  BY <1>2, <1>3 DEF Loose
<1>5. txRetryCount \in Nat /\ txRetryCount' \in {0, txRetryCount}
      /\ (txTimer' = "armed" => ~acked')
  BY <1>2 DEF SystemTypeOK, TypeOK, RetryInv
<1> HIDE DEF Doomed, Loose, SomeLoose
<1> QED BY <1>2, <1>3, <1>4, <1>5, RetryFades

\* The end of a request on the line to the dongle.
LEMMA ArriveRetry ==
  ASSUME SystemTypeOK, TokenInv, ExchangeInv, RetryInv, Arrives("SOF")
  PROVE  /\ Head(toDongle) \in HostFrames /\ Head(toDongle) # Ack
         /\ Has(toDongle, HostFrames) /\ ~Has(toDongle', HostFrames) /\ ~Blocks'
         /\ ~Has(line, {Nack}) /\ ~Has(Unseen, Responses)
         /\ requests # <<>> /\ ~Queued("timer") /\ ~Doomed
<1>1. Head(toDongle) \in HostFrames /\ Head(toDongle) # Ack
  BY ArriveType, KindFacts
<1>2. Has(toDongle, HostFrames) /\ ~Has(toDongle', HostFrames)
  BY <1>1, ArriveHas DEF ExchangeInv
<1>3. ~Blocks'
  BY <1>2 DEF Blocks, Before, Has
<1> HIDE DEF line, Unseen, Blocks
<1> QED BY <1>1, <1>2, <1>3 DEF ExchangeInv, Doomed

\* A request the dongle takes: its status is the one that is to come, unless the
\* ACK is lost.
LEMMA TakeRetry ==
  ASSUME MaxFaults <= 1, SystemTypeOK, TokenInv, ExchangeInv, StatusInv, RetryInv, TakeRequest
  PROVE  RetryInv'
<1>0. PICK f : f = Head(toDongle)
  OBVIOUS
<1>1. /\ Arrives("SOF") /\ ~awaiting /\ outbox' = Append(outbox, Response(f))
      /\ network' = (IF f.request \in SendRequests THEN network \cup {Status(f)} ELSE network)
  BY <1>0 DEF TakeRequest, Accept
<1>2. /\ f \in HostFrames /\ f # Ack /\ Has(toDongle, HostFrames) /\ ~Has(toDongle', HostFrames)
      /\ ~Blocks' /\ ~Has(line, {Nack}) /\ requests # <<>> /\ ~Queued("timer") /\ ~Doomed
  BY <1>0, <1>1, ArriveRetry
<1>3. /\ Response(f) \in DongleFrames /\ Response(f) \notin Statuses
      /\ f.request \in SendRequests => Status(f) \in Statuses /\ Status(f).funcId = f.funcId
  <2>1. Response(f) \in Responses
    BY <1>2, AnswerTypes
  <2> QED BY <1>2, <2>1, AnswerTypes DEF Status, DongleFrame, Responses, Statuses, DongleFrames
<1>4. Unseen' = Append(Unseen, Response(f)) /\ Unseen \in Seq(DongleFrames)
  BY <1>0, <1>1, <1>2, ArriveUnseen, UnseenType
<1>5. /\ Ack \in Message /\ Ack # Unknown /\ Ack # Nack /\ LineOrder /\ ~Has(line, Tokens)
      /\ UNCHANGED vars \/ Line(Ack)
  BY <1>1, FramesAreMessages, KindFacts
     DEF Unknown, Ack, RetryInv, TokenInv, TakeRequest
<1> HIDE DEF line, Unseen, Cur
<1>6. /\ LineOrder' /\ ~Has(line', {Nack})
      /\ UNCHANGED <<requests, txRetryCount, funcId, acked, txTimer, ready>> /\ Cur' = Cur
      /\ ~Queued("timer")'
  BY <1>2, <1>5, LineKeepsOrder
<1>7. f.request = Cur /\ (Cur \in SendRequests => f.funcId = funcId[Cur])
  <2>1. f = RequestFrame(Cur, LastId)
    <3>1. f \in HostFrames \ {RequestFrame(Cur, LastId)} => FALSE
      BY <1>0, <1>1, ArriveHas DEF ExchangeInv
    <3> QED BY <1>2, <3>1
  <2> QED BY <2>1 DEF RequestFrame, LastId
<1>8. ASSUME NEW n \in Statuses
      PROVE  /\ Has(Unseen', {n}) <=> Has(Unseen, {n})
             /\ Once(Unseen, {n}) => Once(Unseen', {n})
             /\ Coming(n)' => Coming(n) \/ (f.request \in SendRequests /\ n = Status(f))
             /\ Coming(n) => (Loose(n) /\ n # Status(f)) \/ f.request \notin SendRequests
  <2>1. Response(f) \notin {n}
    BY <1>3
  <2>2. /\ Has(Unseen', {n}) <=> Has(Unseen, {n})
        /\ Once(Unseen, {n}) => Once(Unseen', {n})
    BY <1>3, <1>4, <2>1, AppendHas
  <2>3. Coming(n)' => Coming(n) \/ (f.request \in SendRequests /\ n = Status(f))
    BY <1>1, <2>2 DEF Coming
  <2>4. ASSUME Coming(n), f.request \in SendRequests PROVE Loose(n) /\ n # Status(f)
    <3>1. Loose(n)
      BY <1>2, <2>4, AllLoose
    <3>2. n.funcId # funcId[Cur]
      BY <1>2, <1>7, <2>4 DEF StatusInv
    <3> QED BY <1>3, <1>7, <2>4, <3>1, <3>2
  <2> QED BY <2>2, <2>3, <2>4
<1>9. StatusOnce'
  <2>1. ASSUME NEW n \in Statuses
        PROVE  Once(Unseen', {n}) /\ (n \in network' => ~Has(Unseen', {n}))
    <3>1. Once(Unseen, {n}) /\ (n \in network => ~Has(Unseen, {n}))
      BY DEF RetryInv, StatusOnce
    <3>2. n = Status(f) /\ f.request \in SendRequests => ~Has(Unseen, {n})
      BY <1>8 DEF Coming
    <3>3. n \in network' => n \in network \/ (n = Status(f) /\ f.request \in SendRequests)
      BY <1>1
    <3> QED BY <1>8, <3>1, <3>2, <3>3
  <2> QED BY <2>1 DEF StatusOnce
<1>10. txRetryCount \in Nat /\ (txTimer' = "armed" => ~acked')
  BY <1>6 DEF SystemTypeOK, TypeOK, RetryInv
<1>11. CASE Line(Ack) /\ UNCHANGED faults
  <2>1. ~Doomed'
    <3>1. TypeOK /\ Ack \in {Ack}
      BY DEF SystemTypeOK
    <3>2. Has(line', {Ack})
      BY <1>5, <1>11, <3>1, LineHas
    <3> QED BY <3>2 DEF Doomed
  <2>2. ASSUME NEW n \in Statuses, Loose(n)' PROVE Loose(n)
    <3>1. Coming(n)'
      BY <2>2 DEF Loose
    <3>2. ~(f.request \in SendRequests /\ n = Status(f))
      BY <1>2, <1>3, <1>6, <1>7, <2>1, <2>2 DEF Loose
    <3> QED BY <1>2, <1>8, <3>1, <3>2, AllLoose
  <2>3. SomeLoose' => SomeLoose
    BY <2>2 DEF SomeLoose
  <2>4. \A m, n \in Statuses : Loose(m)' /\ Loose(n)' => m = n
    BY <2>2 DEF RetryInv
  <2>5. faults' \in {0, 1} /\ (faults' = 0 => txRetryCount' = 0 /\ ~SomeLoose')
    BY <1>6, <1>11, <2>3 DEF RetryInv
  <2>6. SomeLoose' => txRetryCount' <= 1
    BY <1>2, <1>6, <2>3 DEF RetryInv
  <2> HIDE DEF Doomed, Loose, SomeLoose, Blocks, LineOrder, StatusOnce
  <2> QED BY <1>2, <1>6, <1>9, <1>10, <2>1, <2>4, <2>5, <2>6 DEF RetryInv
<1>12. CASE Fault("ack")
  <2>1. faults = 0 /\ faults' = 1 /\ txRetryCount = 0 /\ ~SomeLoose
    BY <1>12, FirstFault DEF RetryInv
  <2>2. \A n \in Statuses : ~Coming(n)
    BY <1>2, <2>1, AllLoose DEF SomeLoose
  <2>3. \A m, n \in Statuses : Coming(m)' /\ Coming(n)' => m = n
    BY <1>8, <2>2
  <2> HIDE DEF Coming, Blocks, LineOrder, StatusOnce
  <2> QED BY <1>2, <1>6, <1>9, <1>10, <2>1, <2>3, RetryFault
<1> QED BY <1>11, <1>12 DEF TakeRequest

\* A request the dongle cancels, because it waits for an ACK: either that ACK is
\* on the line behind the request, or the frame it is to come for is loose.
LEMMA CancelRetry ==
  ASSUME SystemTypeOK, TokenInv, ExchangeInv, StatusInv, RetryInv, Reports = {}, CancelRequest
  PROVE  RetryInv'
<1>0. PICK m : m = [msg |-> "CAN"]
  OBVIOUS
<1>1. /\ Arrives("SOF") /\ awaiting /\ outbox' = outbox /\ network' = network /\ faults' = faults
      /\ m \in Message /\ m # Unknown /\ m # Ack /\ m # Nack /\ Line(m) /\ LineOrder
  BY <1>0, FramesAreMessages DEF CancelRequest, Unknown, Ack, Nack, RetryInv
<1>2. /\ Head(toDongle) \in HostFrames /\ Head(toDongle) # Ack /\ toDongle # <<>>
      /\ Has(toDongle, HostFrames) /\ ~Has(toDongle', HostFrames) /\ ~Blocks'
      /\ ~Has(line, {Nack}) /\ ~Has(Unseen, Responses)
      /\ requests # <<>> /\ ~Queued("timer") /\ ~Doomed
  BY <1>1, ArriveRetry DEF Arrives
<1>3. Unseen' = Unseen /\ Unseen \in Seq(DongleFrames)
      /\ outbox # <<>> /\ toDongle \in Seq(HostMessages)
  BY <1>1, <1>2, ArriveUnseen, UnseenType DEF SystemTypeOK, DongleTypeOK
<1>4. Has(toDongle, {Ack}) => Blocks
  BY <1>2, <1>3, TailBefore DEF Blocks
<1>5. ~Has(toDongle, {Ack}) => Unseen = outbox
  BY DEF Unseen
<1>6. \A n \in Statuses : Coming(n) => Loose(n)
  BY <1>2, AllLoose
<1> HIDE DEF line, Unseen, Cur
<1>7. /\ LineOrder' /\ ~Has(line', {Nack})
      /\ UNCHANGED <<requests, txRetryCount, funcId, acked, txTimer, ready>> /\ Cur' = Cur
      /\ ~Queued("timer")'
  BY <1>1, <1>2, LineKeepsOrder
<1>8. \A n \in Statuses : Loose(n)' => Loose(n)
  BY <1>1, <1>3, <1>6 DEF Loose, Coming
<1>9. StatusOnce'
  BY <1>1, <1>3 DEF RetryInv, StatusOnce
<1>10. CASE Has(toDongle, {Ack})
  <2>1. Blocks /\ ~SomeLoose
    BY <1>4, <1>10 DEF RetryInv
  <2>2. ~SomeLoose'
    BY <1>8, <2>1 DEF SomeLoose
  <2>3. faults # 0 /\ txRetryCount <= 1
    BY <1>2, <2>1 DEF RetryInv
  <2> HIDE DEF Doomed, Loose, Blocks, LineOrder, StatusOnce
  <2> QED BY <1>1, <1>2, <1>7, <1>9, <2>2, <2>3 DEF RetryInv, SomeLoose
<1>11. CASE ~Has(toDongle, {Ack})
  <2>0. PICK s : s = Head(Unseen)
    OBVIOUS
  <2>1. Unseen # <<>> /\ s \in DongleFrames
    BY <1>3, <1>5, <1>11, <2>0
  <2>2. Has(Unseen, {s}) /\ s \in Statuses
    <3>1. s \in {s}
      OBVIOUS
    <3>2. Has(Unseen, {s})
      BY <1>3, <2>0, <2>1, <3>1, TailHas
    <3>3. s \notin Responses
      BY <1>2, <1>3, <2>0, <2>1, TailHas
    <3> QED BY <2>1, <3>2, <3>3 DEF DongleFrames, ReportFrames
  <2>3. Loose(s)
    BY <1>6, <2>2 DEF Coming
  <2>4. faults # 0 /\ txRetryCount <= 1 /\ ~Blocks
    BY <1>2, <2>2, <2>3 DEF RetryInv, SomeLoose
  <2>5. ASSUME NEW n \in Statuses, Loose(n)', n \in network' PROVE FALSE
    <3>1. n = s
      BY <1>8, <2>2, <2>3, <2>5 DEF RetryInv
    <3> QED BY <1>1, <2>2, <2>5, <3>1 DEF RetryInv, StatusOnce
  <2>6. \A n, o \in Statuses : Loose(n)' /\ Loose(o)' => n = o
    BY <1>8 DEF RetryInv
  <2> HIDE DEF Doomed, Loose, Blocks, LineOrder, StatusOnce
  <2>7. /\ faults' \in {0, 1} /\ faults' # 0 /\ txRetryCount' <= 1
        /\ (txTimer' = "armed" => ~acked')
    BY <1>1, <1>7, <2>4 DEF RetryInv
  <2>8. Doomed' /\ (\E n \in Statuses : Loose(n)' /\ (n \in network' \/ Queued("timer")')) =>
          txRetryCount' = 0
    BY <1>7, <2>5
  <2> QED BY <1>2, <1>7, <1>9, <2>6, <2>7, <2>8 DEF RetryInv
<1> QED BY <1>10, <1>11

\* A request that is lost, or refused: that is the fault.
LEMMA MissRetry ==
  ASSUME MaxFaults <= 1, SystemTypeOK, TokenInv, ExchangeInv, StatusInv, RetryInv, MissRequest
  PROVE  RetryInv'
<1>1. /\ Arrives("SOF") /\ outbox' = outbox /\ network' = network
      /\ UNCHANGED vars \/ Line(Nack)
      /\ Nack \in Message /\ Nack # Unknown /\ Nack # Ack /\ LineOrder
  BY FramesAreMessages DEF MissRequest, Unknown, Ack, Nack, RetryInv
<1>2. /\ faults = 0 /\ faults' = 1 /\ txRetryCount = 0 /\ ~SomeLoose
  BY FirstFault DEF MissRequest, RetryInv
<1>3. /\ Head(toDongle) # Ack /\ Has(toDongle, HostFrames) /\ ~Blocks' /\ ~Queued("timer")
  BY <1>1, ArriveRetry
<1>4. Unseen' = Unseen
  BY <1>1, <1>3, ArriveUnseen
<1>5. \A n \in Statuses : ~Coming(n)
  BY <1>2, <1>3, AllLoose DEF SomeLoose
<1> HIDE DEF line, Unseen, Cur
<1>6. /\ LineOrder'
      /\ UNCHANGED <<requests, txRetryCount, funcId, acked, txTimer, ready>>
      /\ ~Queued("timer")'
  BY <1>1, <1>3, LineKeepsOrder
<1>7. StatusOnce' /\ \A n \in Statuses : ~Coming(n)'
  BY <1>1, <1>4, <1>5 DEF RetryInv, StatusOnce, Coming
<1>8. txTimer' = "armed" => ~acked'
  BY <1>6 DEF RetryInv
<1> HIDE DEF Coming, Blocks, LineOrder, StatusOnce
<1> QED BY <1>2, <1>3, <1>6, <1>7, <1>8, RetryFault

\* The dongle keeps RetryInv.
LEMMA DongleRetry ==
  ASSUME "hostAck" \notin Faults, "late" \notin Faults, MaxFaults <= 1, Reports = {},
         SystemTypeOK, TokenInv, ExchangeInv, StatusInv, RetryInv, DongleStep \/ MakeReport
  PROVE  RetryInv'
<1>0. PICK c : c = [msg |-> "CAN"]
  OBVIOUS
<1>00. c \in Message /\ c \notin {Ack, Nack, Unknown} /\ StatusOnce
  BY <1>0, FramesAreMessages DEF Unknown, Ack, Nack, RetryInv
<1>1. CASE TakeRequest
  BY <1>1, TakeRetry
<1>2. CASE CancelRequest
  BY <1>2, CancelRetry
<1>3. CASE MissRequest
  BY <1>3, MissRetry
<1>4. CASE TakeAck \/ TakeNack
  <2>1. PICK msg \in {"ACK", "NACK"} : Arrives(msg)
    BY <1>4 DEF TakeAck, TakeNack
  <2>2. network' = network /\ UNCHANGED vars /\ faults' = faults
    BY <1>4 DEF TakeAck, TakeNack, Fault
  <2>3. Head(toDongle) \notin HostFrames /\ toDongle # <<>> /\ toDongle \in Seq(HostMessages)
        /\ toDongle' = Tail(toDongle)
    <3>1. Head(toDongle).msg \in {"ACK", "NACK"}
      BY <2>1 DEF Arrives
    <3> QED BY <2>1, <3>1 DEF Arrives, HostFrames, SystemTypeOK, DongleTypeOK
  <2>4. Unseen' = Unseen
    <3>1. CASE TakeAck
      BY <3>1, AckUnseen
    <3>2. CASE TakeNack
      <4>1. Arrives("NACK") /\ Head(toDongle) # Ack /\ outbox' = outbox
        BY <3>2 DEF TakeNack, Arrives, Ack
      <4> QED BY <4>1, ArriveUnseen
    <3> QED BY <1>4, <3>1, <3>2
  <2>5. Has(toDongle', HostFrames) <=> Has(toDongle, HostFrames)
    BY <2>3, TailHas
  <2>6. Blocks' => Blocks
    BY <2>3, TailBefore DEF Blocks
  <2> HIDE DEF line, Unseen, Blocks
  <2>7. StatusOnce' /\ \A n \in Statuses : Coming(n)' => Coming(n)
    BY <1>00, <2>2, <2>4 DEF StatusOnce, Coming
  <2> HIDE DEF StatusOnce, Coming
  <2> QED BY <1>00, <2>2, <2>5, <2>6, <2>7, DongleRetryKeeps
<1>5. CASE SendFrame \/ SendAgain
  <2>1. /\ PutFrame /\ outbox # <<>> /\ UNCHANGED <<toDongle, outbox, network>>
    BY <1>5 DEF SendFrame, SendAgain, Fault, SystemTypeOK, DongleTypeOK
  <2>2. Unseen' = Unseen /\ (Blocks' <=> Blocks)
    BY <2>1 DEF Unseen, Blocks
  <2>3. PICK m : /\ m \in Message /\ m \notin {Ack, Nack, Unknown}
                 /\ UNCHANGED vars \/ Line(m)
    <3>0. Head(outbox) \in Frame /\ Frame \subseteq Message
      BY <2>1, FramesAreMessages DEF SystemTypeOK, DongleTypeOK
    <3>1. Head(outbox) \in Message /\ Head(outbox).msg = "SOF" /\ Corrupt \in Message
      BY <3>0, FramesAreMessages DEF Frame, Corrupt
    <3>2. Head(outbox) \notin {Ack, Nack, Unknown} /\ Corrupt \notin {Ack, Nack, Unknown}
      BY <3>1 DEF Corrupt, Ack, Nack, Unknown
    <3> QED BY <2>1, <3>1, <3>2 DEF PutFrame, Corrupt
  <2>4. faults' = faults \/ faults' = 1
    BY <2>1, FirstFault DEF PutFrame
  <2> HIDE DEF line, Unseen, Blocks
  <2>5. StatusOnce' /\ \A n \in Statuses : Coming(n)' => Coming(n)
    BY <1>00, <2>1, <2>2 DEF StatusOnce, Coming
  <2> HIDE DEF StatusOnce, Coming
  <2> QED BY <2>1, <2>2, <2>3, <2>4, <2>5, DongleRetryKeeps
<1>6. CASE StatusReturns
  <2>1. PICK f \in network : outbox' = Append(outbox, f) /\ network' = network \ {f}
    BY <1>6 DEF StatusReturns
  <2>2. /\ f \in Statuses /\ f \in DongleFrames /\ UNCHANGED <<vars, toDongle, faults>>
    BY <1>6 DEF SystemTypeOK, DongleTypeOK, Statuses, DongleFrames, StatusReturns
  <2>3. Unseen' = Append(Unseen, f) /\ Unseen \in Seq(DongleFrames)
    BY <2>1, <2>2, AppendUnseen, UnseenType
  <2>4. Blocks' <=> Blocks
    BY <2>2 DEF Blocks
  <2> HIDE DEF line, Unseen, Blocks
  <2>5. ~Has(Unseen, {f})
    BY <1>00, <2>2 DEF StatusOnce
  <2>6. ASSUME NEW n \in Statuses
        PROVE  /\ Coming(n)' => Coming(n)
               /\ Once(Unseen', {n}) /\ (n \in network' => ~Has(Unseen', {n}))
    <3>1. Once(Unseen, {n}) /\ (n \in network => ~Has(Unseen, {n}))
      BY <1>00 DEF StatusOnce
    <3>2. CASE n = f
      <4>1. Coming(n)
        BY <3>2 DEF Coming
      <4>2. Once(Append(Unseen, f), {n})
        BY <2>2, <2>3, <2>5, <3>1, <3>2, AppendHas
      <4> QED BY <2>1, <2>3, <3>2, <4>1, <4>2
    <3>3. CASE n # f
      <4>1. f \notin {n}
        BY <3>3
      <4>2. (Has(Unseen', {n}) <=> Has(Unseen, {n})) /\ Once(Unseen', {n})
        BY <2>2, <2>3, <3>1, <4>1, AppendHas
      <4> QED BY <2>1, <3>1, <4>2 DEF Coming
    <3> QED BY <3>2, <3>3
  <2>7. StatusOnce' /\ network' \subseteq network /\ \A n \in Statuses : Coming(n)' => Coming(n)
    BY <2>1, <2>6 DEF StatusOnce
  <2> HIDE DEF StatusOnce, Coming
  <2> QED BY <1>00, <2>2, <2>4, <2>7, DongleRetryKeeps
<1>7. CASE MakeReport
  BY <1>7 DEF MakeReport, SystemTypeOK, DongleTypeOK
<1> QED BY <1>1, <1>2, <1>3, <1>4, <1>5, <1>6, <1>7 DEF DongleStep

\* Every step keeps RetryInv.
LEMMA RetryStep ==
  ASSUME "hostAck" \notin Faults, "late" \notin Faults, MaxFaults <= 1, Reports = {},
         SystemTypeOK, LoopInv, LoopInv', TokenInv, ExchangeInv, StatusInv, RetryInv,
         NothingGivenUp', [SystemNext]_systemVars
  PROVE  RetryInv'
<1>1. CASE Loop \/ Call
  <2>1. HostStep /\ OnTheWire
    BY <1>1 DEF Loop, Call, HostStep
  <2> QED BY <2>1, HostRetry
<1>2. CASE DongleStep \/ MakeReport
  BY <1>2, DongleRetry
<1>3. CASE UNCHANGED systemVars
  <2>0. PICK c : c = [msg |-> "CAN"]
    OBVIOUS
  <2>1. UNCHANGED <<vars, toDongle, outbox, network, faults>>
    BY <1>3 DEF systemVars, dongleVars
  <2>2. Unseen' = Unseen /\ (Blocks' <=> Blocks)
    BY <2>1 DEF Unseen, Blocks
  <2>3. c \in Message /\ c \notin {Ack, Nack, Unknown} /\ StatusOnce
    BY <2>0, FramesAreMessages DEF Unknown, Ack, Nack, RetryInv
  <2> HIDE DEF line, Unseen, Blocks
  <2>4. StatusOnce' /\ \A n \in Statuses : Coming(n)' => Coming(n)
    BY <2>1, <2>2, <2>3 DEF StatusOnce, Coming
  <2> HIDE DEF StatusOnce, Coming
  <2> QED BY <2>1, <2>2, <2>3, <2>4, DongleRetryKeeps
<1> QED BY <1>1, <1>2, <1>3 DEF SystemNext

\* The retransmissions suffice: with one fault at most no request is given up.
\* It takes that the dongle gets the ACKs of the host and does not send a frame
\* again that is not lost, that nodes report nothing (a report the host has to
\* acknowledge makes the dongle cancel a request as well), and that a number is
\* not used while a status with that number is to come.
THEOREM RetriesSuffice ==
  ASSUME MaxFuncId > 1, "hostAck" \notin Faults, "late" \notin Faults, MaxFaults <= 1,
         Reports = {}
  PROVE  SystemSpec /\ [][FreshIds]_systemVars => []NothingGivenUp
<1>1. SystemInit => ExchangeInv /\ StatusInv /\ RetryInv /\ NothingGivenUp
  <2> SUFFICES ASSUME SystemInit PROVE ExchangeInv /\ StatusInv /\ RetryInv /\ NothingGivenUp
    OBVIOUS
  <2>1. /\ line = <<>> /\ toDongle = <<>> /\ Unseen = <<>> /\ requests = <<>>
        /\ outcome = [r \in Requests |-> "new"] /\ network = {} /\ faults = 0
        /\ txRetryCount = 0 /\ txTimer = "idle" /\ ready = <<"task">>
    BY EmptyHas DEF SystemInit, Init, line, Unseen
  <2>01. ~Queued("timer")
    BY <2>1, ReadyFacts
  <2> HIDE DEF line, Unseen
  <2>2. \A n : ~Coming(n)
    BY <2>1, EmptyHas DEF Coming
  <2>3. ~Doomed /\ ~Blocks /\ ~SomeLoose /\ \A n \in Statuses : ~Loose(n)
    BY <2>1, <2>2 DEF Doomed, Blocks, Before, SomeLoose, Loose
  <2>4. LineOrder /\ StatusOnce /\ ~Has(line, {Nack})
    BY <2>1, EmptyHas DEF LineOrder, StatusOnce, Before, Once
  <2>5. ExchangeInv /\ StatusInv
    BY <2>1, EmptyHas DEF ExchangeInv, StatusInv
  <2>6. RetryInv
    BY <2>1, <2>01, <2>3, <2>4 DEF RetryInv
  <2> QED BY <2>1, <2>5, <2>6 DEF NothingGivenUp
<1>2. /\ SystemTypeOK /\ LoopInv /\ LoopInv' /\ TokenInv /\ ExchangeInv /\ StatusInv
      /\ RetryInv /\ NothingGivenUp /\ [SystemNext]_systemVars /\ [FreshIds]_systemVars
      => ExchangeInv' /\ StatusInv' /\ RetryInv' /\ NothingGivenUp'
  <2> SUFFICES ASSUME SystemTypeOK, LoopInv, LoopInv', TokenInv, ExchangeInv, StatusInv, RetryInv,
                      NothingGivenUp, [SystemNext]_systemVars, [FreshIds]_systemVars
               PROVE  ExchangeInv' /\ StatusInv' /\ RetryInv' /\ NothingGivenUp'
    OBVIOUS
  <2>1. NothingGivenUp'
    BY NoGiveUp
  <2>2. ExchangeInv' /\ StatusInv'
    BY <2>1, ExchangeStep
  <2>3. RetryInv'
    BY <2>1, RetryStep
  <2> QED BY <2>1, <2>2, <2>3
<1>3. SystemSpec => []TokenInv
  BY TokenCorrect
<1> QED BY <1>1, <1>2, <1>3, SystemTypes, LoopCorrect, PTL DEF SystemSpec

\* Under the hypotheses of RetriesSuffice a request is told its own answers: with
\* one fault at most, which is no late frame and no lost ACK of the host, without
\* reports, and while no number is used too early, none is given up.
THEOREM AnswersAfterOneFault ==
  ASSUME MaxFuncId > 1, "hostAck" \notin Faults, "late" \notin Faults, MaxFaults <= 1,
         Reports = {}
  PROVE  SystemSpec /\ [][FreshIds]_systemVars => []AnswersAreOwn
BY AnswersCorrect, RetriesSuffice, PTL
=============================================================================
