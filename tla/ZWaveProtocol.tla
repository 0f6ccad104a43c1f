--------------------------- MODULE ZWaveProtocol ----------------------------
(***************************************************************************)
(* The host side of the serial protocol to the Z-Wave dongle               *)
(* (src/zwave/ZWaveProtocol.cpp): a queue of requests of which the front   *)
(* one is on the wire, a retransmission timer, and the read handler that   *)
(* takes ACK, NACK, CAN and frames apart.                                  *)
(*                                                                         *)
(* All of it runs on one asio event loop thread.  `ready' is the loop's    *)
(* queue of handlers.  It always holds the task "task": when that reaches  *)
(* the front the reactor is polled, and the completions it finds and then  *)
(* "task" again go to the back, descriptors before timers.  A timer found  *)
(* expired is out of the reach of a cancel() made before its handler runs. *)
(*                                                                         *)
(* Handlers are atomic against each other.  The read handler is taken one  *)
(* message at a time (pc = "read"), and the callbacks it makes may call    *)
(* sendRequest again (pc = "upcall").                                      *)
(*                                                                         *)
(* The dongle is open here: any message may arrive at any time.            *)
(***************************************************************************)
EXTENDS Naturals, Sequences

CONSTANTS
  Requests,      \* request objects handed to sendRequest
  SendRequests,  \* those of class SendRequest (they carry a funcId)
  Functions,     \* Z-Wave FUNCTION codes
  Function,      \* the FUNCTION code of each request
  Payloads,      \* abstract data bytes of a received frame
  MaxFuncId,     \* largest funcId (0xff in the code)
  MaxLine        \* bound: messages on the serial line not yet read

ASSUME RequestsAssumption ==
  /\ SendRequests \subseteq Requests
  /\ Function \in [Requests -> Functions]

ASSUME BoundsAssumption ==
  /\ MaxFuncId \in Nat \ {0}
  /\ MaxLine \in Nat \ {0}

VARIABLES
  requests,      \* deque of requests, the front one is the current one
  txRetryCount,  \* resends of the current request
  nextFuncId,    \* funcId for the next SendRequest
  funcId,        \* funcId of each SendRequest, Unset before it is first sent
  txTimer,       \* is a wait pending on the timer
  ready,         \* completion handlers queued in the event loop
  pc,            \* what the event loop thread is doing
  receiving,     \* FALSE once the read handler has returned on an error
  rx,            \* messages on the line that no read has returned yet
  rxBuffer,      \* messages in the receive buffer
  frame,         \* local of the read handler: has it taken a frame already
  written,       \* messages the last step wrote to the line
  outcome,       \* history: what became of each request
  notified,      \* history: data passed to the callbacks of each request
  txCount,       \* history: transmissions of each request, up to MaxTries
  acked          \* history: an ACK was received since the last transmission

queueVars   == <<requests, outcome, txRetryCount>>
sendVars    == <<nextFuncId, funcId, txCount>>
receiveVars == <<rx, rxBuffer, frame, receiving>>
vars == <<requests, txRetryCount, nextFuncId, funcId, txTimer, ready, pc,
          receiving, rx, rxBuffer, frame, written, outcome, notified,
          txCount, acked>>

MaxTries == 3
FuncIds  == 1..MaxFuncId
Unset    == 0      \* an uninitialized funcId, see FuncIdMatches
NoFuncId == 0      \* on the wire: the frame of a plain request has no funcId

Handlers == {"task", "timer", "read", "error"}
Outcomes == {"new", "queued", "done", "failed"}

Plain == [msg : {"ACK", "NACK", "CAN", "UNKNOWN", "CORRUPT"}]
Frame == [msg : {"SOF"}, type : {"REQUEST", "RESPONSE"}, function : Functions,
          funcId : FuncIds, data : Payloads]
Message == Plain \cup Frame

Ack  == [msg |-> "ACK"]
Nack == [msg |-> "NACK"]

RequestFrame(r, id) ==
  [msg |-> "SOF", request |-> r, function |-> Function[r], funcId |-> id]

Sent == {Ack, Nack} \cup
        [msg : {"SOF"}, request : Requests, function : Functions,
         funcId : FuncIds \cup {NoFuncId}]

-----------------------------------------------------------------------------
(* Sending *)

\* Slip: the id overflows to the 0 that means none.
NextIdOverflows(id) == (id + 1) % (MaxFuncId + 1)

NextId(id) == IF id < MaxFuncId THEN id + 1 ELSE 1

\* sendRequest(): put the front request of q on the line after the messages
\* `before', and start the timer.  expires_from_now cancels a pending wait.
Transmit(q, before) ==
  LET r  == Head(q)
      id == IF r \in SendRequests THEN nextFuncId ELSE NoFuncId
  IN /\ IF r \in SendRequests
          THEN /\ funcId' = [funcId EXCEPT ![r] = nextFuncId]
               /\ nextFuncId' = NextId(nextFuncId)
          ELSE UNCHANGED <<funcId, nextFuncId>>
     /\ txTimer' = "armed"
     /\ written' = Append(before, RequestFrame(r, id))
     /\ txCount' = [txCount EXCEPT ![r] = IF @ < MaxTries THEN @ + 1 ELSE @]
     /\ acked' = FALSE

\* Slips: the request stays, the wrong one goes, the retry count stays.
PopNothing(how) ==
  /\ txRetryCount' = 0
  /\ requests' = requests
  /\ outcome' = [outcome EXCEPT ![Head(requests)] = how]

PopBack(how) ==
  /\ txRetryCount' = 0
  /\ requests' = SubSeq(requests, 1, Len(requests) - 1)
  /\ outcome' = [outcome EXCEPT ![Head(requests)] = how]

PopOnly(how) ==
  /\ txRetryCount' = txRetryCount
  /\ requests' = Tail(requests)
  /\ outcome' = [outcome EXCEPT ![Head(requests)] = how]

\* The current request leaves the deque.
PopRequest(how) ==
  /\ txRetryCount' = 0
  /\ requests' = Tail(requests)
  /\ outcome' = [outcome EXCEPT ![Head(requests)] = how]

\* Slip: off by one.
TriesLeftButOne == txRetryCount + 2 < MaxTries

TriesLeft == txRetryCount + 1 < MaxTries

\* resendRequest(error): send again, or after MaxTries give the request up.
\* Nothing is sent for the request that becomes the front one, and the timer
\* keeps the state `timer' it has.
Resend(timer) ==
  IF TriesLeft
    THEN /\ txRetryCount' = txRetryCount + 1
         /\ Transmit(requests, <<>>)
         /\ UNCHANGED <<requests, outcome>>
    ELSE /\ PopRequest("failed")
         /\ txTimer' = timer
         /\ written' = <<>>
         /\ UNCHANGED <<sendVars, acked>>

\* sendRequest(request), called from other handlers of the loop and from the
\* callbacks of the read handler.
SendRequest(r) ==
  /\ pc \in {"loop", "upcall"}
  /\ outcome[r] = "new"
  /\ outcome' = [outcome EXCEPT ![r] = "queued"]
  /\ requests' = Append(requests, r)
  /\ IF requests = <<>>
       THEN Transmit(<<r>>, <<>>)
       ELSE written' = <<>> /\ UNCHANGED <<sendVars, txTimer, acked>>
  /\ UNCHANGED <<txRetryCount, ready, pc, receiveVars, notified>>

-----------------------------------------------------------------------------
(* The event loop *)

Queued(handler) == \E i \in 1..Len(ready) : ready[i] = handler

Dispatch(handler) == pc = "loop" /\ Head(ready) = handler

\* What a read that is pending or just started may complete with.
Completions(line) ==
  {<<>>, <<"error">>} \cup (IF line # <<>> THEN {<<"read">>} ELSE {})

ReadPending ==
  receiving /\ ~Queued("read") /\ ~Queued("error")

\* epoll_reactor::run
PollWith(descriptor, expired) ==
  /\ Dispatch("task")
  /\ descriptor \in IF ReadPending THEN Completions(rx) ELSE {<<>>}
  /\ expired => txTimer = "armed"
  /\ ready' = Tail(ready) \o descriptor
                \o (IF expired THEN <<"timer", "task">> ELSE <<"task">>)
  /\ txTimer' = IF expired THEN "idle" ELSE txTimer
  /\ written' = <<>>
  /\ UNCHANGED <<queueVars, sendVars, receiveVars, pc, notified, acked>>

Poll == \E descriptor \in Completions(rx), expired \in BOOLEAN :
          PollWith(descriptor, expired)

\* The handler of async_wait.  resendRequest uses requests.front() unchecked,
\* which is undefined behaviour when the queue is empty.
TimerHandler ==
  /\ Dispatch("timer")
  /\ ready' = Tail(ready)
  /\ IF requests # <<>>
       THEN Resend(txTimer) /\ pc' = pc
       ELSE /\ pc' = "undefined"
            /\ written' = <<>>
            /\ UNCHANGED <<queueVars, sendVars, txTimer, acked>>
  /\ UNCHANGED <<receiveVars, notified>>

\* The handler of async_read_some, called with some of what was on the line.
ReadHandler ==
  /\ Dispatch("read")
  /\ ready' = Tail(ready)
  /\ pc' = "read"
  /\ \E n \in 1..Len(rx) :
       /\ rxBuffer' = rxBuffer \o SubSeq(rx, 1, n)
       /\ rx' = SubSeq(rx, n + 1, Len(rx))
  /\ frame' = FALSE
  /\ written' = <<>>
  /\ UNCHANGED <<queueVars, sendVars, txTimer, receiving, notified, acked>>

\* On an error it calls onError and does not call receive() again.
ReadError ==
  /\ Dispatch("error")
  /\ ready' = Tail(ready)
  /\ receiving' = FALSE
  /\ written' = <<>>
  /\ UNCHANGED <<queueVars, sendVars, txTimer, pc, rx, rxBuffer, frame,
                 notified, acked>>

-----------------------------------------------------------------------------
(* The read handler: one action for each kind of message at the front *)

Take(type) ==
  /\ pc = "read"
  /\ rxBuffer # <<>>
  /\ Head(rxBuffer).msg = type
  /\ rxBuffer' = Tail(rxBuffer)
  /\ UNCHANGED <<ready, rx, receiving>>

\* The timer is cancelled and the retry count reset; the request stays.
ReceiveAck ==
  /\ Take("ACK")
  /\ txTimer' = "idle"
  /\ txRetryCount' = 0
  /\ acked' = TRUE
  /\ written' = <<>>
  /\ UNCHANGED <<requests, outcome, sendVars, pc, frame, notified>>

ReceiveNack ==
  /\ Take("NACK")
  /\ IF requests # <<>>
       THEN Resend("idle")
       ELSE /\ txTimer' = "idle"
            /\ written' = <<>>
            /\ UNCHANGED <<queueVars, sendVars, acked>>
  /\ UNCHANGED <<pc, frame, notified>>

\* Slip: a CAN is taken for an answer and stops the timer.
ReceiveCanStopsTimer ==
  /\ Take("CAN")
  /\ txTimer' = "idle"
  /\ written' = <<>>
  /\ UNCHANGED <<queueVars, sendVars, pc, frame, notified, acked>>

\* CAN is only removed from the buffer.
ReceiveCan ==
  /\ Take("CAN")
  /\ written' = <<>>
  /\ UNCHANGED <<queueVars, sendVars, txTimer, pc, frame, notified, acked>>

\* Slip: a frame with a wrong checksum is acknowledged.
ReceiveGarbageAcks ==
  /\ pc = "read"
  /\ rxBuffer # <<>>
  /\ Head(rxBuffer).msg \in {"UNKNOWN", "CORRUPT"}
  /\ rxBuffer' = <<>>
  /\ written' = IF Head(rxBuffer).msg = "CORRUPT" THEN <<Ack>> ELSE <<>>
  /\ UNCHANGED <<queueVars, sendVars, txTimer, ready, pc, rx, receiving, frame,
                 notified, acked>>

\* An unknown byte, or a frame with a wrong checksum (which is answered with
\* a NACK), empties the whole buffer.
ReceiveGarbage ==
  /\ pc = "read"
  /\ rxBuffer # <<>>
  /\ Head(rxBuffer).msg \in {"UNKNOWN", "CORRUPT"}
  /\ rxBuffer' = <<>>
  /\ written' = IF Head(rxBuffer).msg = "CORRUPT" THEN <<Nack>> ELSE <<>>
  /\ UNCHANGED <<queueVars, sendVars, txTimer, ready, pc, rx, receiving, frame,
                 notified, acked>>

\* Only the first frame of one read is looked at and acknowledged.
ReceiveSecondFrame ==
  /\ Take("SOF")
  /\ frame
  /\ written' = <<>>
  /\ UNCHANGED <<queueVars, sendVars, txTimer, pc, frame, notified, acked>>

TakeFrame(type) ==
  /\ Take("SOF")
  /\ ~frame
  /\ frame' = TRUE
  /\ Head(rxBuffer).type = type

\* Does frame m have the function of the current request?
Pending(m) == requests # <<>> /\ Function[Head(requests)] = m.function

\* Slip: the funcId is not compared.
MatchAny(r, m) == TRUE

\* Comparing a funcId that was never written may go either way.
MayMatch(r, m)  == funcId[r] \in {Unset, m.funcId}
MayDiffer(r, m) == funcId[r] # m.funcId

Notify(r, m) ==
  /\ notified' = [notified EXCEPT ![r] = @ \cup {m.data}]
  /\ pc' = "upcall"

\* Slips: the next request is not sent, the timer is left running.
SendNothing ==
  /\ txTimer' = "idle"
  /\ written' = <<Ack>>
  /\ UNCHANGED <<sendVars, acked>>

SendNextKeepsTimer ==
  IF Tail(requests) # <<>>
    THEN Transmit(Tail(requests), <<Ack>>)
    ELSE written' = <<Ack>> /\ UNCHANGED <<sendVars, txTimer, acked>>

\* The request behind the current one is sent, or the timer stopped.
SendNext ==
  IF Tail(requests) # <<>>
    THEN Transmit(Tail(requests), <<Ack>>)
    ELSE txTimer' = "idle" /\ written' = <<Ack>> /\ UNCHANGED <<sendVars, acked>>

\* End of the request procedure: the next request is sent before the callback
\* of the one that ended is called.
EndProcedure ==
  /\ PopRequest("done")
  /\ SendNext
  /\ Notify(Head(requests), Head(rxBuffer))

ReceiveResponse ==
  /\ TakeFrame("RESPONSE")
  /\ Pending(Head(rxBuffer))
  /\ Head(requests) \notin SendRequests
  /\ EndProcedure

\* The response to a SendRequest does not end it ...
ReceiveSendResponse ==
  /\ TakeFrame("RESPONSE")
  /\ Pending(Head(rxBuffer))
  /\ Head(requests) \in SendRequests
  /\ Notify(Head(requests), Head(rxBuffer))
  /\ written' = <<Ack>>
  /\ UNCHANGED <<queueVars, sendVars, txTimer, acked>>

\* ... the request that returns its funcId does.
ReceiveStatus ==
  /\ TakeFrame("REQUEST")
  /\ Pending(Head(rxBuffer))
  /\ Head(requests) \in SendRequests
  /\ MayMatch(Head(requests), Head(rxBuffer))
  /\ EndProcedure

\* A request of the dongle that is not part of a procedure: onRequest is called.
ReceiveRequest ==
  /\ TakeFrame("REQUEST")
  /\ ~Pending(Head(rxBuffer))
  /\ pc' = "upcall"
  /\ written' = <<Ack>>
  /\ UNCHANGED <<queueVars, sendVars, txTimer, notified, acked>>

\* Acknowledged and passed to nobody: a request with the function of the
\* current request that does not end it, a response nobody waits for.
ReceiveOther ==
  /\ \/ /\ TakeFrame("REQUEST")
        /\ Pending(Head(rxBuffer))
        /\ Head(requests) \in SendRequests =>
             MayDiffer(Head(requests), Head(rxBuffer))
     \/ TakeFrame("RESPONSE") /\ ~Pending(Head(rxBuffer))
  /\ written' = <<Ack>>
  /\ UNCHANGED <<queueVars, sendVars, txTimer, pc, notified, acked>>

\* A callback returns to the read handler.
EndUpcall ==
  /\ pc = "upcall"
  /\ pc' = "read"
  /\ written' = <<>>
  /\ UNCHANGED <<queueVars, sendVars, txTimer, ready, receiveVars, notified, acked>>

\* The buffer is empty: receive() again.  What is on the line already is read
\* at once and its handler queued.
Receive ==
  /\ pc = "read"
  /\ rxBuffer = <<>>
  /\ pc' = "loop"
  /\ \E completion \in Completions(rx) :
       /\ rx # <<>> => completion # <<>>
       /\ ready' = ready \o completion
  /\ written' = <<>>
  /\ UNCHANGED <<queueVars, sendVars, txTimer, receiveVars, notified, acked>>

-----------------------------------------------------------------------------
(* The line and the specification *)

Line(m) ==
  /\ Len(rx) + Len(rxBuffer) < MaxLine
  /\ rx' = Append(rx, m)
  /\ written' = <<>>
  /\ UNCHANGED <<queueVars, sendVars, txTimer, ready, pc, rxBuffer, frame,
                 receiving, notified, acked>>

ReadMessage ==
  \/ ReceiveAck \/ ReceiveNack \/ ReceiveCan \/ ReceiveGarbage
  \/ ReceiveSecondFrame \/ ReceiveResponse \/ ReceiveSendResponse
  \/ ReceiveStatus \/ ReceiveRequest \/ ReceiveOther

Run == Poll \/ TimerHandler \/ ReadHandler \/ ReadError \/ ReadMessage
       \/ EndUpcall \/ Receive

Host == (\E r \in Requests : SendRequest(r)) \/ Run

Init ==
  /\ requests = <<>>
  /\ txRetryCount = 0
  /\ nextFuncId = 1
  /\ funcId = [r \in SendRequests |-> Unset]
  /\ txTimer = "idle"
  /\ ready = <<"task">>
  /\ pc = "loop"
  /\ receiving = TRUE
  /\ rx = <<>>
  /\ rxBuffer = <<>>
  /\ frame = FALSE
  /\ written = <<>>
  /\ outcome = [r \in Requests |-> "new"]
  /\ notified = [r \in Requests |-> {}]
  /\ txCount = [r \in Requests |-> 0]
  /\ acked = FALSE

Next == Host \/ \E m \in Message : Line(m)

Spec == Init /\ [][Next]_vars

-----------------------------------------------------------------------------
(* Properties *)

\* Every variable keeps its type: in particular the event loop always has its
\* task, and txRetryCount stays below the limit at which resendRequest gives up.
TypeOK ==
  /\ requests \in Seq(Requests)
  /\ txRetryCount \in 0..(MaxTries - 1)
  /\ nextFuncId \in FuncIds
  /\ funcId \in [SendRequests -> FuncIds \cup {Unset}]
  /\ txTimer \in {"idle", "armed"}
  /\ ready \in Seq(Handlers)
  /\ Queued("task")
  /\ pc \in {"loop", "read", "upcall", "undefined"}
  /\ receiving \in BOOLEAN
  /\ rx \in Seq(Message)
  /\ rxBuffer \in Seq(Message)
  /\ frame \in BOOLEAN
  /\ written \in Seq(Sent)
  /\ outcome \in [Requests -> Outcomes]
  /\ notified \in [Requests -> SUBSET Payloads]
  /\ txCount \in [Requests -> 0..MaxTries]
  /\ acked \in BOOLEAN

\* The protocol implements the queue of requests its callers see.
Queue == INSTANCE RequestQueue WITH queue <- requests
ImplementsQueue == Queue!Spec

\* The deque holds exactly the requests whose procedure has not ended, each
\* once: resendRequest and the end of a procedure pop the request they mean,
\* whatever the callbacks and a stale timer do in between.
QueueIsUnfinished == Queue!QueueIsUnfinished

\* Only the front request may be on the line, and a front request that is not
\* (the queue is stuck until a NACK, a timeout or a matching frame comes by
\* chance) is what a give-up of resendRequest left behind: every other way to
\* become the front one sends the request.
HeadOnTheWire ==
  /\ \A i \in 2..Len(requests) : txCount[requests[i]] = 0
  /\ requests # <<>> /\ txCount[Head(requests)] = 0 =>
       \E r \in Requests : outcome[r] = "failed"

\* A front request that was sent and not acknowledged since is watched: the
\* timer is running, or its expiry is queued in the event loop.
HeadIsGuarded ==
  requests # <<>> /\ txCount[Head(requests)] > 0 /\ ~acked =>
    txTimer = "armed" \/ Queued("timer")

\* No request is given up before it was sent twice, although stale timeouts,
\* NACKs and acknowledgements meant for other requests all count.
GiveUpAfterTries ==
  \A r \in Requests : outcome[r] = "failed" => txCount[r] >= MaxTries - 1

\* Once its procedure has ended a request is neither sent again nor are its
\* callbacks called again.
FinishedIsFinal ==
  [][\A r \in Requests : outcome[r] \in {"done", "failed"} =>
       /\ outcome'[r] = outcome[r]
       /\ txCount'[r] = txCount[r]
       /\ notified'[r] = notified[r]]_vars
=============================================================================
