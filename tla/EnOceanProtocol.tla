-------------------------- MODULE EnOceanProtocol ---------------------------
(***************************************************************************)
(* The serial protocol to an EnOcean controller                            *)
(* (src/enocean/EnOceanProtocol.cpp): like ZWaveProtocol a queue of        *)
(* requests of which the front one is on the wire, a timer and a read      *)
(* handler, but there are no acknowledgements and no ids.  Whatever good   *)
(* frame arrives, a radio telegram too, cancels the timer, and any         *)
(* RESPONSE is taken for that of the front request.                        *)
(*                                                                         *)
(* The event loop is that of ZWaveProtocol: `ready' holds the handlers to  *)
(* run, "task" polls the reactor.                                          *)
(*                                                                         *)
(* The controller at the other end of the line answers each request it     *)
(* gets, in order.  Of its `link', chosen at the start, it depends whether *)
(* each answer arrives before the timeout ("prompt"), may be late or lost  *)
(* ("lossy"), or whether anything may come at any time ("open").           *)
(***************************************************************************)
EXTENDS Naturals, Sequences

CONSTANTS
  Requests,      \* request objects handed to sendRequest
  MaxLine        \* bound: messages on the line not yet read, and requests the
                 \* controller has not answered; a transmission beyond is lost

ASSUME LineAssumption == MaxLine \in Nat \ {0}

VARIABLES
  requests,      \* deque of requests, the front one is the current one
  txRetryCount,  \* resends of the current request
  txTimer,       \* is a wait pending on the timer
  ready,         \* completion handlers queued in the event loop
  pc,            \* what the event loop thread is doing
  receiving,     \* FALSE once the read handler has returned on an error
  rx,            \* messages on the line that no read has returned yet
  rxBuffer,      \* messages in the receive buffer
  controller,    \* requests that the controller has not answered yet
  link,          \* how the controller and the line behave
  outcome,       \* history: what became of each request
  answered,      \* history: whose responses each request was given
  txCount,       \* history: transmissions of each request, up to MaxTries
  heard          \* history: a frame was received since the last transmission

queueVars   == <<requests, outcome, txRetryCount>>
sendVars    == <<txTimer, controller, txCount, heard>>
receiveVars == <<rx, rxBuffer, receiving>>
vars == <<requests, txRetryCount, txTimer, ready, pc, receiving, rx, rxBuffer,
          controller, link, outcome, answered, txCount, heard>>

MaxTries == 3
Handlers == {"task", "timer", "read", "error"}
Outcomes == {"new", "queued", "done", "failed"}
Links    == {"prompt", "lossy", "open"}

Response(r) == [type |-> "RESPONSE", to |-> r]
Radio       == [type |-> "RADIO"]
Corrupt     == [type |-> "CORRUPT"]
Message     == [type : {"RESPONSE"}, to : Requests] \cup {Radio, Corrupt}

-----------------------------------------------------------------------------
(* Sending *)

\* sendRequest(): put request r on the line and start the timer;
\* expires_from_now cancels a wait that is pending.
Transmit(r) ==
  /\ txTimer' = "armed"
  /\ controller' = IF Len(controller) < MaxLine THEN Append(controller, r)
                                               ELSE controller
  /\ txCount' = [txCount EXCEPT ![r] = IF @ < MaxTries THEN @ + 1 ELSE @]
  /\ heard' = FALSE

\* Slip: the request is popped after the callback that may have queued others.
PopBack(how) ==
  /\ txRetryCount' = 0
  /\ requests' = SubSeq(requests, 1, Len(requests) - 1)
  /\ outcome' = [outcome EXCEPT ![Head(requests)] = how]

PopRequest(how) ==
  /\ txRetryCount' = 0
  /\ requests' = Tail(requests)
  /\ outcome' = [outcome EXCEPT ![Head(requests)] = how]

\* Slip: the limit is tested before the count.
TriesLeftOneMore == txRetryCount < MaxTries

TriesLeft == txRetryCount + 1 < MaxTries

\* resendRequest: after MaxTries the request is given up, and nothing is sent
\* for the one behind it.
Resend ==
  IF TriesLeft
    THEN /\ txRetryCount' = txRetryCount + 1
         /\ Transmit(Head(requests))
         /\ UNCHANGED <<requests, outcome>>
    ELSE PopRequest("failed") /\ UNCHANGED sendVars

\* sendRequest(request), called from other handlers of the loop and from the
\* callbacks of the read handler.
SendRequest(r) ==
  /\ pc \in {"loop", "upcall", "response"}
  /\ outcome[r] = "new"
  /\ outcome' = [outcome EXCEPT ![r] = "queued"]
  /\ requests' = Append(requests, r)
  /\ IF requests = <<>> THEN Transmit(r) ELSE UNCHANGED sendVars
  /\ UNCHANGED <<txRetryCount, ready, pc, receiveVars, link, answered>>

-----------------------------------------------------------------------------
(* The event loop *)

Queued(handler) == \E i \in 1..Len(ready) : ready[i] = handler

Dispatch(handler) == pc = "loop" /\ Head(ready) = handler

\* What a read that is pending or just started may complete with.
Completions(line) ==
  {<<>>, <<"error">>} \cup (IF line # <<>> THEN {<<"read">>} ELSE {})

ReadPending == receiving /\ ~Queued("read") /\ ~Queued("error")

\* epoll_reactor::run
PollWith(descriptor, expired) ==
  /\ Dispatch("task")
  /\ descriptor \in IF ReadPending THEN Completions(rx) ELSE {<<>>}
  /\ expired => txTimer = "armed" /\ link # "prompt"
  /\ ready' = Tail(ready) \o descriptor
                \o (IF expired THEN <<"timer", "task">> ELSE <<"task">>)
  /\ txTimer' = IF expired THEN "idle" ELSE txTimer
  /\ UNCHANGED <<queueVars, receiveVars, pc, controller, link, answered,
                 txCount, heard>>

Poll == \E descriptor \in Completions(rx), expired \in BOOLEAN :
          PollWith(descriptor, expired)

\* The handler of async_wait.  resendRequest uses requests.front() unchecked,
\* which is undefined behaviour when the queue is empty.
TimerHandler ==
  /\ Dispatch("timer")
  /\ ready' = Tail(ready)
  /\ IF requests # <<>>
       THEN Resend /\ pc' = pc
       ELSE pc' = "undefined" /\ UNCHANGED <<queueVars, sendVars>>
  /\ UNCHANGED <<receiveVars, link, answered>>

\* The handler of async_read_some, called with some of what was on the line.
ReadHandler ==
  /\ Dispatch("read")
  /\ ready' = Tail(ready)
  /\ pc' = "read"
  /\ \E n \in 1..Len(rx) :
       /\ rxBuffer' = rxBuffer \o SubSeq(rx, 1, n)
       /\ rx' = SubSeq(rx, n + 1, Len(rx))
  /\ UNCHANGED <<queueVars, sendVars, receiving, link, answered>>

\* On an error it calls onError and does not call receive() again.
ReadError ==
  /\ Dispatch("error")
  /\ ready' = Tail(ready)
  /\ receiving' = FALSE
  /\ UNCHANGED <<queueVars, sendVars, pc, rx, rxBuffer, link, answered>>

-----------------------------------------------------------------------------
(* The read handler: one action for each kind of message at the front *)

Take(types) ==
  /\ pc = "read"
  /\ rxBuffer # <<>>
  /\ Head(rxBuffer).type \in types
  /\ UNCHANGED <<ready, rx, receiving, link>>

\* Any good frame cancels the timer and resets the retry count.
StopTimer ==
  /\ txTimer' = "idle"
  /\ txRetryCount' = 0
  /\ heard' = TRUE
  /\ UNCHANGED <<requests, outcome, controller, txCount>>

\* Any RESPONSE goes to the front request, which stays in the queue while its
\* callback runs.
ReceiveResponse ==
  /\ Take({"RESPONSE"})
  /\ requests # <<>>
  /\ StopTimer
  /\ answered' = [answered EXCEPT ![Head(requests)] = @ \cup {Head(rxBuffer).to}]
  /\ rxBuffer' = Tail(rxBuffer)
  /\ pc' = "response"

\* Slip: the next request is left to the next timeout.
SendNextNot == UNCHANGED sendVars

SendNext ==
  IF Tail(requests) # <<>> THEN Transmit(Head(Tail(requests)))
                           ELSE UNCHANGED sendVars

\* onResponse returns: the request is removed and the next one sent.
EndResponse ==
  /\ pc = "response"
  /\ pc' = "read"
  /\ PopRequest("done")
  /\ SendNext
  /\ UNCHANGED <<ready, receiveVars, link, answered>>

\* onRequest: a radio telegram, or a response nobody waits for.
ReceiveOther ==
  /\ Take({"RESPONSE", "RADIO"})
  /\ Head(rxBuffer).type = "RESPONSE" => requests = <<>>
  /\ StopTimer
  /\ rxBuffer' = Tail(rxBuffer)
  /\ pc' = "upcall"
  /\ UNCHANGED answered

EndUpcall ==
  /\ pc = "upcall"
  /\ pc' = "read"
  /\ UNCHANGED <<queueVars, sendVars, ready, receiveVars, link, answered>>

\* Slip: garbage counts as a frame.
ReceiveGarbageStops ==
  /\ Take({"CORRUPT"})
  /\ rxBuffer' = <<>>
  /\ txTimer' = "idle"
  /\ UNCHANGED <<queueVars, controller, txCount, heard, pc, answered>>

\* Garbage or a wrong checksum: everything received so far is dropped.
ReceiveGarbage ==
  /\ Take({"CORRUPT"})
  /\ rxBuffer' = <<>>
  /\ UNCHANGED <<queueVars, sendVars, pc, answered>>

\* The buffer is empty: receive() again.  What is on the line already is read
\* at once and its handler queued.
Receive ==
  /\ pc = "read"
  /\ rxBuffer = <<>>
  /\ pc' = "loop"
  /\ \E completion \in Completions(rx) :
       /\ rx # <<>> => completion # <<>>
       /\ ready' = ready \o completion
  /\ UNCHANGED <<queueVars, sendVars, receiveVars, link, answered>>

-----------------------------------------------------------------------------
(* The controller and the line *)

Arrive(m) ==
  /\ Len(rx) + Len(rxBuffer) < MaxLine
  /\ rx' = Append(rx, m)
  /\ UNCHANGED <<queueVars, txTimer, txCount, heard, ready, pc, rxBuffer,
                 receiving, link, answered>>

Respond ==
  /\ controller # <<>>
  /\ Arrive(Response(Head(controller)))
  /\ controller' = Tail(controller)

Lose ==
  /\ link # "prompt"
  /\ controller # <<>>
  /\ controller' = Tail(controller)
  /\ UNCHANGED <<queueVars, receiveVars, txTimer, txCount, heard, ready, pc,
                 link, answered>>

Line(m) ==
  /\ m = Radio \/ link = "open"
  /\ Arrive(m)
  /\ UNCHANGED controller

Run == \/ Poll \/ TimerHandler \/ ReadHandler \/ ReadError
       \/ ReceiveResponse \/ EndResponse \/ ReceiveOther \/ EndUpcall
       \/ ReceiveGarbage \/ Receive

Init ==
  /\ requests = <<>>
  /\ txRetryCount = 0
  /\ txTimer = "idle"
  /\ ready = <<"task">>
  /\ pc = "loop"
  /\ receiving = TRUE
  /\ rx = <<>>
  /\ rxBuffer = <<>>
  /\ controller = <<>>
  /\ link \in Links
  /\ outcome = [r \in Requests |-> "new"]
  /\ answered = [r \in Requests |-> {}]
  /\ txCount = [r \in Requests |-> 0]
  /\ heard = FALSE

Next == \/ \E r \in Requests : SendRequest(r)
        \/ Run \/ Respond \/ Lose
        \/ \E m \in Message : Line(m)

\* What the event loop does whether reading fails or not.
Loop == \/ \E descriptor \in {<<>>, <<"read">>}, expired \in BOOLEAN :
             PollWith(descriptor, expired)
        \/ TimerHandler \/ ReadHandler \/ ReadError
        \/ ReceiveResponse \/ EndResponse \/ ReceiveOther \/ EndUpcall
        \/ ReceiveGarbage \/ Receive

\* The event loop runs on, and the controller answers: in spite of telegrams,
\* which fill the line only because it is bounded here.
Spec == Init /\ [][Next]_vars /\ WF_vars(Loop) /\ SF_vars(Respond)

-----------------------------------------------------------------------------
(* Properties *)

\* Every variable keeps its type: the queue holds at most MaxTries tries, the
\* event loop never loses its task.
TypeOK ==
  /\ requests \in Seq(Requests)
  /\ txRetryCount \in 0..(MaxTries - 1)
  /\ txTimer \in {"idle", "armed"}
  /\ ready \in Seq(Handlers)
  /\ Queued("task")
  /\ pc \in {"loop", "read", "upcall", "response", "undefined"}
  /\ receiving \in BOOLEAN
  /\ rx \in Seq(Message)
  /\ rxBuffer \in Seq(Message)
  /\ controller \in Seq(Requests)
  /\ link \in Links
  /\ outcome \in [Requests -> Outcomes]
  /\ answered \in [Requests -> SUBSET Requests]
  /\ txCount \in [Requests -> 0..MaxTries]
  /\ heard \in BOOLEAN

\* The protocol implements the queue of requests its callers see: the same
\* specification as ZWaveProtocol does, although the request that ended is
\* popped only after its callback, which may queue others.
Queue == INSTANCE RequestQueue WITH queue <- requests
ImplementsQueue == Queue!Spec

\* A front request that was sent, and since when no frame came, is watched:
\* the timer is running, or its expiry is queued in the event loop.  (After a
\* frame of any kind it is not: a radio telegram stops the timer, and if the
\* response was lost the request stays for ever.)
HeadIsGuarded ==
  requests # <<>> /\ txCount[Head(requests)] > 0 /\ ~heard =>
    txTimer = "armed" \/ Queued("timer")

\* While every answer comes before its timeout each request is given its own
\* response and no other, whatever telegrams come in between.
AnswersAreOwn ==
  link = "prompt" => \A r \in Requests :
    answered[r] \subseteq {r} /\ (outcome[r] = "done" => answered[r] = {r})

\* ... and each request that is accepted ends, unless reading has failed.
EveryRequestEnds ==
  \A r \in Requests :
    link = "prompt" /\ outcome[r] = "queued" ~> outcome[r] = "done" \/ ~receiving
=============================================================================
