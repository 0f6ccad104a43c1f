---------------------------- MODULE ZWaveSystem -----------------------------
(***************************************************************************)
(* ZWaveProtocol at a dongle that keeps the protocol of the README: it     *)
(* acknowledges each request, answers it with a RESPONSE and, when the     *)
(* request is sent on into the network, later with a REQUEST that returns  *)
(* the funcId; it reports what nodes tell it; and it sends one frame at a  *)
(* time, again and again until that one is acknowledged.                   *)
(*                                                                         *)
(* Faults names what may go wrong on the serial line, MaxFaults how often: *)
(*   request   a request of the host is lost                               *)
(*   corrupt   a request of the host arrives with a wrong checksum         *)
(*   ack       the dongle's ACK is lost                                    *)
(*   frame     a frame of the dongle is lost                               *)
(*   garble    a frame of the dongle arrives with a wrong checksum         *)
(*   hostAck   the host's ACK is lost                                      *)
(*   late      the host is so slow that the dongle sends a frame again     *)
(*             although it is not lost                                     *)
(***************************************************************************)
EXTENDS ZWaveProtocol, FiniteSets

CONSTANTS
  Reports,       \* what nodes report, each at most once
  ReportFunction,\* APPLICATION_COMMAND_HANDLER
  Faults,        \* kinds of faults that may happen
  MaxFaults      \* bound: faults in one behaviour

ASSUME DongleAssumption ==
  /\ Payloads = Requests \cup Reports
  /\ ReportFunction \in Functions
  /\ \A r \in Requests : Function[r] # ReportFunction
  /\ Faults \subseteq {"request", "corrupt", "ack", "frame", "garble", "hostAck", "late"}
  /\ MaxFaults \in Nat

VARIABLES
  toDongle,      \* messages on the line to the dongle
  outbox,        \* frames the dongle has to send, in order
  awaiting,      \* it has sent the first one and awaits the host's ACK
  network,       \* transmit statuses still out in the network
  reports,       \* reports not made yet
  confirmed,     \* frames the host has acknowledged
  reported,      \* history: reports passed to onRequest
  faults         \* faults so far

dongleVars == <<toDongle, outbox, awaiting, network, reports, confirmed, faults>>
systemVars == <<vars, dongleVars, reported>>

DongleFrame(type, function, id, data) ==
  [msg |-> "SOF", type |-> type, function |-> function, funcId |-> id, data |-> data]

Response(f) == DongleFrame("RESPONSE", f.function, 1, f.request)
Status(f)   == DongleFrame("REQUEST", f.function, f.funcId, f.request)
Report(p)   == DongleFrame("REQUEST", ReportFunction, 1, p)

Fault(kind) ==
  /\ kind \in Faults
  /\ faults < MaxFaults
  /\ faults' = faults + 1

-----------------------------------------------------------------------------
(* The host *)

\* The ACK of the dongle takes milliseconds and RESPONSE_TIMEOUT is 1500 of
\* them, so the timer expires only when nothing is under way on the line.
Quiet == toDongle = <<>> /\ outbox = <<>> /\ rx = <<>>

LoopStep ==
  \/ \E descriptor \in {<<>>, <<"read">>}, expired \in BOOLEAN :
       PollWith(descriptor, expired) /\ (expired => Quiet)
  \/ TimerHandler \/ ReadHandler \/ ReadMessage \/ EndUpcall
  \/ Receive /\ ~Queued("error")'

OnTheWire ==
  /\ toDongle' = toDongle \o written'
  /\ reported' = IF ReceiveRequest THEN reported \cup {Head(rxBuffer).data}
                                   ELSE reported
  /\ UNCHANGED <<outbox, awaiting, network, reports, confirmed, faults>>

Loop == LoopStep /\ OnTheWire
Call == \E r \in Requests : SendRequest(r) /\ OnTheWire

-----------------------------------------------------------------------------
(* The dongle *)

Arrives(msg) ==
  /\ toDongle # <<>>
  /\ Head(toDongle).msg = msg
  /\ toDongle' = Tail(toDongle)
  /\ UNCHANGED <<reports, reported>>

Accept(f) ==
  /\ outbox' = Append(outbox, Response(f))
  /\ network' = IF f.request \in SendRequests THEN network \cup {Status(f)} ELSE network

TakeRequest ==
  /\ Arrives("SOF")
  /\ ~awaiting
  /\ Accept(Head(toDongle))
  /\ \/ Line(Ack) /\ UNCHANGED faults
     \/ Fault("ack") /\ UNCHANGED vars
  /\ UNCHANGED <<awaiting, confirmed>>

\* README, Double send before ACK
CancelRequest ==
  /\ Arrives("SOF")
  /\ awaiting
  /\ Line([msg |-> "CAN"])
  /\ UNCHANGED <<outbox, awaiting, network, confirmed, faults>>

MissRequest ==
  /\ Arrives("SOF")
  /\ \/ Fault("request") /\ UNCHANGED vars
     \/ Fault("corrupt") /\ Line(Nack)
  /\ UNCHANGED <<outbox, awaiting, network, confirmed>>

TakeAck ==
  /\ Arrives("ACK")
  /\ UNCHANGED <<vars, network>>
  /\ \/ /\ IF awaiting
             THEN /\ outbox' = Tail(outbox)
                  /\ confirmed' = confirmed \cup {Head(outbox)}
             ELSE UNCHANGED <<outbox, confirmed>>
        /\ awaiting' = FALSE
        /\ UNCHANGED faults
     \/ Fault("hostAck") /\ UNCHANGED <<outbox, confirmed, awaiting>>

TakeNack ==
  /\ Arrives("NACK")
  /\ awaiting' = FALSE
  /\ UNCHANGED <<vars, outbox, network, confirmed, faults>>

\* The first frame of the outbox goes on the line.
PutFrame ==
  \/ Line(Head(outbox)) /\ UNCHANGED faults
  \/ Fault("frame") /\ UNCHANGED vars
  \/ Fault("garble") /\ Line([msg |-> "CORRUPT"])

SendFrame ==
  /\ outbox # <<>>
  /\ ~awaiting
  /\ awaiting' = TRUE
  /\ PutFrame
  /\ UNCHANGED <<toDongle, outbox, network, reports, confirmed, reported>>

\* Neither the frame nor an answer to it is on the line any more.
FrameLost ==
  /\ \A i \in 1..Len(rx) : rx[i].msg \notin {"SOF", "CORRUPT"}
  /\ \A i \in 1..Len(toDongle) : toDongle[i].msg \notin {"ACK", "NACK"}
  /\ pc = "loop"

SendAgain ==
  /\ awaiting
  /\ \/ FrameLost /\ PutFrame
     \/ ~FrameLost /\ Fault("late") /\ Line(Head(outbox))
  /\ UNCHANGED <<toDongle, outbox, awaiting, network, reports, confirmed, reported>>

StatusReturns ==
  /\ \E f \in network : outbox' = Append(outbox, f) /\ network' = network \ {f}
  /\ UNCHANGED <<vars, toDongle, awaiting, reports, confirmed, reported, faults>>

MakeReport ==
  /\ \E p \in reports : outbox' = Append(outbox, Report(p)) /\ reports' = reports \ {p}
  /\ UNCHANGED <<vars, toDongle, awaiting, network, confirmed, reported, faults>>

DongleStep == TakeRequest \/ CancelRequest \/ MissRequest \/ TakeAck \/ TakeNack
              \/ SendFrame \/ SendAgain \/ StatusReturns

SystemInit ==
  /\ Init
  /\ toDongle = <<>>
  /\ outbox = <<>>
  /\ awaiting = FALSE
  /\ network = {}
  /\ reports = Reports
  /\ confirmed = {}
  /\ reported = {}
  /\ faults = 0

SystemNext == Loop \/ Call \/ DongleStep \/ MakeReport

SystemSpec == SystemInit /\ [][SystemNext]_systemVars

\* The event loop thread runs whatever it has to do, and the dongle works.
\* Nothing makes callers call or nodes report.
FairSpec == SystemSpec /\ WF_systemVars(Loop) /\ WF_systemVars(DongleStep)

-----------------------------------------------------------------------------
(* Properties *)

\* "Called when the response to a request was received" (ZWaveProtocol.hpp):
\* a request is told the answers to itself and never those to another one,
\* although answers carry no more than the function and, sometimes, a funcId
\* that is used again.
AnswersAreOwn == \A r \in Requests : notified[r] \subseteq {r}

\* A report the dongle need not send again, because the host acknowledged it,
\* was passed to onRequest: no ACK is sent for a frame that is then thrown away,
\* and what is thrown away as the second frame of a read is not confirmed by the
\* ACK of the first.  "mutiple only because other side didn't receive ACK in time"
\* (ZWaveProtocol.cpp) is right unless that side's ACK is just late (the fault
\* "late"): then a new frame may be behind the repeated one, and is lost.
ConfirmedReportsArrived ==
  \A p \in Reports : Report(p) \in confirmed => p \in reported

\* The retransmissions suffice: no request is given up.  This is so after one
\* lost or garbled frame when nodes report nothing, and without a fault when two
\* reports make the dongle cancel requests.  It is not after two faults and one
\* collision, or after one fault and two collisions.
NothingGivenUp == \A r \in Requests : outcome[r] # "failed"

\* resendRequest never reaches for the front of an empty queue: "timer expired
\* before response (ACK or NACK) was received" (ZWaveProtocol.cpp).  This holds as
\* long as the timer expires only when nothing is under way (Quiet).  A host that
\* was stalled for RESPONSE_TIMEOUT may find the ACK, the response and the expiry
\* in one poll, and then it does not.
Defined == pc # "undefined"

\* "When the response arrives, request->onResponse() gets called" and the
\* queue moves on: each request that sendRequest took is finished some day,
\* one way or the other.
EveryRequestEnds ==
  \A r \in Requests : outcome[r] = "queued" ~> outcome[r] \in {"done", "failed"}

\* Every report a node makes is passed to onRequest some day.
EveryReportArrives ==
  \A p \in Reports : p \notin reports ~> p \in reported
=============================================================================
