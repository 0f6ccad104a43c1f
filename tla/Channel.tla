------------------------------ MODULE Channel -------------------------------
(***************************************************************************)
(* One TCP connection of the server (src/Channel.cpp, accepted by          *)
(* src/Server.cpp): it counts a reference for the open socket and for each *)
(* operation that is under way, restarts an inactivity timer whenever it   *)
(* sends or receives, and deletes itself when the count comes to zero.     *)
(*                                                                         *)
(* Everything runs on one asio event loop thread.  The loop's queue is     *)
(* taken apart at the point where the reactor is polled: handlers `now' in *)
(* front of it, then what the last poll found -- the descriptor's events   *)
(* `io', an `expired' timer -- and handlers `later', posted since, behind  *)
(* it.  A wait that is cancelled, or a read that can be done at once, has  *)
(* its handler posted; an expired one is beyond the reach of a cancel.     *)
(*                                                                         *)
(* Data is cut into the segments that reads return, numbered from 1, so    *)
(* that the number in rxBuffer is also the number of segments read.        *)
(***************************************************************************)
EXTENDS Integers, Sequences, FiniteSets

CONSTANTS
  MaxData,     \* bound: segments the peer sends
  MaxWrites    \* bound: calls of sendData

ASSUME BoundsAssumption == MaxData \in Nat /\ MaxWrites \in Nat

VARIABLES
  socket,      \* not yet accepted, open or closed
  refs,        \* referenceCount; the channel is deleted when it becomes 0
  timer,       \* is a wait pending on the timer
  reading,     \* is the async_read_some pending
  writing,     \* async_writes pending
  txPending,   \* async_writes whose handler has not run
  rxBuffer,    \* the segment the receive buffer holds, 0 before the first
  now, io, expired, later,  \* the event loop, see above
  pc,          \* the loop runs or is inside onData
  arrived,     \* segments that came from the peer
  peer,        \* the connection at the other side
  sent,        \* history: calls of sendData
  delivered    \* history: segments passed to onData

loopVars == <<now, io, expired, later>>
vars == <<socket, refs, timer, reading, writing, txPending, rxBuffer, loopVars,
          pc, arrived, peer, sent, delivered>>

ReadResults  == {"data", "eof", "readError", "canceled"}
WriteResults == {"written", "writeError"}
Handlers     == {"aborted"} \cup ReadResults \cup WriteResults

One(condition) == IF condition THEN 1 ELSE 0

-----------------------------------------------------------------------------
(* What asio does *)

\* The handler of a wait that expires_from_now or cancel aborts.
Aborted == IF timer = "armed" THEN <<"aborted">> ELSE <<>>

\* Slip: off by one.
TryReadAtEnd ==
  IF rxBuffer <= arrived THEN <<"data">>
  ELSE CASE peer = "open"     -> <<>>
         [] peer = "shutdown" -> <<"eof">>
         [] peer = "reset"    -> <<"readError">>

\* The result of a read from the open socket, none when it would block.
TryRead ==
  IF rxBuffer < arrived THEN <<"data">>
  ELSE CASE peer = "open"     -> <<>>
         [] peer = "shutdown" -> <<"eof">>
         [] peer = "reset"    -> <<"readError">>

TryWrite(n) ==
  [i \in 1..n |-> IF peer = "reset" THEN "writeError" ELSE "written"]

-----------------------------------------------------------------------------
(* Channel's operations, as parts of the handlers that call them *)

\* Slips: one reference for both, the timer is stopped but not restarted.
ReceiveOneReference(count) ==
  LET result == IF socket = "closed" THEN <<"readError">> ELSE TryRead
  IN /\ refs' = count + 1
     /\ timer' = "armed"
     /\ reading' = (result = <<>>)
     /\ rxBuffer' = rxBuffer + One(result = <<"data">>)
     /\ later' = later \o Aborted \o result

ReceiveWithoutTimer(count) ==
  LET result == IF socket = "closed" THEN <<"readError">> ELSE TryRead
  IN /\ refs' = count + 1
     /\ timer' = "idle"
     /\ reading' = (result = <<>>)
     /\ rxBuffer' = rxBuffer + One(result = <<"data">>)
     /\ later' = later \o Aborted \o result

\* receive(): restart the timer and start the next read, with a reference for
\* each of them.  A read of what is there already fills rxBuffer at once.
Receive(count) ==
  LET result == IF socket = "closed" THEN <<"readError">> ELSE TryRead
  IN /\ refs' = count + 2
     /\ timer' = "armed"
     /\ reading' = (result = <<>>)
     /\ rxBuffer' = rxBuffer + One(result = <<"data">>)
     /\ later' = later \o Aborted \o result

\* close(), where `count' references remain afterwards if the socket is not
\* open any more.  Pending operations are aborted.
Close(count) ==
  IF socket = "open"
    THEN /\ socket' = "closed"
         /\ timer' = "idle"
         /\ reading' = FALSE
         /\ writing' = 0
         /\ refs' = count - 1
         /\ later' = later \o Aborted
                       \o (IF reading THEN <<"canceled">> ELSE <<>>)
                       \o [i \in 1..writing |-> "writeError"]
    ELSE /\ refs' = count
         /\ UNCHANGED <<socket, timer, reading, writing, later>>

-----------------------------------------------------------------------------
(* The event loop *)

\* Server::listen: the handler of async_accept, which holds the channel until
\* it returns.  A failed accept leaves the channel to be deleted.
Accept ==
  /\ socket = "new"
  /\ socket' = "open"
  /\ Receive(refs)
  /\ UNCHANGED <<writing, txPending, now, io, expired, pc, arrived, peer, sent, delivered>>

AcceptFails ==
  /\ socket = "new"
  /\ socket' = "closed"
  /\ refs' = refs - 1
  /\ UNCHANGED <<timer, reading, writing, txPending, rxBuffer, loopVars, pc,
                 arrived, peer, sent, delivered>>

Idle == pc = "loop" /\ now = <<>> /\ io = {} /\ ~expired

Readable == rxBuffer < arrived \/ peer # "open"

\* epoll_reactor::run
PollWith(events, timeout) ==
  /\ Idle
  /\ socket # "open" => events = {}
  /\ "in" \in events => Readable
  /\ timeout => timer = "armed"
  /\ now' = later
  /\ later' = <<>>
  /\ io' = events
  /\ expired' = timeout
  /\ timer' = IF timeout THEN "idle" ELSE timer
  /\ UNCHANGED <<socket, refs, reading, writing, txPending, rxBuffer, pc,
                 arrived, peer, sent, delivered>>

Poll == \E events \in SUBSET {"in", "out"}, timeout \in BOOLEAN : PollWith(events, timeout)

\* descriptor_state::perform_io does the pending writes and then the pending
\* read.  The first handler runs at once, the others are posted.
Descriptor ==
  /\ pc = "loop" /\ now = <<>> /\ io # {}
  /\ \E n \in 0..writing :
       LET result == IF "in" \in io /\ reading THEN TryRead ELSE <<>>
           done   == TryWrite(n) \o result
       IN /\ "out" \notin io => n = 0
          /\ writing' = writing - n
          /\ reading' = (reading /\ result = <<>>)
          /\ rxBuffer' = rxBuffer + One(result = <<"data">>)
          /\ IF done = <<>>
               THEN UNCHANGED <<now, later>>
               ELSE now' = <<Head(done)>> /\ later' = later \o Tail(done)
  /\ io' = {}
  /\ UNCHANGED <<socket, refs, timer, txPending, expired, pc, arrived, peer,
                 sent, delivered>>

-----------------------------------------------------------------------------
(* Handlers.  Each one ends with removeReference. *)

Dispatch(handlers) ==
  /\ pc = "loop"
  /\ now # <<>>
  /\ Head(now) \in handlers
  /\ now' = Tail(now)
  /\ UNCHANGED <<io, expired, arrived, peer, sent>>

\* The wait expired: onTimeout closes.
TimerHandler ==
  /\ pc = "loop" /\ now = <<>> /\ io = {} /\ expired
  /\ expired' = FALSE
  /\ Close(refs - 1)
  /\ UNCHANGED <<txPending, rxBuffer, now, io, pc, arrived, peer, sent, delivered>>

\* Data was read: the next read is started before onData is called with the
\* buffer that both use.
DataHandler ==
  /\ Dispatch({"data"})
  /\ Receive(refs)
  /\ delivered' = Append(delivered, rxBuffer')
  /\ pc' = "upcall"
  /\ UNCHANGED <<socket, writing, txPending>>

\* The peer shut the connection down: onShutdown closes.
EofHandler ==
  /\ Dispatch({"eof"})
  /\ Close(refs - 1)
  /\ UNCHANGED <<txPending, rxBuffer, pc, delivered>>

\* onError is called and does not close.
ReadErrorHandler ==
  /\ Dispatch({"readError"})
  /\ refs' = refs - 1
  /\ UNCHANGED <<socket, timer, reading, writing, txPending, rxBuffer, later,
                 pc, delivered>>

\* Nothing is done for an aborted wait or read.
AbortedHandler ==
  /\ Dispatch({"aborted", "canceled"})
  /\ refs' = refs - 1
  /\ UNCHANGED <<socket, timer, reading, writing, txPending, rxBuffer, later,
                 pc, delivered>>

\* Slip: the write is not counted down on an error.
WriteHandlerSkipsError ==
  /\ Dispatch(WriteResults)
  /\ txPending' = IF Head(now) = "written" THEN txPending - 1 ELSE txPending
  /\ refs' = refs - 1
  /\ UNCHANGED <<socket, timer, reading, writing, rxBuffer, later, pc, delivered>>

\* An error is passed to onError; onReadyToSend does nothing.
WriteHandler ==
  /\ Dispatch(WriteResults)
  /\ txPending' = txPending - 1
  /\ refs' = refs - 1
  /\ UNCHANGED <<socket, timer, reading, writing, rxBuffer, later, pc, delivered>>

\* Calls of onData: sendData restarts the timer and starts a write, with a
\* reference for each; a write behind another one waits for it.
SendData ==
  /\ pc = "upcall"
  /\ sent < MaxWrites
  /\ sent' = sent + 1
  /\ txPending' = txPending + 1
  /\ refs' = refs + 2
  /\ timer' = "armed"
  /\ \E result \in {<<>>, <<"written">>, <<"writeError">>} :
       /\ result # <<>> =>
            IF socket = "closed" THEN result = <<"writeError">>
            ELSE writing = 0 /\ result = TryWrite(1)
       /\ socket = "closed" \/ (peer = "reset" /\ writing = 0) => result # <<>>
       /\ writing' = writing + One(result = <<>>)
       /\ later' = later \o Aborted \o result
  /\ UNCHANGED <<socket, reading, rxBuffer, now, io, expired, pc, arrived, peer, delivered>>

CallClose ==
  /\ pc = "upcall"
  /\ Close(refs)
  /\ UNCHANGED <<txPending, rxBuffer, now, io, expired, pc, arrived, peer, sent, delivered>>

\* Slip: receive() is called after onData as well as before it.
EndDataReceives ==
  /\ pc = "upcall"
  /\ pc' = "loop"
  /\ Receive(refs - 1)
  /\ UNCHANGED <<socket, writing, txPending, now, io, expired, arrived, peer,
                 sent, delivered>>

EndData ==
  /\ pc = "upcall"
  /\ pc' = "loop"
  /\ refs' = refs - 1
  /\ UNCHANGED <<socket, timer, reading, writing, txPending, rxBuffer, loopVars,
                 arrived, peer, sent, delivered>>

-----------------------------------------------------------------------------
(* The peer and the specification *)

PeerSends ==
  /\ socket = "open" /\ peer = "open"
  /\ arrived < MaxData
  /\ arrived' = arrived + 1
  /\ UNCHANGED <<socket, refs, timer, reading, writing, txPending, rxBuffer,
                 loopVars, pc, peer, sent, delivered>>

PeerLeaves ==
  /\ socket = "open" /\ peer # "reset"
  /\ peer' \in {"shutdown", "reset"} \ {peer}
  /\ UNCHANGED <<socket, refs, timer, reading, writing, txPending, rxBuffer,
                 loopVars, pc, arrived, sent, delivered>>

Init ==
  /\ socket = "new"
  /\ refs = 1
  /\ timer = "idle"
  /\ reading = FALSE
  /\ writing = 0
  /\ txPending = 0
  /\ rxBuffer = 0
  /\ now = <<>> /\ io = {} /\ expired = FALSE /\ later = <<>>
  /\ pc = "loop"
  /\ arrived = 0
  /\ peer = "open"
  /\ sent = 0
  /\ delivered = <<>>

Handle == Descriptor \/ TimerHandler \/ DataHandler \/ EofHandler
          \/ ReadErrorHandler \/ AbortedHandler \/ WriteHandler \/ EndData

Next == Accept \/ AcceptFails \/ Poll \/ Handle \/ SendData \/ CallClose
        \/ PeerSends \/ PeerLeaves

Spec == Init /\ [][Next]_vars

\* The event loop thread runs, and a timer that is not restarted again and
\* again is found expired some time.
Expire == \E events \in SUBSET {"in", "out"} : PollWith(events, TRUE)

FairSpec == Spec /\ WF_vars(Poll \/ Handle) /\ SF_vars(Expire)

-----------------------------------------------------------------------------
(* Properties *)

\* Every variable keeps its type.
TypeOK ==
  /\ socket \in {"new", "open", "closed"}
  /\ refs \in Int
  /\ timer \in {"idle", "armed"}
  /\ reading \in BOOLEAN
  /\ writing \in Nat
  /\ txPending \in Int
  /\ rxBuffer \in 0..MaxData
  /\ now \in Seq(Handlers)
  /\ io \subseteq {"in", "out"}
  /\ expired \in BOOLEAN
  /\ later \in Seq(Handlers)
  /\ pc \in {"loop", "upcall"}
  /\ arrived \in 0..MaxData
  /\ peer \in {"open", "shutdown", "reset"}
  /\ sent \in 0..MaxWrites
  /\ delivered \in Seq(0..MaxData)

\* What keeps the channel alive: the accept handler or the open socket, each
\* operation that is pending or whose handler is queued, and onData.
Holders ==
  One(socket # "closed") + One(timer = "armed") + One(expired) + One(reading)
    + writing + Len(now) + Len(later) + One(pc = "upcall")

\* The reference count is right: no handler of a deleted channel is left in
\* the event loop, and a channel nothing refers to does not stay behind.
RefsAreHolders == refs = Holders

\* An open channel is always watched by its inactivity timer.
OpenIsWatched == socket = "open" => timer = "armed" \/ expired

QueuedIn(handlers, queue) == {i \in 1..Len(queue) : queue[i] \in handlers}

\* rxBuffer is the target of at most one read: while one is pending or its
\* handler queued no other is started, not even around close.
OneRead ==
  LET queue   == now \o later
      results == QueuedIn(ReadResults, queue)
  IN /\ \A i, j \in results : i = j
     /\ reading => results = {}

\* txPending counts the writes whose handler is still to come, so that
\* onReadyToSend runs when the last of several overlapping writes is done.
TxPendingIsWrites ==
  txPending = writing + Cardinality(QueuedIn(WriteResults, now \o later))

\* Each connection ends, whatever the peer does: the channel is deleted.
EveryChannelEnds == socket = "open" ~> refs = 0

\* "called when new data arrived" (onData): each segment is passed on, once.
DataAsReceived == \A i \in 1..Len(delivered) : delivered[i] = i
=============================================================================
