# Verification of Huasi

Huasi is a gateway between HTTP clients and a Z-Wave network that is reached
through a serial dongle (a second protocol, EnOcean, is in the code but not
wired up yet). This directory holds TLA+ models of its core, the TLC
runs that check them on small instances, and TLAPS proofs for every value of
the constants.

## 1. The system

One process, one thread: everything runs in handlers of one asio event loop.
There are no locks; what makes it hard is the order of handlers, and what a
handler that is already queued still does after the state has moved on.

| Component | State | Operations | Talks to |
|---|---|---|---|
| `ZWaveProtocol` | request deque, retry count, funcId counter, one timer, receive buffer | `sendRequest`, read handler (ACK, NACK, CAN, frames), timer handler, `resendRequest` | dongle by serial line; callbacks `onResponse`, `onRequest`, `onError` |
| `ZWaveNetwork` | nodes with their command objects | discovery, `updateNode`, `sendSet`, `get`, `onRequest` | derives from `ZWaveProtocol`; called by `Gateway` |
| `FibaroFgr222` | tracked positions | `sendSet`, `get`, `onCommand` | command objects of a node |
| `Channel` | socket, inactivity timer, pending writes, receive buffer, reference count | `receive`, `sendData`, `close`, four handlers | TCP peer; callbacks `onData`, `onTimeout`, ... |
| `Server` | acceptor | `listen`, `close` | creates channels |
| `HttpChannel` | parser, url and headers being collected | parser callbacks, `sendResponse` | derives from `Channel` |
| `Gateway` | (none of its own) | `onRequest` | derives from `HttpChannel`; calls the network |
| `Parameters`, `cast` | string map | typed getters and setters | `Gateway`, command objects |
| `EnOceanProtocol`, `EnOceanNetwork` | as `ZWaveProtocol`, simpler | as `ZWaveProtocol` | not wired up in `main.cpp` |
| `Object`, `ptr` | reference count | `addReference`, `removeReference` | everybody |

A GET or POST of a client reaches `Gateway::onRequest` inside the data handler
of its `Channel`; that calls `ZWaveNetwork::get` or `sendSet`, which answer
from memory and put requests into the queue of `ZWaveProtocol`. Nothing of the
network comes back to the client.

What each part must get right:

* **ZWaveProtocol**: requests are served first come first served, each ends
  once, with its own answer; what is lost on the line is sent again; a request
  is not sent or called back after its end; no report of a node is lost; the
  queue never stops.
* **Channel**: it is deleted when, and only when, nothing refers to it; it is
  always watched by its timer while open; one read at a time; data is passed
  on as received; every connection ends.
* **Server**: it lives as long as an accept may still run, loses no channel when
  accepting fails, and serves every client while it is open.
* **ZWaveNetwork, FibaroFgr222**: the command table fits what a node said, and
  tracked values survive a repeated node information frame.
* **HttpChannel, http_parser**: however the bytes are cut into chunks, each request
  is handed on whole, in order, once, when it is complete, with its own headers;
  what is garbled is not handled; a connection ends when a response said so.
* **Gateway, Parameters, cast**: a form is taken apart as its writer meant it;
  what is reported can be sent back; numbers are read as written or refused.
* **EnOceanProtocol**: as `ZWaveProtocol`, as far as a protocol without
  acknowledgements and names of requests can be.

The behaviours that are hard to test are listed, at their lines, under
"hazards" in `PROJECT.json`. The most productive source of trouble: **asio
cannot cancel a wait that has expired**. When one poll of the reactor finds
the descriptor readable and the timer expired, the handler of the read runs
first and its `cancel()` or `expires_from_now()` comes too late for the timer's
handler, which runs without an error.

## 2. Modules

| Module | What it is |
|---|---|
| `RequestQueue` | abstract: what `sendRequest` promises to callers |
| `ZWaveProtocol` | the host side of the serial protocol against an arbitrary line; implements `RequestQueue` |
| `ZWaveSystem` | `ZWaveProtocol` composed with a dongle that keeps the protocol, and a faulty line |
| `ZWaveNetwork` | nodes, their command objects and what these track, against devices and a radio; built on `RequestQueue` |
| `EnOceanProtocol` | the other serial protocol and its controller; implements `RequestQueue` too |
| `Channel` | one TCP connection, the event loop and the peer |
| `Server` | the acceptor, its accepts, channels as far as their references go, the kernel's backlog |
| `HttpChannel` | the request parser, the callbacks that collect a head, the gateway's answers |
| `HttpClient` | `HttpChannel` composed with clients that write messages one behind the other |
| `Cast` | getters and setters of `Parameters`, the integer casts step by step |
| `GatewayForm` | `Cast` composed with the form of a GET, the query of a POST and their escapes |
| `ZWaveSystemProofs` | theorems about `ZWaveProtocol`, then about `ZWaveSystem` |
| `HttpChannelProofs` | lemmas on the bytes of messages, theorems about `HttpChannel` |
| `HttpClientProofs` | theorems about `HttpClient`; builds on `HttpChannelProofs` |
| `ZWaveNetworkProofs`, `ChannelProofs`, `EnOceanProtocolProofs`, `ServerProofs`, `GatewayFormProofs` | theorems about one module each |
| `MCZWaveProtocol`, `MCZWaveSystem`, `MCZWaveScenarios`, `MCZWaveNetwork`, `MCChannel`, `MCHttpChannel`, `MCGatewayForm` | instances for TLC |

### ZWaveProtocol

A message on the line is one element of `rx`; `rxBuffer` holds what reads have
returned. Bytes are left out: an incomplete frame is a message that has not
arrived, one with a wrong checksum is `CORRUPT`, an unknown byte `UNKNOWN`.
`requests`, `txRetryCount`, `nextFuncId` and `funcId` are the members of the
class. `txTimer` says whether a wait is pending.

`ready` is the loop's handler queue with the reactor's task in it
(`task_io_service::do_run_one`); `Poll` is `epoll_reactor::run`: it appends the
descriptor's completion, then the expired timer's, then the task. The read
handler is a loop over the buffer with callbacks inside, so it takes several
steps: `pc = "read"` between two messages, `"upcall"` inside a callback, where
`SendRequest` may happen, and `"undefined"` after undefined behaviour. The
other handlers are one action each.

| Action | Code in `ZWaveProtocol.cpp` |
|---|---|
| `SendRequest(r)` | `sendRequest(ptr)` 109-115, with `Transmit` = `sendRequest()` 267-307 |
| `TimerHandler` | 285-290, with `Resend` = `resendRequest` 309-324 |
| `ReadHandler`, `ReadError`, `Receive` | begin, error path and end of the read handler 117-265 |
| `ReceiveAck`, `ReceiveNack`, `ReceiveCan` | 215-228, 229-243, 244-251 |
| `ReceiveGarbage` | checksum error 202-206, unknown byte 252-259 |
| `ReceiveSecondFrame` | a frame with `frame` already set, 138-140 and 198-201 |
| `ReceiveResponse`, `ReceiveSendResponse`, `ReceiveStatus` | match 161-190, end of the procedure in `EndProcedure` |
| `ReceiveRequest`, `ReceiveOther` | 191-195, and frames that fit nothing |

`SendRequest::funcId` is not initialized by its constructor. `Unset` stands for
that, and comparing it (`MayMatch`, `MayDiffer`) may go either way.

`outcome`, `notified`, `txCount` and `acked` are history: they record what
properties speak about and guard nothing, except that a request object is
submitted once (`outcome[r] = "new"`), as all callers do.

### ZWaveSystem

The dongle is not in the repository. It is modelled from the protocol in the
repository's README ("Send a Request", "Double send before ACK", ...): it
acknowledges a request, answers with a RESPONSE, and for a SendRequest later
with a REQUEST that carries the funcId; it sends one frame at a time until that
is acknowledged; it answers CAN to a request that arrives while it awaits an
ACK. `Faults` chooses what may go wrong on the line. The timer expires only
when nothing is under way (`Quiet`): 1500 ms against milliseconds.

### ZWaveNetwork

The level above: `queue` is the request queue as its callers see it
(`RequestQueue`), `stuck` that a request was given up and nothing was sent since, `air[n]` the frames of node `n` on their way, in order. The
command table `Node::commands` is `commands`; the members of all command
objects of a node are together in `tracked`, one field each, because each
class has its own members. `device` is what the devices themselves are set
to. An `optional` or a value that the flags of a report exclude is `None`.
Class lists are real bytes, because `updateNode` reads the wrong ones.

| Definition | Code |
|---|---|
| `Init`, `OnResponse` | constructor, `DiscoverNodesRequest::onResponse`, `ZWaveNetwork.cpp` 16-34 |
| `SendSetParameters`, with `SendSet` | `sendSet` 308-320 and the `sendSet` of each command class |
| `Get` | `get` 322-337 |
| `ReceiveNodeInfo`, with `UpdateNode` | `onRequest` 358-369, `updateNode` 373-412 |
| `Ignore`, `Track`, `Identify` | `onRequest` 346-357 and `onCommand` of the command classes |
| `LoseRequest`, `Stray` | give-up in `ZWaveProtocol.cpp` 309-324, after which the queue is stuck; what a late NACK, expiry or answer does to it then, 161-243 |
| `Deliver`, `Repeat`, `LoseFrame`, `Turn`, `Announce` | external: devices and radio |

### Channel

The loop's queue is cut at the point where the reactor is polled: handlers
`now` in front of it, what the last poll found (`io`, `expired`), and handlers
`later` posted since. A read or write that can be done at once is done at once
and its handler posted (`epoll_reactor::start_op`); this is what makes the
data finding below possible. Data is cut into numbered segments, one per read.

| Action | Code |
|---|---|
| `Accept`, `AcceptFails` | handler of `async_accept`, `Server.cpp` 18-39 |
| `DataHandler`, `EofHandler`, `ReadErrorHandler`, `AbortedHandler` | handler of `async_read_some`, `Channel.cpp` 96-114 |
| `TimerHandler` | 81-88 and 121-123 |
| `WriteHandler` | 37-49 |
| `SendData`, `CallClose`, `EndData` | what `onData` does, 12-50 and 56-70 |
| `Poll`, `Descriptor` | `epoll_reactor::run`, `descriptor_state::perform_io` |

### EnOceanProtocol

The loop is that of `ZWaveProtocol`, in the same variables. `pc = "response"`
is inside `onResponse`, which runs while the request is still in the queue.
Packets are whole: `RESPONSE`, `RADIO` (any other type) or `CORRUPT`.

| Action | Code in `EnOceanProtocol.cpp` |
|---|---|
| `SendRequest(r)` | `sendRequest(ptr)` 66-72, with `Transmit` = `sendRequest()` 148-190 |
| `TimerHandler` | 168-173, with `Resend` = `resendRequest` 192-207 |
| `ReadHandler`, `ReadError`, `Receive` | begin, error path and end of the read handler 77-83, 143-144 |
| `ReceiveResponse`, `EndResponse` | 97-111: timer stopped, callback, then pop and next request |
| `ReceiveOther`, `EndUpcall` | 112-115: `onRequest` |
| `ReceiveGarbage` | 121-140 |
| `Respond`, `Lose`, `Line` | external: the controller and the line |

The controller answers in order; `link` says whether its answers are prompt,
may be late or lost, or whether anything may come. The queue properties hold for
all three, those about answers for a prompt link: a response names no request.

### Server

An accept is a channel in `waiting` (the reactor waits for a connection) or a
result in `completed` (its handler is queued). `Start` is `async_accept` on a
closed acceptor, on one with a connection to take at once, and otherwise. Of a
channel the module has the references: 1 of the accept's handler, or 1 of the
open socket and 2 of its operations (the wait and the read that `receive` starts).

| Action | Code |
|---|---|
| `Listen` | `listen`, `Server.cpp` 12-41 |
| `Handler` | handler of `async_accept` 20-39, both outcomes |
| `Close`, `Release` | `close` 43-48; the owner's `ptr` and the destructor 9-10 |
| `CloseChannel`, `EndOperations` | the channel's own references, `Channel.cpp` 56-70, 81-119 |
| `Accept`, `Connect` | `epoll_reactor`, and the kernel (external) |

### HttpChannel and HttpClient

A stream is a sequence of symbols, and a chunk may end behind any of them; each
stands for bytes between which a split changes nothing (a name is two symbols
long where a split inside it matters). `parser` has the members of
`http_parser`, `mark` the part that is being collected and `channel` the members
of `HttpChannel`. `received` and `answers` are history. One action takes one symbol,
as one round of the loop of `http_parser_execute` does.

| Action | Code |
|---|---|
| `OnData`, `EndOfChunk` | `onData`, `HttpChannel.cpp` 69-76; begin and end of `http_parser_execute`, `http_parser.c` 646-703, 1998-2023 |
| `ReadMethod`, `ReadUrl` | request line 917-1176 |
| `ReadFieldStart`, `ReadField` | header names 1178-1355, `OnHeaderField` = `HttpChannel.cpp` 110-116 |
| `ReadValueStart`, `ReadValue`, `ReadValueEnd`, `ReadEmptyValue` | values 1357-1703, `OnHeaderValue` = `HttpChannel.cpp` 118-124 |
| `ReadContentLength`, `ReadLengthDigit` | 1400-1416, 1495-1520 |
| `EndHead`, `CompleteHead` | 1705-1818, `on_headers_complete` and `Gateway::onRequest` (`Answer`) |
| `ReadBody`, `ReadChunkSize`, `ReadChunkHeader`, `ReadChunkData`, `EndChunkData` | 1820-1993 |
| `EndTrailer`, `ReadDead` | 1705-1714, 708-716 |
| `Fail` | `SET_ERRNO` and `goto error` 2025-2030 |
| `Close` | `Channel::close` |

`HttpClient` writes `script`, a sequence of messages, as bytes; `garbled` is the
place of a byte that went wrong. Its properties compare what the gateway was
handed with what was written. `ScriptsAssumption` says what a client writes: names of
tokens, values without control characters, a list of tokens in Connection, a
length that is that of the body or out of range, chunks that are not empty, and
`Transfer-Encoding: chunked` exactly when there are chunks (after a further coding,
`chunked, x`, the parser sees none, and such a message has none).

### Cast and GatewayForm

Characters are their codes, and `cast` (`cast.hpp` 9-44) is run one character per
step, with unsigned arithmetic modulo `Max + 1`; `reader.number` is the number
without that limit, to compare with. `GatewayForm` writes a form
(`BeginEntry`, `WriteCharacter`: `Gateway.cpp` 39-60, 110-121) or lets a client do
so, with more escapes than needed; `ParseArgument` is one round of the loop at 81-97
with `DecodeQuery` = `decodeQuery` 8-35; `GetParameter` and `Cast` are the getter.

Operators whose comment begins with "Slip" are faulty variants of the
definition that follows them. No action uses them; they are there to check that
the properties notice such a fault.

## 3. Runs

Passing runs:

| Run | Bounds | Shows |
|---|---|---|
| `zwave_protocol` | 2 requests (one plain, one SendRequest), 2 messages on the line | watch by the timer, what was sent, retries, finality and the refinement, against an arbitrary dongle |
| `zwave_system` | five scenarios, see below | each request ends, with its own answer, none is given up, no report is lost |
| `network` | a shutter and a switch, 1 POST, 1 event of a node, 1 fault | tables and tracked values fit the devices when all is quiet, and it becomes quiet, or stuck after a give-up |
| `channel` | 3 segments, 2 writes | references, timer, read and writes; every connection ends |
| `http` | two pipelined messages of 21 by 4 kinds, two scripts of three; 4 scripts with any one byte garbled; every way to cut them | messages are handed on whole, in order, when complete, and answered; what is garbled is not |
| `enocean` | 2 requests, 2 messages on the line, three kinds of link | the refinement, watch by the timer, own answers, each request ends |
| `server` | 3 clients, 2 calls of `listen`, 1 descriptor | reference counts in every order of accept, failure, close and release; every client is served |
| `form` | 1 or 2 parameters, texts of up to 2 special characters and some numerals, 9 arguments put in front | forms are taken apart as meant, numbers in range without sign and leading zero are read as written, what is reported is read back |

Two requests are enough to have one that ends and one that follows it, of
either class; two messages for a second frame in one read. (The first four
invariants and both action properties of `zwave_protocol` were also checked with
three requests and one message at a time.) There is one payload only, so the run does not
see a callback with the wrong one; `FinishedFinal` covers any payloads. In `zwave_system` two requests share
each function, and the funcId wraps at 3. In the channel three
segments allow one in the buffer, one read early and one behind; two writes
overlap. In the network the shutter's class list is long enough for its classes
to be met; one POST, one event and one fault may each fall between any two steps
of the discovery. A GET is true (`QuietGetIsTrue`) only of what a device
reports: positions and product, not a basic value, which the shutter does not
report (`FibaroFgr222.hpp:8`), and not the slat time (see below).

In `http` a message may be followed by one of each framing, so that what the
first leaves behind (flags, marks, moved strings, a trailer) meets the second.
`MaxLength = 25` stands for `ULLONG_MAX`: the same conservative test as in the
code refuses "222" at its second digit. In `server` one descriptor and three clients make accepting
fail and succeed again, with two accepts waiting side by side; six channel objects
are one more than can exist at a time. In `form` the maxima are the real ones, 255
and 65535.

`CHECK_DEADLOCK FALSE` is set for `zwave_protocol` and `enocean` because a finite set of
requests may be used up, and because undefined behaviour stops the model; for
`zwave_system` and `network` because they come to rest when all is
done; for `http`, `server` and `form` because clients have written
all they write, or the server is gone. `channel` checks for deadlock.

A request survives two failed transmissions. One fault that loses the dongle's ACK, and the
request's own status and a report that come in the way of the next two, are three, and a
give-up stops the queue (see below). So `zwave_system` has scenarios
(`MCZWaveScenarios`), one of which is chosen at the start:

| Requests | Reports | Faults |
|---|---|---|
| two of each class | none | 1, on requests, ACKs of the dongle or its frames |
| 2 plain, 1 SendRequest | 2 | none: host and dongle collide |
| 2 plain | 1 | 1, as in the first |
| 1 plain, 1 SendRequest | 1 | 2, on frames of the dongle and ACKs of the host |
| 2 SendRequests | 1 | 2, on frames of the dongle |

That no confirmed report is lost is proved for any faults but `late`, requests and reports
(`ReportsCorrect`).

Violation runs, each one a disagreement between the code and what its comments
say; the counterexamples are short.

| Run | Property | What happens |
|---|---|---|
| `queue_stuck` | `EveryRequestEnds` | after a give-up the next request is never sent, nor any later one |
| `channel_data` | `DataAsReceived` | a segment is overwritten before `onData` sees it |
| `server_closed` | `ClosedServerEnds` | after `Server::close` the handler of the aborted accept listens again on the closed acceptor, which fails at once, for ever, and the reference to the server never goes, where `Server.hpp:30` says "close the server which will cause the destructor to be called at a later time" |
| `http_headers` | `HeadersAsSent` | a repeated header name swallows the next one, and the headers of a trailer reach the next request |

After `Server::close` `RefsAreHolders` still holds: `ServerRefs` says that there is an accept for each
`listen` of the owner for ever, and `server_closed` that this is not what was promised.

More disagreements can be read off the models without a run of their own.

* **Serial protocols.** A host that was stalled finds ACK, response and the expiry of the timer in
  one poll: the handler of the expiry runs on a queue that the response has emptied, `front()` of an
  empty deque (`ZWaveProtocol.cpp:317`; `EnOceanProtocol` has it too), `pc = "undefined"` in
  the models. With another request in the queue, it sends one again that has been
  acknowledged, where the handler's comment says "timer expired before response
  (ACK or NACK) was received" (`ZWaveProtocol.cpp:287`). `Defined` excludes this by `Quiet`; without
  `Quiet` TLC finds it with one request. When the dongle repeats a frame that is not lost (the
  fault `late`, one is enough), the frame behind the copy in the same read is new, is dropped and
  taken for confirmed, where the comment says "mutiple only because other side didn't receive ACK in
  time" (`ZWaveProtocol.cpp:138`); and a repeated RESPONSE ends
  the next request with the same function. `ReceiveCan` does
  nothing where the comment on `CAN` says "cancel - resend request"
  (`ZWaveProtocol.hpp:29`). After a give-up a request that was never sent may be ended
  through its uninitialized funcId (`MayMatch`). In EnOcean a radio telegram stops the
  timer of a request whose response was lost, so that it stays for ever, where the code says
  "wait for response or timeout" (`EnOceanProtocol.cpp:187`).
* **Channel.** `onTimeout` may close a connection that has just been active.
  `ReadErrorHandler` leaves the socket open, and no `onError` closes it, where
  `Channel.hpp:66` says "channel will be closed and deleted after onError returns".
* **Network.** `ZWaveNetwork.cpp:367` passes `data` where
  `data + 7` is meant: `Classes` is the begin of the frame, cut to the length of
  the class list. The last seven classes of a list are never seen, a node with a
  short list gets no command objects at all (`sendSet` and `get` return false,
  though `ZWaveNetwork.hpp:293` says "true if node exists in the ZWave network"),
  and node 32 gets a `BasicCommand` because of its number. A report on its way when
  a slat time is set puts the old one back for good (`FibaroFgr222.cpp:67`).
* **Parameters.** `cast.hpp:8` says "Returns null value if conversion is not possible". For
  "300" read as a byte it returns 44, for "-2" 254, for "-5" as a percentage 251, and for
  "", "+" and "-" 0; and it refuses "0" and every numeral with a leading zero, so that
  `position.blinds=0` cannot be set by a POST. `NumberAsWritten` says for which texts the right number
  is read, and leaves these out. `setState` writes the inverse of what
  `getState` reads (`Parameters.cpp:17`), so `ReportedIsReadBack` speaks of bytes and words only.

## 4. Fairness

* `ZWaveSystem!FairSpec` and `ScenarioSpec`: `WF(Loop)`, because `main` runs the loop and a
  handler always returns; `WF(DongleStep)`, because the dongle works and its
  retransmissions come. Nothing is assumed of callers or nodes, and faults are
  bounded by `MaxFaults` and the scenario, not by fairness; each fair step that may
  go wrong may also go right, so a scenario does not stand in its way.
* `ZWaveNetwork!FairSpec`: `WF(OnResponse \/ Deliver)`: the queue carries out
  its requests, which is what `ZWaveProtocol` promises to callers, and what
  `zwave_system` shows as long as nothing is given up. After a give-up both are
  disabled while requests are left (`stuck`): nothing is sent then (`queue_stuck`).
  `Stray`, the accident that gets the queue going again, has no fairness, and
  `Settles` promises no more than quiet air and a queue that is empty or stuck.
  `WF(Receive)`: the loop handles what arrives. Nothing is assumed of clients, and
  of nodes only that they answer what reaches them.
* `Channel!FairSpec`: `WF(Poll \/ Handle)` for the loop, and `SF(Expire)`: a
  timer that is pending again and again is found expired some time. The bounds
  on data and writes make the restarts finite, so this says no more than that
  30 s pass. Nothing is assumed of the peer.
* `HttpClient!ClientSpec`: `WF(OnData)`, data that was written arrives, and
  `WF(Work \/ EndOfChunk)`, the parser's loop ends. `Close` may come at any time.
* `EnOceanProtocol!Spec`: `WF(Loop)` without the read error, which is not
  promised to happen, and `SF(Respond)`: telegrams may fill the line again and
  again, but only because `MaxLine` bounds it; the controller answers in between.
* `Server!Spec`: `WF(Accept)`, `WF(Handler)` for the loop; `WF` for the end of each
  channel, because each connection ends (`Channel!EveryChannelEnds`). A client or the
  owner promises nothing.

## 5. Proofs

All theorems hold for every value of the constants that satisfies the named
assumptions, which TLC evaluates in every run: for `ZWaveProtocol` any requests and functions
(`SendRequests` are requests, each has a function, `MaxFuncId` and `MaxLine`
are positive), for `Channel` any number of segments and writes, for `Server` any finite
sets of clients and channels with enough channels, for `HttpChannel` any set
of streams over the symbols (tokens are not delimiters) and any `MaxLength` of at
least 16, for `HttpClient` any set of scripts that meets `ScriptsAssumption` (section 2), for
`Cast` any maxima (that of a percentage at least 99), and those of
`ZWaveSystem`, `ZWaveNetwork` and `GatewayForm` below.

**ZWaveSystemProofs, the protocol.** `TypeCorrect` is inductive as it stands, because it
says that the loop always has its task and that the retry count is below the
limit. `Implements` maps each step to `Submit`, `Complete`, `GiveUp` or a
stutter; that the abstract queue holds what has not ended, each once, then carries over
to the implementation as `QueueCorrect` (its distinctness part needs "queued = in the queue" and
vice versa). `FinishedFinal` follows from the queue invariant: only the
front request is touched, and it is not finished. `SendInv` strengthens
`GiveUpAfterTries` and `HeadOnTheWire`: it bounds `txRetryCount` by the
transmissions of the front request, says that requests not in front were not
sent, and that a front request that was not sent implies an earlier give-up.
`GuardCorrect` is inductive relative to the others; the interesting case
is the timer's handler, which gives up and leaves a timer alone.

**ZWaveSystemProofs, the system.** `SystemImplements` shows the composed system to be one of the
lines `ZWaveProtocol` allows for, so its theorems hold here too. `LoopInv` says which
handlers can be queued together, and that an expiry is alone and finds its request: that
is `DefinedCorrect`, for any faults. It rests on `Quiet`, that the timer expires only
when nothing is under way, which a stalled host breaks. The others need hypotheses on what goes wrong.
Without any of them TLC finds a behaviour that violates the property, with two faults at
most:

* `"late" \notin Faults`: the dongle sends no frame again that is not lost. Else the ACK
  of the first copy counts for the next report, and a response comes twice.
* `"hostAck" \notin Faults`: the dongle gets the ACKs of the host, for the same reason.
* `FreshIds`: a function id is not used for a new request while a status with that id is
  to come. With 255 ids the code relies on it without looking.
* `Reports = {}` for `RetriesSuffice`: a report that waits for its ACK makes the dongle
  cancel requests, which costs transmissions without a fault.

`RetriesSuffice` takes the first two as well, because it rests on `ExchangeInv` and
`TokenInv`; TLC finds no violation of `NothingGivenUp` itself with one such fault.
`FreshIds` is met by every step of the run `zwave_system`.

`TokenInv`: a frame of the dongle that waits for its ACK has one trace at most, on the
line, in the host's buffer, or as the ACK; with `ReportInv` that gives `ReportsCorrect`.
`ExchangeInv`: of a request, its refusal and its response one is on its way at most, and
it is the front request's. `StatusInv`: a status with the front request's id is that
request's, and its response comes before it. Both are inductive only as long as nothing
is given up, so `AnswersCorrect` takes `NothingGivenUp`, and `RetriesSuffice`
discharges it for one fault. `RetryInv` counts what one fault can do: it dooms one
transmission, and if what was lost is an ACK it leaves a loose status, which may come in
the way of one more; that makes two of three. `AnswersAfterOneFault` puts them
together.

**ChannelProofs.** `RefsAreHolders` is not inductive alone: a second read in
flight would be uncounted, because `reading` is one bit. The inductive
invariant is `TypeOK`, `Fresh` (nothing is going on before the accept),
`ReadInv` (at most one read is pending, has its result queued or is owed by the
handler in front), `RefsAreHolders` and `OpenIsWatched`; each action has one
lemma for each conjunct it can disturb. `WritesCorrect` counts the write results in both
parts of the queue (`WritesInv`), with lemmas on how that number changes when a queue
is extended or its first handler is taken.

**ZWaveNetworkProofs.** `TypeCorrect`, `TableCorrect`, `GetCorrect`. The last
two speak of a network where nothing is under way, so the invariant `IInv` has to say what is under way before that.
`TableInv`: for each shutter that lists its manufacturer class, something leads
to its command objects: the constructor's request, the request for its
information frame, that frame, the get of the manufacturer, the report, or they
are there. `FreshInv`: what an object tracks is asked for, or `Current`: the
last report under way that has the value, or, without one, the object, has the
device's. `AskedIsThere`: a manufacturer that was asked for meets the object
that handles it. `SetsAreOwn`, `ReportsAreOwn`: sets and reports have values of
their own class only, the one of a product is true. The lemmas `WillBeAppended`
and `WillBeReceived` are the two facts about a frame that is sent or received.
`CarryOutStep` covers requests carried out once or again; `ReceiveStep` reduces
what arrives to what must be shown of its sender. The assumptions are the types
of the constants and that ids are at most 255. Losses are in the model, but the
promises end with the first one (`lost = 0`); `StuckInv`, that a queue is stuck only
after one, spares the proof the steps of `Stray`.

**EnOceanProtocolProofs.** `TypeCorrect` needs `Responding` (while `onResponse` runs
there is a request to pop afterwards). `Implements` maps `EndResponse` and the give-up of
`Resend` to `Complete` and `GiveUp`, `SendRequest` to `Submit`, everything else to a
stutter; `QueueCorrect` carries over from the abstract queue as for Z-Wave. `GuardCorrect` needs `SentInFront`: after a give-up the
request that comes to the front was not sent. `AnswersCorrect` holds for a prompt
link, where `NoTimeout` says that no expiry is queued, `OneAnswer` that at most one answer
is under way between the controller, the line and the buffer, that it is the front
request's, and that there is none while a callback runs, and `OwnAnswers` that a
request that ended has had its own.

**ServerProofs.** `RefsAreHolders` counts with `Cardinality(Awaited)`, which no step
preserves by itself. The inductive invariant is `TypeOK`, `ServerRefs`, `Closed` (a closed
acceptor waits for nothing, so that no accept is lost with it), `HeldRefs` and
`Distinct`: over `accepts`, the channels of all accepts in the order they
were started, no channel occurs twice and exactly those that are created occur. That each
accept that completes moves from one sequence to the other without a change
of `accepts` is most of the proof; the cardinality follows at the end.

**HttpChannelProofs.** The streams are arbitrary: nothing is assumed of clients.
`TypeCorrect` includes that a content length or chunk size stays in its integer: `DigitFits`
shows that the parser's conservative test leaves room for one more digit, in either base.
The types of body bytes need `ParserInv`: a body that is read has bytes left, and
body bytes are marked only in a body. `FramingCorrect` and `CloseCorrect` are proved together with
`MessageInv`: there are as many answers as messages, and `CloseInv` relates what the last
answer announced to what `KeepAlive` will say at the message's end; a body of known
length changes no flags, a trailer may only add some. There is one lemma per parser action
for the types and one for the messages.

**HttpClientProofs.** `SentCorrect`, `GarbledCorrect` and `CompleteCorrect` compare the
parser with a script flattened to bytes, for every script, every split into chunks and every
garbled byte at a decisive place. The inductive invariant is `ClientInv`:

* `Fixed`: the script, the garbled place and the ends of the heads do not change, and the
  stream is what they say.
* `Place`: the parser's state tells which part of the script was read (`AtStart`, `AtUrl`,
  `AtLine`, `AtName`, `AtColon`, `AtValue`, `AtBody`, `AtChunk`, `AtChunkSize`,
  `AtChunkData`): the bytes ahead are the rest of that part, the rest of its message and
  `Later(script, i)`, and flags, lengths and what the callbacks collected, with the
  part that is marked (`Virtual`, `BodyRead`), are those of what is behind. `Marked` says
  which part that is. `Place` holds until the parser finds an error or a message that
  switches protocols was handled (`Lost`): what follows such a message is no HTTP.
* `Sent`: `MessagesAsSent`. It is not inductive alone, because a message's parts are
  handed over when its head ends and its body piece by piece after that.
* `Unharmed`: as long as there is no error, the garbled byte is ahead. The parser accepts any byte
  in a value, so the proof needs that it is in a value only behind a colon
  without an end of line since (`BehindColon`), which no decisive place is.
* `Punctual`: what was handled was complete, no message was handled behind one that
  closes, and a parser that has stopped (`Stopped`) had nothing to handle any more.

There is one lemma for each action of the parser and each part of the invariant that
it can disturb. In `CompleteCorrect`, that a message with a complete head was handled follows
from `Place`: in a head, more bytes are ahead than follow its end (`HeadAhead`), and
heads end in the order of their messages (`HeadsInOrder`). `FlattenSeq` is
a fold; that it unfolds to one text and the rest, and what follows for headers,
chunks and messages, are lemmas of `HttpChannelProofs`, by the same least numbers as below.
TLC found no reachable state that violates `ClientInv` with the constants of the
run `http`, before the proof was tried.

**GatewayFormProofs.** *Getters*: `CastInv` is `ReaderOK` and `LoopInv`: what was read so far is
digits; without a minus they do not begin with 0, and the local `value` is the number as
long as that is in range (`Counted`); and when a text was refused it has another character or a
minus, begins with a zero, is too long or is out of range. The overflow test
compares with `<=`, so the proof has to show that it refuses no number in range that
does not begin with 0, and that two characters, all that `getPercentage` accepts, cannot wrap
around. The proof is over any text of any length and any maxima.

*Numerals and queries*: `Numeral` and `DecodeQuery` are recursive functions on numbers.
That they exist and unfold, and what they return, is shown for the least number for
which it would be wrong (`LeastNumber`, `StrongInduction`, `BackwardInduction`, from
`WFMin`), because the induction theorems cannot be cited. `Numerals` says that a setter
writes digits without a leading zero; the values of its prefixes are what the
cast counts (`CountInv`, `ReadsBack`). `QueryUnfolds` and `DecodeReads` say that
decoding what `WriteCharacter` has written gives the text back: `Stands` relates one
character of a text to the one or three characters it is written as.

*Forms*: `FormInv` says where in the form each parameter stands and ends
(`Placed`), that all arguments after the first are parameters, so that only junk in
front is skipped, and which parameters the loop has passed and therefore has
(`Passed`). `BeginStep`, `WriteStep`, `ParseStep` preserve it; `ParseCorrect` is its value
at the end of the loop, `ReadBackCorrect` combines that with `CountInv` and
`Numerals`, and `FormsImplementCast` maps every step to one of `CastSpec`.
`FormAssumption` is what the code's types and clients give: names of parameters need no
escape, what a command object sets is in the range of `setByte` (`uint8_t`) and
`setWord` (`uint16_t`), texts are of characters, and a byte fits in a word.

**Only model-checked**: liveness (`EveryRequestEnds`, `EveryReportArrives`,
`EveryChannelEnds`, `Settles`, `EveryRequestAnswered`, `EveryClientServed`), because
fairness and ENABLED are out of the prover's reach; and `HeadersAsSent` and the other
properties whose violation is a finding. Every other property of a run that passes is stated by
a theorem.

## 6. Not modelled

* **Bytes of serial frames**, and so the edges of the length byte
  (`ZWaveProtocol.cpp:119`, `134`), and writes that complete in parts, and so overlapping
  writes of `txBuffer` or of a response's head and body (`ZWaveProtocol.cpp:297`,
  `Gateway.cpp:129`). All are listed as hazards without a property.
* **Errors of serial writes** (only printed) and `Channel::shutdown` (never called).
* **http_parser**: responses (the client mode of `HttpChannel` is commented out),
  folded header values, `Proxy-Connection`, chunk extensions, white space around values,
  the limit of the header size, the inner states of a url. `Url` wraps a pure
  parser and is called with whole urls.
* **The path from Channel to HttpChannel**: `HttpChannel` gets its data as `Channel`'s doc
  promises. `channel_data` shows that a segment may be overwritten; what the parser is
  then given is a different stream, and `TypeCorrect`, `FramingCorrect` and `CloseCorrect`,
  which hold for every stream, cover that too.
* **ZWaveNetwork**: the name of a node, frames too short for their kind, which length
  checks ignore, and node ids above 255, which are refused.
* **A dongle that is reset** after its ACK, so that a response never comes: nothing
  watches for it (`ZWaveProtocol.cpp:225`).
* `EnOceanNetwork` (keeps no state, its operations are commented out), the
  interface `Network`, and `main`, which wires the objects up.
* **asio** is vendored under `src/src/asio` and makes nine tenths of the repository's lines. Only
  what one event loop thread shows to its handlers is modelled: the order of
  completions, cancel against expiry, reads and accepts that are tried at once. Its
  buffers, templates, other platforms, resolver and TLS parts are not used by the
  program or keep no state that it depends on.

## 7. What could be added

* `SerialWriter`: composed writes on the tty and the socket that complete
  in parts; what reaches the line when two overlap.
* `ZWaveFrame`: the byte level of `receive`, shown to implement the message level
  that `ZWaveProtocol` uses, with the lengths 0, 1 and 255.
* `Channel` and `HttpChannel` as one module, with the data that `channel_data` loses.
