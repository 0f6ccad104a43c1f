--------------------------- MODULE ChannelProofs ----------------------------
(***************************************************************************)
(* What holds of Channel whatever the peer sends and onData calls, proved  *)
(* with TLAPS.                                                             *)
(*                                                                         *)
(* The reference count is right only because no read is started while      *)
(* another is pending (the handler of the other one would have no          *)
(* reference), so ReadInv is proved together with it.                      *)
(* txPending counts writes that end in any order with the other handlers:  *)
(* WritesInv says so of both parts of the queue.                           *)
(***************************************************************************)
EXTENDS Channel, SequenceTheorems, FiniteSetTheorems, TLAPS

USE BoundsAssumption

NoRead(queue) == \A i \in 1..Len(queue) : queue[i] \notin ReadResults

AtMostOneRead(queue) ==
  \A i, j \in 1..Len(queue) :
    queue[i] \in ReadResults /\ queue[j] \in ReadResults => i = j

\* Before it is accepted a channel does nothing.
Fresh ==
  socket = "new" =>
    /\ timer = "idle" /\ ~reading /\ writing = 0 /\ pc = "loop"
    /\ now = <<>> /\ io = {} /\ ~expired /\ later = <<>>

\* OneRead, with the queue cut where the reactor is polled.
ReadInv ==
  /\ AtMostOneRead(now)
  /\ AtMostOneRead(later)
  /\ NoRead(now) \/ NoRead(later)
  /\ reading => NoRead(now) /\ NoRead(later)

-----------------------------------------------------------------------------
(* Sequences of handlers *)

\* A sequence that repeats one value.
LEMMA Repeat ==
  ASSUME NEW n \in Nat, NEW S, NEW v \in S
  PROVE  /\ [i \in 1..n |-> v] \in Seq(S)
         /\ Len([i \in 1..n |-> v]) = n
<1> DEFINE s == [i \in 1..n |-> v]
<1>1. s \in [1..n -> S]
  OBVIOUS
<1>2. s \in Seq(S)
  BY <1>1, SeqDef
<1>3. DOMAIN s = 1..n /\ DOMAIN s = 1..Len(s) /\ Len(s) \in Nat
  <2>1. DOMAIN s = 1..n
    OBVIOUS
  <2> HIDE DEF s
  <2> QED BY <1>2, <2>1, LenProperties
<1>4. Len(s) = n
  <2> HIDE DEF s
  <2> QED BY <1>3
<1> QED BY <1>2, <1>4

\* Reads in a concatenation.
LEMMA ConcatReads ==
  ASSUME NEW p \in Seq(Handlers), NEW q \in Seq(Handlers)
  PROVE  /\ p \o q \in Seq(Handlers)
         /\ Len(p \o q) = Len(p) + Len(q)
         /\ NoRead(p) /\ NoRead(q) => NoRead(p \o q)
         /\ AtMostOneRead(p) /\ NoRead(q) => AtMostOneRead(p \o q)
         /\ NoRead(p) /\ AtMostOneRead(q) => AtMostOneRead(p \o q)
<1>1. /\ p \o q \in Seq(Handlers)
      /\ Len(p \o q) = Len(p) + Len(q)
      /\ Len(p) \in Nat /\ Len(q) \in Nat
      /\ \A i \in 1..Len(p) + Len(q) :
           (p \o q)[i] = IF i <= Len(p) THEN p[i] ELSE q[i - Len(p)]
  BY ConcatProperties, LenProperties
<1> QED BY <1>1 DEF NoRead, AtMostOneRead

\* Reads in what is left when the first handler is taken.
LEMMA TailReads ==
  ASSUME NEW q \in Seq(Handlers), q # <<>>
  PROVE  /\ Head(q) \in Handlers
         /\ Tail(q) \in Seq(Handlers)
         /\ Len(Tail(q)) = Len(q) - 1
         /\ NoRead(q) => NoRead(Tail(q)) /\ Head(q) \notin ReadResults
         /\ AtMostOneRead(q) => AtMostOneRead(Tail(q))
         /\ AtMostOneRead(q) /\ Head(q) \in ReadResults => NoRead(Tail(q))
<1>1. /\ Head(q) \in Handlers
      /\ Tail(q) \in Seq(Handlers)
      /\ Len(Tail(q)) = Len(q) - 1
      /\ \A i \in 1..Len(Tail(q)) : Tail(q)[i] = q[i + 1]
  BY HeadTailProperties
<1>2. Len(q) \in Nat \ {0} /\ Head(q) = q[1]
  BY EmptySeq, LenProperties
<1> QED BY <1>1, <1>2 DEF NoRead, AtMostOneRead

\* The empty queue and queues of one handler.
LEMMA ShortReads ==
  /\ <<>> \in Seq(Handlers) /\ Len(<<>>) = 0 /\ NoRead(<<>>) /\ AtMostOneRead(<<>>)
  /\ \A h \in Handlers :
       /\ <<h>> \in Seq(Handlers) /\ Len(<<h>>) = 1 /\ AtMostOneRead(<<h>>)
       /\ h \notin ReadResults => NoRead(<<h>>)
BY DEF NoRead, AtMostOneRead

\* Without a read there is at most one.
LEMMA NoReadIsAtMostOne == \A q : NoRead(q) => AtMostOneRead(q)
BY DEF NoRead, AtMostOneRead

-----------------------------------------------------------------------------
(* What asio does *)

\* At most one aborted wait is posted.
LEMMA AbortedType ==
  ASSUME TypeOK
  PROVE  /\ Aborted \in Seq(Handlers) /\ NoRead(Aborted)
         /\ Len(Aborted) = One(timer = "armed")
<1>1. "aborted" \in Handlers /\ "aborted" \notin ReadResults
  BY DEF Handlers, ReadResults
<1> QED BY <1>1, ShortReads DEF Aborted, One

\* A read has no result or one.
LEMMA TryReadType ==
  ASSUME TypeOK
  PROVE  /\ TryRead \in Seq(Handlers) /\ AtMostOneRead(TryRead)
         /\ Len(TryRead) = One(TryRead # <<>>)
         /\ rxBuffer + One(TryRead = <<"data">>) \in 0..MaxData
<1>1. {"data", "eof", "readError"} \subseteq Handlers
  BY DEF Handlers, ReadResults
<1>2. TryRead \in {<<>>, <<"data">>, <<"eof">>, <<"readError">>}
  BY DEF TryRead, TypeOK
<1>3. TryRead = <<"data">> => rxBuffer < arrived
  BY DEF TryRead, TypeOK
<1>4. rxBuffer + One(TryRead = <<"data">>) \in 0..MaxData
  BY <1>3 DEF One, TypeOK
<1>5. CASE TryRead = <<>>
  BY <1>4, <1>5, ShortReads DEF One
<1>6. CASE TryRead # <<>>
  <2>1. PICK h \in Handlers : TryRead = <<h>>
    BY <1>1, <1>2, <1>6
  <2>2. TryRead \in Seq(Handlers) /\ Len(TryRead) = 1 /\ AtMostOneRead(TryRead)
    BY <2>1, ShortReads
  <2> QED BY <1>4, <1>6, <2>2 DEF One
<1> QED BY <1>5, <1>6

\* The results of n writes.
LEMMA TryWriteType ==
  ASSUME NEW n \in Nat
  PROVE  /\ TryWrite(n) \in Seq(Handlers) /\ NoRead(TryWrite(n))
         /\ Len(TryWrite(n)) = n
<1> DEFINE v == IF peer = "reset" THEN "writeError" ELSE "written"
<1>1. v \in Handlers /\ v \notin ReadResults
  BY DEF Handlers, ReadResults, WriteResults
<1>2. TryWrite(n) = [i \in 1..n |-> v]
  BY DEF TryWrite
<1>3. TryWrite(n) \in Seq(Handlers) /\ Len(TryWrite(n)) = n
  <2> HIDE DEF v
  <2> QED BY <1>1, <1>2, Repeat
<1>4. NoRead(TryWrite(n))
  <2> HIDE DEF v
  <2> QED BY <1>1, <1>2, <1>3 DEF NoRead
<1> QED BY <1>3, <1>4

-----------------------------------------------------------------------------
(* receive() and close() *)

\* receive() starts two operations, each pending or with its handler queued.
LEMMA ReceiveEffect ==
  ASSUME TypeOK, NoRead(later), NEW count \in Int, Receive(count)
  PROVE  /\ refs' = count + 2
         /\ timer' = "armed"
         /\ reading' \in BOOLEAN
         /\ rxBuffer' \in 0..MaxData
         /\ later' \in Seq(Handlers)
         /\ One(reading') + Len(later') = Len(later) + One(timer = "armed") + 1
         /\ AtMostOneRead(later')
         /\ reading' => NoRead(later')
<1> DEFINE result == IF socket = "closed" THEN <<"readError">> ELSE TryRead
<1>1. /\ refs' = count + 2 /\ timer' = "armed"
      /\ reading' = (result = <<>>)
      /\ rxBuffer' = rxBuffer + One(result = <<"data">>)
      /\ later' = (later \o Aborted) \o result
  BY DEF Receive
<1>2. /\ result \in Seq(Handlers) /\ AtMostOneRead(result)
      /\ Len(result) = One(result # <<>>)
      /\ rxBuffer + One(result = <<"data">>) \in 0..MaxData
  <2>1. CASE socket = "closed"
    <3>1. "readError" \in Handlers
      BY DEF Handlers, ReadResults
    <3>2. /\ <<"readError">> \in Seq(Handlers) /\ Len(<<"readError">>) = 1
          /\ AtMostOneRead(<<"readError">>)
      BY <3>1, ShortReads
    <3>3. <<"readError">> # <<>> /\ <<"readError">> # <<"data">>
      OBVIOUS
    <3> QED BY <2>1, <3>2, <3>3 DEF One, TypeOK
  <2>2. CASE socket # "closed"
    BY <2>2, TryReadType
  <2> QED BY <2>1, <2>2
<1>3. /\ later \o Aborted \in Seq(Handlers) /\ NoRead(later \o Aborted)
      /\ Len(later \o Aborted) = Len(later) + One(timer = "armed")
  BY AbortedType, ConcatReads DEF TypeOK
<1>4. /\ later' \in Seq(Handlers) /\ AtMostOneRead(later')
      /\ Len(later') = Len(later \o Aborted) + Len(result)
  <2> HIDE DEF result
  <2> QED BY <1>1, <1>2, <1>3, ConcatReads
<1>5. Len(later) \in Nat /\ One(timer = "armed") \in Nat
  BY LenProperties DEF TypeOK, One
<1> HIDE DEF result
<1>6. /\ reading' \in BOOLEAN
      /\ One(reading') + Len(result) = 1
      /\ reading' => NoRead(later')
  <2>1. CASE result = <<>>
    <3>1. reading' = TRUE /\ NoRead(<<>>) /\ Len(<<>>) = 0
      BY <1>1, <2>1, ShortReads
    <3>2. NoRead(later')
      BY <1>1, <1>2, <1>3, <2>1, <3>1, ConcatReads
    <3> QED BY <2>1, <3>1, <3>2 DEF One
  <2>2. CASE result # <<>>
    <3>1. ~reading' /\ Len(result) = 1
      BY <1>1, <1>2, <2>2 DEF One
    <3>2. One(reading') + Len(result) = 1
      BY <3>1 DEF One
    <3>3. reading' \in BOOLEAN
      BY <1>1
    <3> QED BY <3>1, <3>2, <3>3
  <2> QED BY <2>1, <2>2
<1>7. One(reading') \in Nat /\ Len(result) \in Nat
  BY <1>2 DEF One
<1>8. One(reading') + Len(later') = Len(later) + One(timer = "armed") + 1
  BY <1>3, <1>4, <1>5, <1>6, <1>7
<1> QED BY <1>1, <1>2, <1>4, <1>6, <1>8

\* close() turns pending operations into queued handlers and gives up the
\* reference of the open socket.
LEMMA CloseEffect ==
  ASSUME TypeOK, AtMostOneRead(later), reading => NoRead(later),
         NEW count \in Int, Close(count)
  PROVE  /\ refs' \in Int
         /\ socket' = (IF socket = "open" THEN "closed" ELSE socket)
         /\ timer' \in {"idle", "armed"}
         /\ reading' \in BOOLEAN /\ (reading' => reading)
         /\ writing' \in Nat
         /\ later' \in Seq(Handlers)
         /\ refs' - (One(socket' # "closed") + One(timer' = "armed")
                       + One(reading') + writing' + Len(later'))
              = count - (One(socket # "closed") + One(timer = "armed")
                          + One(reading) + writing + Len(later))
         /\ AtMostOneRead(later')
         /\ reading' => NoRead(later')
         /\ NoRead(later) /\ ~reading => NoRead(later')
<1>1. CASE socket # "open"
  <2>1. refs' = count /\ UNCHANGED <<socket, timer, reading, writing, later>>
    BY <1>1 DEF Close
  <2> QED BY <1>1, <2>1 DEF TypeOK, NoRead, AtMostOneRead
<1>2. CASE socket = "open"
  <2> DEFINE canceled == IF reading THEN <<"canceled">> ELSE <<>>
             failed   == [i \in 1..writing |-> "writeError"]
  <2>1. /\ socket' = "closed" /\ timer' = "idle" /\ reading' = FALSE
        /\ writing' = 0 /\ refs' = count - 1
        /\ later' = ((later \o Aborted) \o canceled) \o failed
    BY <1>2 DEF Close
  <2>2. /\ later \o Aborted \in Seq(Handlers)
        /\ AtMostOneRead(later \o Aborted)
        /\ NoRead(later) => NoRead(later \o Aborted)
        /\ Len(later \o Aborted) = Len(later) + One(timer = "armed")
    BY AbortedType, ConcatReads DEF TypeOK
  <2>3. /\ canceled \in Seq(Handlers) /\ AtMostOneRead(canceled)
        /\ ~reading => NoRead(canceled)
        /\ Len(canceled) = One(reading)
    <3>1. "canceled" \in Handlers
      BY DEF Handlers, ReadResults
    <3> QED BY <3>1, ShortReads DEF One
  <2>4. /\ failed \in Seq(Handlers) /\ Len(failed) = writing /\ NoRead(failed)
    <3>1. "writeError" \in Handlers /\ "writeError" \notin ReadResults
      BY DEF Handlers, ReadResults, WriteResults
    <3>2. writing \in Nat
      BY DEF TypeOK
    <3>3. failed \in Seq(Handlers) /\ Len(failed) = writing
      BY <3>1, <3>2, Repeat
    <3> QED BY <3>1, <3>3 DEF NoRead
  <2> HIDE DEF canceled, failed
  <2> DEFINE front == (later \o Aborted) \o canceled
  <2>5. /\ front \in Seq(Handlers) /\ AtMostOneRead(front)
        /\ NoRead(later) /\ ~reading => NoRead(front)
        /\ Len(front) = Len(later) + One(timer = "armed") + One(reading)
    <3>1. CASE reading
      BY <2>2, <2>3, <3>1, ConcatReads
    <3>2. CASE ~reading
      BY <2>2, <2>3, <3>2, ConcatReads
    <3> QED BY <3>1, <3>2 DEF TypeOK
  <2> HIDE DEF front
  <2>6. /\ later' \in Seq(Handlers) /\ AtMostOneRead(later')
        /\ NoRead(later) /\ ~reading => NoRead(later')
        /\ Len(later') = Len(later) + One(timer = "armed") + One(reading) + writing
    <3>1. later' = front \o failed
      BY <2>1 DEF front
    <3> QED BY <2>4, <2>5, <3>1, ConcatReads
  <2>7. Len(later) \in Nat /\ writing \in Nat
    BY LenProperties DEF TypeOK
  <2>8. ~reading' /\ reading' \in BOOLEAN
    BY <2>1
  <2>9. refs' - (One(socket' # "closed") + One(timer' = "armed")
                  + One(reading') + writing' + Len(later'))
          = count - (One(socket # "closed") + One(timer = "armed")
                      + One(reading) + writing + Len(later))
    BY <1>2, <2>1, <2>6, <2>7, <2>8 DEF One
  <2>10. refs' \in Int /\ writing' \in Nat /\ timer' \in {"idle", "armed"}
    BY <2>1
  <2> QED BY <1>2, <2>1, <2>6, <2>8, <2>9, <2>10, NoReadIsAtMostOne
<1> QED BY <1>1, <1>2

-----------------------------------------------------------------------------
(* The inductive invariant *)

IInv == TypeOK /\ Fresh /\ ReadInv /\ RefsAreHolders /\ OpenIsWatched

\* The invariant holds of a channel that was just created.
LEMMA InvInit == Init => IInv
<1> SUFFICES ASSUME Init PROVE IInv
  OBVIOUS
<1>1. TypeOK
  <2>1. 0 \in 0..MaxData /\ 0 \in 0..MaxWrites /\ 0 \in Nat /\ 0 \in Int /\ 1 \in Int
    OBVIOUS
  <2>2. <<>> \in Seq(Handlers) /\ <<>> \in Seq(0..MaxData)
    OBVIOUS
  <2>3. {"in", "out"} # {} /\ {} \subseteq {"in", "out"}
    OBVIOUS
  <2>4. /\ socket \in {"new", "open", "closed"} /\ refs \in Int
        /\ timer \in {"idle", "armed"} /\ reading \in BOOLEAN
        /\ writing \in Nat /\ txPending \in Int /\ rxBuffer \in 0..MaxData
    BY <2>1 DEF Init
  <2>5. /\ now \in Seq(Handlers) /\ io \subseteq {"in", "out"}
        /\ expired \in BOOLEAN /\ later \in Seq(Handlers)
        /\ delivered \in Seq(0..MaxData)
    BY <2>2, <2>3 DEF Init
  <2>6. /\ pc \in {"loop", "upcall"} /\ arrived \in 0..MaxData
        /\ peer \in {"open", "shutdown", "reset"} /\ sent \in 0..MaxWrites
    BY <2>1 DEF Init
  <2> QED BY <2>4, <2>5, <2>6 DEF TypeOK
<1>2. Fresh /\ OpenIsWatched
  BY DEF Init, Fresh, OpenIsWatched
<1>3. ReadInv
  BY ShortReads DEF Init, ReadInv
<1>4. RefsAreHolders
  BY ShortReads DEF Init, RefsAreHolders, Holders, One
<1> QED BY <1>1, <1>2, <1>3, <1>4 DEF IInv

\* refs stays right when receive(), close() or a write changes it as much as
\* what they start and stop, and the rest of the handler as much as the rest.
LEMMA RefsStep ==
  ASSUME TypeOK, TypeOK', refs = Holders, NEW count \in Int,
         refs' - (One(socket' # "closed") + One(timer' = "armed")
                   + One(reading') + writing' + Len(later'))
           = count - (One(socket # "closed") + One(timer = "armed")
                       + One(reading) + writing + Len(later)),
         count - (One(expired') + Len(now') + One(pc' = "upcall"))
           = refs - (One(expired) + Len(now) + One(pc = "upcall"))
  PROVE  RefsAreHolders'
<1>1. PICK s \in Nat, t \in Nat, e \in Nat, r \in Nat, p \in Nat :
        /\ s = One(socket # "closed") /\ t = One(timer = "armed")
        /\ e = One(expired) /\ r = One(reading) /\ p = One(pc = "upcall")
  BY DEF One
<1>2. PICK w \in Nat, n \in Nat, l \in Nat :
        w = writing /\ n = Len(now) /\ l = Len(later)
  BY LenProperties DEF TypeOK
<1>3. Holders = s + t + e + r + w + n + l + p
  BY <1>1, <1>2 DEF Holders
<1>4. PICK s1 \in Nat, t1 \in Nat, e1 \in Nat, r1 \in Nat, p1 \in Nat :
        /\ s1 = One(socket' # "closed") /\ t1 = One(timer' = "armed")
        /\ e1 = One(expired') /\ r1 = One(reading') /\ p1 = One(pc' = "upcall")
  BY DEF One
<1>5. PICK w1 \in Nat, n1 \in Nat, l1 \in Nat :
        w1 = writing' /\ n1 = Len(now') /\ l1 = Len(later')
  BY LenProperties DEF TypeOK
<1>6. Holders' = s1 + t1 + e1 + r1 + w1 + n1 + l1 + p1
  BY <1>4, <1>5 DEF Holders
<1>7. PICK c \in Int, c1 \in Int : c = refs /\ c1 = refs'
  BY DEF TypeOK
<1>8. /\ c1 - (s1 + t1 + r1 + w1 + l1) = count - (s + t + r + w + l)
      /\ count - (e1 + n1 + p1) = c - (e + n + p)
      /\ c = s + t + e + r + w + n + l + p
  BY <1>1, <1>2, <1>3, <1>4, <1>5, <1>7
<1>9. /\ s \in Nat /\ t \in Nat /\ e \in Nat /\ r \in Nat
      /\ w \in Nat /\ n \in Nat /\ l \in Nat /\ p \in Nat
      /\ s1 \in Nat /\ t1 \in Nat /\ e1 \in Nat /\ r1 \in Nat
      /\ w1 \in Nat /\ n1 \in Nat /\ l1 \in Nat /\ p1 \in Nat
      /\ c \in Int /\ c1 \in Int
  BY <1>1, <1>2, <1>4, <1>5, <1>7
<1>10. c1 = s1 + t1 + e1 + r1 + w1 + n1 + l1 + p1
  BY <1>8, <1>9
<1> QED BY <1>6, <1>7, <1>10 DEF RefsAreHolders

\* An accepted channel has three references: the socket, the timer, the read.
LEMMA AcceptKeeps == IInv /\ Accept => IInv'
<1> SUFFICES ASSUME IInv, Accept PROVE IInv'
  OBVIOUS
<1>1. /\ TypeOK /\ timer = "idle" /\ ~reading /\ writing = 0 /\ pc = "loop"
      /\ now = <<>> /\ io = {} /\ ~expired /\ later = <<>> /\ refs = 1
  BY ShortReads DEF IInv, Fresh, Accept, RefsAreHolders, Holders, One
<1>2. /\ socket' = "open" /\ Receive(refs)
      /\ UNCHANGED <<writing, txPending, now, io, expired, pc, arrived, peer, sent, delivered>>
  BY DEF Accept
<1>3. NoRead(later) /\ refs \in Int
  BY <1>1, ShortReads
<1>4. /\ refs' = refs + 2 /\ timer' = "armed"
      /\ reading' \in BOOLEAN /\ rxBuffer' \in 0..MaxData
      /\ later' \in Seq(Handlers)
      /\ One(reading') + Len(later') = Len(later) + One(timer = "armed") + 1
      /\ AtMostOneRead(later') /\ (reading' => NoRead(later'))
  BY <1>1, <1>2, <1>3, ReceiveEffect
<1>5. TypeOK'
  BY <1>1, <1>2, <1>4 DEF TypeOK
<1>6. ReadInv'
  BY <1>1, <1>2, <1>4, ShortReads DEF ReadInv
<1>7. refs' = Holders'
  <2>1. Len(later') \in Nat /\ Len(later) = 0 /\ Len(now') = 0
    BY <1>1, <1>2, <1>4, LenProperties, ShortReads
  <2>2. /\ refs' = 3 /\ socket' = "open" /\ timer' = "armed" /\ writing' = 0
        /\ ~expired' /\ pc' = "loop"
    BY <1>1, <1>2, <1>4
  <2>3. PICK n \in Nat : n = Len(later')
    BY <2>1
  <2>4. One(reading') + n = 1
    BY <1>1, <1>4, <2>1, <2>3 DEF One
  <2> QED BY <2>1, <2>2, <2>3, <2>4 DEF Holders, One
<1> QED BY <1>2, <1>4, <1>5, <1>6, <1>7 DEF IInv, Fresh, RefsAreHolders, OpenIsWatched

\* The reactor turns a pending wait into an expired one and runs what is queued.
LEMMA PollKeeps == IInv /\ Poll => IInv'
<1> SUFFICES ASSUME IInv, NEW events \in SUBSET {"in", "out"}, NEW timeout \in BOOLEAN,
                    PollWith(events, timeout)
             PROVE  IInv'
  BY DEF Poll
<1>1. /\ now = <<>> /\ ~expired /\ pc = "loop" /\ (timeout => timer = "armed")
      /\ now' = later /\ later' = <<>> /\ io' = events /\ expired' = timeout
      /\ timer' = IF timeout THEN "idle" ELSE timer
      /\ UNCHANGED <<socket, refs, reading, writing, txPending, rxBuffer, pc,
                     arrived, peer, sent, delivered>>
      /\ (socket # "open" => events = {})
  BY DEF PollWith, Idle
<1>2. TypeOK'
  BY <1>1, ShortReads DEF IInv, TypeOK
<1>3. Fresh'
  BY <1>1 DEF IInv, Fresh
<1>4. ReadInv'
  BY <1>1, ShortReads DEF IInv, ReadInv, NoRead, AtMostOneRead
<1>5. RefsAreHolders'
  <2>1. Len(later) \in Nat /\ Len(now') = Len(later) /\ Len(later') = 0 /\ Len(now) = 0
    BY <1>1, LenProperties, ShortReads DEF IInv, TypeOK
  <2> QED BY <1>1, <2>1 DEF IInv, TypeOK, RefsAreHolders, Holders, One
<1>6. OpenIsWatched'
  BY <1>1 DEF IInv, OpenIsWatched
<1> QED BY <1>2, <1>3, <1>4, <1>5, <1>6 DEF IInv

\* The results of a descriptor event take the place of the pending operations.
LEMMA DescriptorKeeps == IInv /\ Descriptor => IInv'
<1> SUFFICES ASSUME IInv, Descriptor PROVE IInv'
  OBVIOUS
<1> DEFINE result  == IF "in" \in io /\ reading THEN TryRead ELSE <<>>
           done(n) == TryWrite(n) \o result
<1>1. PICK n \in 0..writing :
        /\ writing' = writing - n
        /\ reading' = (reading /\ result = <<>>)
        /\ rxBuffer' = rxBuffer + One(result = <<"data">>)
        /\ IF done(n) = <<>>
             THEN UNCHANGED <<now, later>>
             ELSE now' = <<Head(done(n))>> /\ later' = later \o Tail(done(n))
  BY DEF Descriptor
<1>2. /\ TypeOK /\ now = <<>> /\ io # {} /\ pc = "loop" /\ io' = {}
      /\ UNCHANGED <<socket, refs, timer, txPending, expired, pc, arrived, peer,
                     sent, delivered>>
  BY DEF IInv, Descriptor
<1>3. /\ result \in Seq(Handlers) /\ AtMostOneRead(result)
      /\ Len(result) = One(result # <<>>)
      /\ rxBuffer' \in 0..MaxData
      /\ (~reading => result = <<>>)
      /\ (result = <<>> => NoRead(result))
  <2>1. CASE "in" \in io /\ reading
    BY <1>1, <1>2, <2>1, TryReadType, ShortReads
  <2>2. CASE ~("in" \in io /\ reading)
    <3>1. result = <<>> /\ <<>> # <<"data">>
      BY <2>2
    <3>2. rxBuffer' = rxBuffer /\ One(result # <<>>) = 0
      <4>1. One(result = <<"data">>) = 0 /\ One(result # <<>>) = 0
        BY <3>1 DEF One
      <4> HIDE DEF result
      <4> QED BY <1>1, <1>2, <4>1 DEF TypeOK
    <3> HIDE DEF result
    <3> QED BY <1>2, <3>1, <3>2, ShortReads DEF TypeOK
  <2> QED BY <2>1, <2>2
<1> HIDE DEF result
<1>4. n \in Nat /\ writing \in Nat /\ writing' \in Nat
  BY <1>1, <1>2 DEF TypeOK
<1>5. /\ done(n) \in Seq(Handlers) /\ AtMostOneRead(done(n))
      /\ Len(done(n)) = n + Len(result)
      /\ (result = <<>> => NoRead(done(n)))
  <2>1. /\ TryWrite(n) \in Seq(Handlers) /\ NoRead(TryWrite(n))
        /\ Len(TryWrite(n)) = n
    BY <1>4, TryWriteType
  <2>2. done(n) = TryWrite(n) \o result
    OBVIOUS
  <2> HIDE DEF done
  <2> QED BY <1>3, <2>1, <2>2, ConcatReads
<1> HIDE DEF done
<1>6. reading' \in BOOLEAN /\ One(reading') + Len(result) = One(reading)
  <2>1. CASE result = <<>>
    <3>1. reading' = reading /\ reading \in BOOLEAN
      BY <1>1, <1>2, <2>1 DEF TypeOK
    <3> QED BY <1>3, <2>1, <3>1 DEF One
  <2>2. CASE result # <<>>
    <3>1. ~reading' /\ reading /\ reading' \in BOOLEAN
      BY <1>1, <1>3, <2>2
    <3>2. Len(result) = 1
      BY <1>3, <2>2 DEF One
    <3>3. One(reading') + Len(result) = One(reading)
      BY <3>1, <3>2 DEF One
    <3> QED BY <3>1, <3>3
  <2> QED BY <2>1, <2>2
<1>7. /\ now' \in Seq(Handlers) /\ later' \in Seq(Handlers)
      /\ Len(now') + Len(later') = Len(later) + Len(done(n))
      /\ ReadInv'
  <2>1. /\ later \in Seq(Handlers) /\ Len(later) \in Nat
        /\ AtMostOneRead(later) /\ (reading => NoRead(later))
    BY <1>2, LenProperties DEF IInv, TypeOK, ReadInv
  <2>2. CASE done(n) = <<>>
    <3>1. now' = <<>> /\ later' = later /\ Len(done(n)) = 0
      BY <1>1, <1>2, <2>2, ShortReads
    <3>2. reading' => reading
      BY <1>1
    <3> QED BY <2>1, <3>1, <3>2, ShortReads DEF ReadInv
  <2>3. CASE done(n) # <<>>
    <3> DEFINE h == Head(done(n))
               t == Tail(done(n))
    <3>1. /\ h \in Handlers /\ t \in Seq(Handlers)
          /\ Len(t) = Len(done(n)) - 1
          /\ AtMostOneRead(t)
          /\ (h \in ReadResults => NoRead(t))
          /\ (result = <<>> => NoRead(t) /\ h \notin ReadResults)
      BY <1>5, <2>3, TailReads
    <3>2. now' = <<h>> /\ later' = later \o t
      BY <1>1, <2>3
    <3> HIDE DEF h, t
    <3>3. /\ now' \in Seq(Handlers) /\ Len(now') = 1 /\ AtMostOneRead(now')
          /\ (h \notin ReadResults => NoRead(now'))
      BY <3>1, <3>2, ShortReads
    <3>4. later' \in Seq(Handlers) /\ Len(later') = Len(later) + Len(t)
      BY <2>1, <3>1, <3>2, ConcatReads
    <3>5. Len(now') + Len(later') = Len(later) + Len(done(n))
      BY <2>1, <3>1, <3>3, <3>4, LenProperties, <1>5
    <3>6. CASE result = <<>>
      <4>1. NoRead(now') /\ AtMostOneRead(later') /\ (NoRead(later) => NoRead(later'))
        BY <2>1, <3>1, <3>2, <3>3, <3>6, ConcatReads
      <4>2. reading' => reading
        BY <1>1
      <4> QED BY <2>1, <3>3, <3>4, <3>5, <4>1, <4>2 DEF ReadInv
    <3>7. CASE result # <<>>
      <4>1. ~reading' /\ NoRead(later)
        BY <1>1, <1>3, <2>1, <3>7
      <4>2. AtMostOneRead(later') /\ (NoRead(t) => NoRead(later'))
        BY <2>1, <3>1, <3>2, <4>1, ConcatReads
      <4> QED BY <3>1, <3>3, <3>4, <3>5, <4>1, <4>2 DEF ReadInv
    <3> QED BY <3>6, <3>7
  <2> QED BY <2>2, <2>3
<1>8. TypeOK'
  BY <1>2, <1>3, <1>4, <1>6, <1>7 DEF TypeOK
<1>9. Fresh'
  BY <1>2 DEF IInv, Fresh
<1>10. RefsAreHolders'
  <2>1. /\ Len(now) = 0 /\ Len(later) \in Nat /\ Len(now') \in Nat /\ Len(later') \in Nat
        /\ Len(result) \in Nat
    BY <1>2, <1>3, <1>7, LenProperties, ShortReads DEF TypeOK
  <2>2. PICK l \in Nat, now1 \in Nat, later1 \in Nat, m \in Nat :
          /\ l = Len(later) /\ now1 = Len(now') /\ later1 = Len(later') /\ m = Len(result)
    BY <2>1
  <2>3. PICK w \in Nat, w1 \in Nat : w = writing /\ w1 = writing'
    BY <1>4
  <2>4. PICK r \in Nat, s \in Nat : r = One(reading) /\ s = One(reading')
    BY DEF One
  <2>5. PICK a \in Nat, b \in Nat, c \in Nat, d \in Nat :
          /\ a = One(socket # "closed") /\ b = One(timer = "armed")
          /\ c = One(expired) /\ d = One(pc = "upcall")
    BY DEF One
  <2>6. s + m = r /\ now1 + later1 = l + (n + m) /\ w1 = w - n
    BY <1>1, <1>5, <1>6, <1>7, <2>2, <2>3, <2>4
  <2>7. Holders = a + b + c + r + w + 0 + l + d
    BY <2>1, <2>2, <2>3, <2>4, <2>5 DEF Holders
  <2>8. Holders' = a + b + c + s + w1 + now1 + later1 + d
    BY <1>2, <2>2, <2>3, <2>4, <2>5 DEF Holders
  <2>9. /\ n \in Nat /\ l \in Nat /\ now1 \in Nat /\ later1 \in Nat /\ m \in Nat
        /\ w \in Nat /\ w1 \in Nat /\ r \in Nat /\ s \in Nat
        /\ a \in Nat /\ b \in Nat /\ c \in Nat /\ d \in Nat
    BY <1>4, <2>2, <2>3, <2>4, <2>5
  <2>10. a + b + c + s + w1 + now1 + later1 + d = a + b + c + r + w + 0 + l + d
    BY <2>6, <2>9
  <2> QED BY <1>2, <2>7, <2>8, <2>10 DEF IInv, RefsAreHolders
<1>11. OpenIsWatched'
  BY <1>2 DEF IInv, OpenIsWatched
<1> QED BY <1>7, <1>8, <1>9, <1>10, <1>11 DEF IInv

\* A failed accept drops the only reference.
LEMMA AcceptFailsKeeps == IInv /\ AcceptFails => IInv'
<1> SUFFICES ASSUME IInv, AcceptFails PROVE IInv'
  OBVIOUS
<1>1. /\ TypeOK /\ timer = "idle" /\ ~reading /\ writing = 0 /\ pc = "loop"
      /\ now = <<>> /\ io = {} /\ ~expired /\ later = <<>> /\ refs = 1
  BY ShortReads DEF IInv, Fresh, AcceptFails, RefsAreHolders, Holders, One
<1>2. /\ socket' = "closed" /\ refs' = 0
      /\ UNCHANGED <<timer, reading, writing, txPending, rxBuffer, loopVars, pc,
                     arrived, peer, sent, delivered>>
  BY <1>1 DEF AcceptFails
<1>3. TypeOK' /\ Fresh' /\ OpenIsWatched'
  BY <1>1, <1>2 DEF TypeOK, Fresh, OpenIsWatched, loopVars
<1>4. ReadInv'
  BY <1>1, <1>2, ShortReads DEF ReadInv, loopVars
<1>5. RefsAreHolders'
  BY <1>1, <1>2, ShortReads DEF RefsAreHolders, Holders, One, loopVars
<1> QED BY <1>3, <1>4, <1>5 DEF IInv

\* Handlers that close: they take nothing but themselves from the queue, and
\* `count' is what remains of refs without their own reference.
LEMMA CloseKeeps ==
  ASSUME IInv, NEW count \in Int, Close(count),
         now' \in Seq(Handlers), AtMostOneRead(now'), NoRead(now) => NoRead(now'),
         expired' \in BOOLEAN, io' \subseteq {"in", "out"}, pc' \in {"loop", "upcall"},
         UNCHANGED <<txPending, rxBuffer, arrived, peer, sent, delivered>>,
         socket # "new",
         count - (One(expired') + Len(now') + One(pc' = "upcall"))
           = refs - (One(expired) + Len(now) + One(pc = "upcall"))
  PROVE  IInv'
<1>1. TypeOK /\ ReadInv /\ refs = Holders
  BY DEF IInv, RefsAreHolders
<1>2. /\ refs' \in Int
      /\ socket' = (IF socket = "open" THEN "closed" ELSE socket)
      /\ timer' \in {"idle", "armed"}
      /\ reading' \in BOOLEAN /\ (reading' => reading)
      /\ writing' \in Nat
      /\ later' \in Seq(Handlers)
      /\ refs' - (One(socket' # "closed") + One(timer' = "armed")
                    + One(reading') + writing' + Len(later'))
           = count - (One(socket # "closed") + One(timer = "armed")
                        + One(reading) + writing + Len(later))
      /\ AtMostOneRead(later') /\ (reading' => NoRead(later'))
      /\ (NoRead(later) /\ ~reading => NoRead(later'))
  <2>1. AtMostOneRead(later) /\ (reading => NoRead(later))
    BY <1>1 DEF ReadInv
  <2> QED BY <1>1, <2>1, CloseEffect
<1>3. TypeOK'
  BY <1>1, <1>2 DEF TypeOK
<1>4. ReadInv'
  <2>1. reading' => NoRead(now')
    BY <1>1, <1>2 DEF ReadInv
  <2>2. NoRead(now') \/ NoRead(later')
    BY <1>1, <1>2 DEF ReadInv
  <2> QED BY <1>2, <2>1, <2>2 DEF ReadInv
<1>5. RefsAreHolders'
  BY <1>1, <1>2, <1>3, RefsStep
<1>6. Fresh'
  BY <1>2 DEF Fresh
<1>7. OpenIsWatched'
  BY <1>2 DEF OpenIsWatched
<1> QED BY <1>3, <1>4, <1>5, <1>6, <1>7 DEF IInv

\* The timeout handler closes.
LEMMA TimerKeeps == IInv /\ TimerHandler => IInv'
<1> SUFFICES ASSUME IInv, TimerHandler PROVE IInv'
  OBVIOUS
<1>1. /\ expired /\ expired' = FALSE /\ Close(refs - 1)
      /\ now = <<>>
      /\ UNCHANGED <<txPending, rxBuffer, now, io, pc, arrived, peer, sent, delivered>>
  BY DEF TimerHandler
<1>2. TypeOK /\ ReadInv
  BY DEF IInv
<1>3. refs - 1 \in Int
  BY <1>2 DEF TypeOK
<1>4. socket # "new"
  BY <1>1 DEF IInv, Fresh
<1>5. (refs - 1) - (One(expired') + Len(now') + One(pc' = "upcall"))
        = refs - (One(expired) + Len(now) + One(pc = "upcall"))
  <2>1. One(expired') = 0 /\ One(expired) = 1 /\ now' = now /\ pc' = pc /\ Len(now) = 0
    BY <1>1, ShortReads DEF One
  <2>2. PICK c \in Int, p \in Nat : c = refs /\ p = One(pc = "upcall")
    BY <1>2 DEF TypeOK, One
  <2>3. (c - 1) - (0 + 0 + p) = c - (1 + 0 + p)
    BY <2>2
  <2> QED BY <1>1, <2>1, <2>2, <2>3
<1>6. expired' \in BOOLEAN
  BY <1>1
<1> QED BY <1>1, <1>2, <1>3, <1>4, <1>5, <1>6, ShortReads, CloseKeeps DEF TypeOK

\* What taking a handler from the front of the queue leaves.
LEMMA DispatchEffect ==
  ASSUME IInv, NEW handlers, Dispatch(handlers)
  PROVE  /\ now' \in Seq(Handlers) /\ AtMostOneRead(now') /\ (NoRead(now) => NoRead(now'))
         /\ Head(now) \in handlers
         /\ Head(now) \in ReadResults => NoRead(now') /\ NoRead(later) /\ ~reading
         /\ Len(now) \in Nat /\ Len(now') \in Nat /\ Len(now') = Len(now) - 1
         /\ pc = "loop" /\ socket # "new"
         /\ UNCHANGED <<io, expired, arrived, peer, sent>>
<1>1. /\ now \in Seq(Handlers) /\ now # <<>> /\ AtMostOneRead(now) /\ now' = Tail(now)
      /\ Head(now) \in handlers /\ pc = "loop"
      /\ UNCHANGED <<io, expired, arrived, peer, sent>>
  BY DEF IInv, TypeOK, ReadInv, Dispatch
<1>2. /\ now' \in Seq(Handlers) /\ Len(now') = Len(now) - 1
      /\ (NoRead(now) => NoRead(now') /\ Head(now) \notin ReadResults)
      /\ AtMostOneRead(now')
      /\ (Head(now) \in ReadResults => NoRead(now'))
  BY <1>1, TailReads
<1>3. Len(now) \in Nat /\ Len(now') \in Nat
  BY <1>1, <1>2, LenProperties
<1>4. Head(now) \in ReadResults => NoRead(later) /\ ~reading
  BY <1>2 DEF IInv, ReadInv
<1>5. socket # "new"
  BY <1>1 DEF IInv, Fresh
<1> QED BY <1>1, <1>2, <1>3, <1>4, <1>5

\* The read handler closes when the peer has shut down.
LEMMA EofKeeps == IInv /\ EofHandler => IInv'
<1> SUFFICES ASSUME IInv, EofHandler PROVE IInv'
  OBVIOUS
<1>1. /\ TypeOK /\ refs - 1 \in Int /\ Close(refs - 1) /\ Dispatch({"eof"})
      /\ UNCHANGED <<txPending, rxBuffer, pc, delivered>>
  BY DEF IInv, TypeOK, EofHandler
<1>2. /\ now' \in Seq(Handlers) /\ AtMostOneRead(now') /\ (NoRead(now) => NoRead(now'))
      /\ Len(now) \in Nat /\ Len(now') = Len(now) - 1 /\ socket # "new"
      /\ UNCHANGED <<io, expired, arrived, peer, sent>>
  BY <1>1, DispatchEffect
<1>3. (refs - 1) - (One(expired') + Len(now') + One(pc' = "upcall"))
        = refs - (One(expired) + Len(now) + One(pc = "upcall"))
  <2>1. PICK n \in Nat, e \in Nat, p \in Nat, c \in Int :
          /\ n = Len(now) /\ e = One(expired) /\ p = One(pc = "upcall") /\ c = refs
    BY <1>1, <1>2 DEF One, TypeOK
  <2>2. (c - 1) - (e + (n - 1) + p) = c - (e + n + p)
    BY <2>1
  <2> QED BY <1>1, <1>2, <2>1, <2>2
<1> QED BY <1>1, <1>2, <1>3, CloseKeeps DEF TypeOK

\* onData closes, and keeps its own reference until it returns.
LEMMA CallCloseKeeps == IInv /\ CallClose => IInv'
<1> SUFFICES ASSUME IInv, CallClose PROVE IInv'
  OBVIOUS
<1>1. /\ TypeOK /\ ReadInv /\ refs \in Int /\ Close(refs) /\ pc = "upcall"
      /\ UNCHANGED <<txPending, rxBuffer, now, io, expired, pc, arrived, peer, sent, delivered>>
  BY DEF IInv, TypeOK, CallClose
<1>2. socket # "new"
  BY <1>1 DEF IInv, Fresh
<1>3. refs - (One(expired') + Len(now') + One(pc' = "upcall"))
        = refs - (One(expired) + Len(now) + One(pc = "upcall"))
  BY <1>1
<1>4. AtMostOneRead(now') /\ (NoRead(now) => NoRead(now'))
  BY <1>1 DEF ReadInv
<1> QED BY <1>1, <1>2, <1>3, <1>4, CloseKeeps DEF TypeOK

\* Handlers that only return give up their reference.
LEMMA ReturnKeeps ==
  ASSUME IInv, NEW handlers, Dispatch(handlers), refs' = refs - 1, txPending' \in Int,
         UNCHANGED <<socket, timer, reading, writing, rxBuffer, later, pc, delivered>>
  PROVE  IInv'
<1>1. TypeOK /\ ReadInv /\ refs = Holders
  BY DEF IInv, RefsAreHolders
<1>2. /\ now' \in Seq(Handlers) /\ AtMostOneRead(now') /\ (NoRead(now) => NoRead(now'))
      /\ Len(now) \in Nat /\ Len(now') = Len(now) - 1 /\ socket # "new"
      /\ UNCHANGED <<io, expired, arrived, peer, sent>>
  BY DispatchEffect
<1>3. TypeOK'
  BY <1>1, <1>2 DEF TypeOK
<1>4. ReadInv'
  BY <1>1, <1>2 DEF ReadInv
<1>5. RefsAreHolders'
  <2>1. PICK c \in Int, n \in Nat, e \in Nat, p \in Nat :
          c = refs /\ n = Len(now) /\ e = One(expired) /\ p = One(pc = "upcall")
    BY <1>1, <1>2 DEF TypeOK, One
  <2>2. (c - 1) - (e + (n - 1) + p) = c - (e + n + p)
    BY <2>1
  <2>3. (refs - 1) - (One(expired') + Len(now') + One(pc' = "upcall"))
          = refs - (One(expired) + Len(now) + One(pc = "upcall"))
    BY <1>2, <2>1, <2>2
  <2>4. refs - 1 \in Int
    BY <1>1 DEF TypeOK
  <2> QED BY <1>1, <1>3, <2>3, <2>4, RefsStep
<1>6. Fresh' /\ OpenIsWatched'
  BY <1>2 DEF IInv, Fresh, OpenIsWatched
<1> QED BY <1>3, <1>4, <1>5, <1>6 DEF IInv

\* Errors, aborted operations and finished writes only return.
LEMMA ReturnsKeep == IInv /\ (ReadErrorHandler \/ AbortedHandler \/ WriteHandler) => IInv'
<1>1. ASSUME IInv, ReadErrorHandler PROVE IInv'
  BY <1>1, ReturnKeeps DEF ReadErrorHandler, IInv, TypeOK
<1>2. ASSUME IInv, AbortedHandler PROVE IInv'
  BY <1>2, ReturnKeeps DEF AbortedHandler, IInv, TypeOK
<1>3. ASSUME IInv, WriteHandler PROVE IInv'
  <2>1. txPending' \in Int
    BY <1>3 DEF WriteHandler, IInv, TypeOK
  <2> QED BY <1>3, <2>1, ReturnKeeps DEF WriteHandler
<1> QED BY <1>1, <1>2, <1>3

\* The read handler passes its reference on to onData; receive() adds two.
LEMMA DataKeeps == IInv /\ DataHandler => IInv'
<1> SUFFICES ASSUME IInv, DataHandler PROVE IInv'
  OBVIOUS
<1>1. TypeOK /\ ReadInv /\ refs = Holders /\ refs \in Int
  BY DEF IInv, RefsAreHolders, TypeOK
<1>2. /\ Dispatch({"data"}) /\ Receive(refs) /\ pc' = "upcall"
      /\ delivered' = Append(delivered, rxBuffer')
      /\ UNCHANGED <<socket, writing, txPending>>
  BY DEF DataHandler
<1>3. /\ now' \in Seq(Handlers) /\ NoRead(now') /\ NoRead(later) /\ ~reading
      /\ AtMostOneRead(now')
      /\ Len(now) \in Nat /\ Len(now') = Len(now) - 1 /\ socket # "new" /\ pc = "loop"
      /\ UNCHANGED <<io, expired, arrived, peer, sent>>
  <2>1. "data" \in ReadResults
    BY DEF ReadResults
  <2> QED BY <1>2, <2>1, DispatchEffect
<1>4. /\ refs' = refs + 2 /\ timer' = "armed"
      /\ reading' \in BOOLEAN /\ rxBuffer' \in 0..MaxData
      /\ later' \in Seq(Handlers)
      /\ One(reading') + Len(later') = Len(later) + One(timer = "armed") + 1
      /\ AtMostOneRead(later') /\ (reading' => NoRead(later'))
  BY <1>1, <1>2, <1>3, ReceiveEffect
<1>5. TypeOK'
  <2>1. delivered' \in Seq(0..MaxData)
    BY <1>1, <1>2, <1>4 DEF TypeOK
  <2> QED BY <1>1, <1>2, <1>3, <1>4, <2>1 DEF TypeOK
<1>6. ReadInv'
  BY <1>3, <1>4 DEF ReadInv
<1>7. RefsAreHolders'
  <2>1. PICK c \in Int, n \in Nat, e \in Nat, s \in Nat, t \in Nat, w \in Nat, l \in Nat,
             r1 \in Nat, l1 \in Nat :
          /\ c = refs /\ n = Len(now) /\ e = One(expired) /\ s = One(socket # "closed")
          /\ t = One(timer = "armed") /\ w = writing /\ l = Len(later)
          /\ r1 = One(reading') /\ l1 = Len(later')
    BY <1>1, <1>3, <1>4, LenProperties DEF TypeOK, One
  <2>2. /\ One(pc = "upcall") = 0 /\ One(pc' = "upcall") = 1 /\ One(reading) = 0
        /\ One(timer' = "armed") = 1
    BY <1>2, <1>3, <1>4 DEF One
  <2>3. r1 + l1 = l + t + 1
    BY <1>4, <2>1
  <2>4. /\ c - (e + (n - 1) + 1) = c - (e + n + 0)
        /\ (c + 2) - (s + 1 + r1 + w + l1) = c - (s + t + 0 + w + l)
    <3>1. /\ c \in Int /\ n \in Nat /\ e \in Nat /\ s \in Nat /\ t \in Nat /\ w \in Nat
          /\ l \in Nat /\ r1 \in Nat /\ l1 \in Nat
      BY <2>1
    <3> QED BY <2>3, <3>1
  <2>5. refs - (One(expired') + Len(now') + One(pc' = "upcall"))
          = refs - (One(expired) + Len(now) + One(pc = "upcall"))
    BY <1>3, <2>1, <2>2, <2>4
  <2>6. refs' - (One(socket' # "closed") + One(timer' = "armed")
                  + One(reading') + writing' + Len(later'))
          = refs - (One(socket # "closed") + One(timer = "armed")
                      + One(reading) + writing + Len(later))
    BY <1>2, <1>4, <2>1, <2>2, <2>4
  <2> QED BY <1>1, <1>5, <2>5, <2>6, RefsStep
<1>8. Fresh' /\ OpenIsWatched'
  BY <1>2, <1>3, <1>4 DEF Fresh, OpenIsWatched
<1> QED BY <1>5, <1>6, <1>7, <1>8 DEF IInv

\* sendData() adds two references, for the timer and the write.
LEMMA SendKeeps == IInv /\ SendData => IInv'
<1> SUFFICES ASSUME IInv, SendData PROVE IInv'
  OBVIOUS
<1>1. TypeOK /\ ReadInv /\ refs = Holders /\ refs \in Int
  BY DEF IInv, RefsAreHolders, TypeOK
<1>2. PICK result \in {<<>>, <<"written">>, <<"writeError">>} :
        /\ writing' = writing + One(result = <<>>)
        /\ later' = (later \o Aborted) \o result
  BY DEF SendData
<1>3. /\ pc = "upcall" /\ sent < MaxWrites /\ sent' = sent + 1
      /\ txPending' = txPending + 1 /\ refs' = refs + 2 /\ timer' = "armed"
      /\ UNCHANGED <<socket, reading, rxBuffer, now, io, expired, pc, arrived, peer, delivered>>
  BY DEF SendData
<1>4. result \in Seq(Handlers) /\ NoRead(result) /\ Len(result) + One(result = <<>>) = 1
  <2>1. /\ "written" \in Handlers /\ "writeError" \in Handlers
        /\ "written" \notin ReadResults /\ "writeError" \notin ReadResults
    BY DEF Handlers, ReadResults, WriteResults
  <2>2. CASE result = <<>>
    BY <2>2, ShortReads DEF One
  <2>3. CASE result # <<>>
    <3>1. PICK h \in {"written", "writeError"} : result = <<h>>
      BY <1>2, <2>3
    <3>2. result \in Seq(Handlers) /\ NoRead(result) /\ Len(result) = 1
      BY <2>1, <3>1, ShortReads
    <3> QED BY <2>3, <3>2 DEF One
  <2> QED BY <2>2, <2>3
<1>5. /\ later \o Aborted \in Seq(Handlers) /\ AtMostOneRead(later \o Aborted)
      /\ (NoRead(later) => NoRead(later \o Aborted))
      /\ Len(later \o Aborted) = Len(later) + One(timer = "armed")
  BY <1>1, AbortedType, ConcatReads DEF TypeOK, ReadInv
<1>6. /\ later' \in Seq(Handlers) /\ AtMostOneRead(later')
      /\ (NoRead(later) => NoRead(later'))
      /\ Len(later') = Len(later \o Aborted) + Len(result)
  BY <1>2, <1>4, <1>5, ConcatReads
<1>7. TypeOK'
  <2>1. writing' \in Nat /\ txPending' \in Int /\ sent' \in 0..MaxWrites /\ refs' \in Int
    BY <1>1, <1>2, <1>3 DEF TypeOK, One
  <2> QED BY <1>1, <1>3, <1>6, <2>1 DEF TypeOK
<1>8. ReadInv'
  <2>1. now' = now /\ reading' = reading
    BY <1>3
  <2> QED BY <1>1, <1>6, <2>1 DEF ReadInv
<1>9. RefsAreHolders'
  <2>10. /\ One(socket # "closed") \in Nat /\ One(timer = "armed") \in Nat
         /\ One(reading) \in Nat /\ One(result = <<>>) \in Nat
    BY DEF One
  <2>11. /\ writing \in Nat /\ writing' \in Nat /\ Len(later) \in Nat
         /\ Len(later') \in Nat /\ Len(result) \in Nat
    BY <1>1, <1>4, <1>6, <1>7, LenProperties DEF TypeOK
  <2>1. PICK c \in Int, s \in Nat, t \in Nat, r \in Nat, w \in Nat, l \in Nat,
             w1 \in Nat, l1 \in Nat, m \in Nat, o \in Nat :
          /\ c = refs /\ s = One(socket # "closed") /\ t = One(timer = "armed")
          /\ r = One(reading) /\ w = writing /\ l = Len(later)
          /\ w1 = writing' /\ l1 = Len(later') /\ m = Len(result) /\ o = One(result = <<>>)
    BY <1>1, <2>10, <2>11
  <2>2. m + o = 1 /\ w1 = w + o /\ l1 = (l + t) + m
    <3>1. m + o = 1
      BY <1>4, <2>1
    <3>2. w1 = w + o
      BY <1>2, <2>1
    <3>3. l1 = Len(later \o Aborted) + m /\ Len(later \o Aborted) = l + t
      BY <1>5, <1>6, <2>1
    <3> QED BY <3>1, <3>2, <3>3
  <2>3. /\ c \in Int /\ s \in Nat /\ t \in Nat /\ r \in Nat /\ w \in Nat /\ l \in Nat
        /\ w1 \in Nat /\ l1 \in Nat /\ m \in Nat /\ o \in Nat
    BY <2>1
  <2>4. (c + 2) - (s + 1 + r + w1 + l1) = c - (s + t + r + w + l)
    BY <2>2, <2>3
  <2>5. One(timer' = "armed") = 1
    BY <1>3 DEF One
  <2>6. refs' - (One(socket' # "closed") + One(timer' = "armed")
                  + One(reading') + writing' + Len(later'))
          = refs - (One(socket # "closed") + One(timer = "armed")
                      + One(reading) + writing + Len(later))
    BY <1>3, <2>1, <2>4, <2>5
  <2>7. refs - (One(expired') + Len(now') + One(pc' = "upcall"))
          = refs - (One(expired) + Len(now) + One(pc = "upcall"))
    BY <1>3
  <2> QED BY <1>1, <1>7, <2>6, <2>7, RefsStep
<1>10. Fresh' /\ OpenIsWatched'
  BY <1>3 DEF IInv, Fresh, OpenIsWatched
<1> QED BY <1>7, <1>8, <1>9, <1>10 DEF IInv

\* When onData returns the reference of the read is given up.
LEMMA EndKeeps == IInv /\ EndData => IInv'
<1> SUFFICES ASSUME IInv, EndData PROVE IInv'
  OBVIOUS
<1>1. TypeOK /\ ReadInv /\ refs = Holders
  BY DEF IInv, RefsAreHolders
<1>2. /\ pc = "upcall" /\ pc' = "loop" /\ refs' = refs - 1
      /\ UNCHANGED <<socket, timer, reading, writing, txPending, rxBuffer,
                     now, io, expired, later, arrived, peer, sent, delivered>>
  BY DEF EndData, loopVars
<1>3. TypeOK'
  BY <1>1, <1>2 DEF TypeOK
<1>4. ReadInv'
  BY <1>1, <1>2 DEF ReadInv
<1>5. RefsAreHolders'
  <2>1. PICK c \in Int, n \in Nat, e \in Nat :
          c = refs /\ n = Len(now) /\ e = One(expired)
    BY <1>1, LenProperties DEF TypeOK, One
  <2>2. (c - 1) - (e + n + 0) = c - (e + n + 1)
    BY <2>1
  <2>3. One(pc = "upcall") = 1 /\ One(pc' = "upcall") = 0
    BY <1>2 DEF One
  <2>4. (refs - 1) - (One(expired') + Len(now') + One(pc' = "upcall"))
          = refs - (One(expired) + Len(now) + One(pc = "upcall"))
    BY <1>2, <2>1, <2>2, <2>3
  <2>5. refs - 1 \in Int
    BY <1>1 DEF TypeOK
  <2> QED BY <1>1, <1>2, <1>3, <2>4, <2>5, RefsStep
<1>6. Fresh' /\ OpenIsWatched'
  BY <1>2 DEF IInv, Fresh, OpenIsWatched
<1> QED BY <1>3, <1>4, <1>5, <1>6 DEF IInv

\* The peer changes nothing the invariant is about.
LEMMA PeerKeeps == IInv /\ (PeerSends \/ PeerLeaves \/ UNCHANGED vars) => IInv'
<1> SUFFICES ASSUME IInv, PeerSends \/ PeerLeaves \/ UNCHANGED vars PROVE IInv'
  OBVIOUS
<1>1. /\ UNCHANGED <<socket, refs, timer, reading, writing, txPending, rxBuffer,
                     now, io, expired, later, pc, sent, delivered>>
      /\ arrived' \in 0..MaxData /\ peer' \in {"open", "shutdown", "reset"}
  BY DEF IInv, TypeOK, PeerSends, PeerLeaves, vars, loopVars
<1>2. TypeOK'
  BY <1>1 DEF IInv, TypeOK
<1>3. Fresh' /\ OpenIsWatched'
  BY <1>1 DEF IInv, Fresh, OpenIsWatched
<1>4. ReadInv'
  BY <1>1 DEF IInv, ReadInv
<1>5. RefsAreHolders'
  BY <1>1 DEF IInv, RefsAreHolders, Holders
<1> QED BY <1>2, <1>3, <1>4, <1>5 DEF IInv

\* Every step keeps the invariant.
LEMMA InvStep == IInv /\ [Next]_vars => IInv'
BY AcceptKeeps, AcceptFailsKeeps, PollKeeps, DescriptorKeeps, TimerKeeps, DataKeeps,
   EofKeeps, ReturnsKeep, SendKeeps, CallCloseKeeps, EndKeeps, PeerKeeps
   DEF Next, Handle

\* The invariant holds in every reachable state.
LEMMA Invariance == Spec => []IInv
BY InvInit, InvStep, PTL DEF Spec

-----------------------------------------------------------------------------
(* The writes to come *)

WritesIn(queue) == Cardinality(QueuedIn(WriteResults, queue))

\* TxPendingIsWrites, with the queue cut where the reactor is polled.
WritesInv == txPending = writing + WritesIn(now) + WritesIn(later)

\* The writes of a concatenation are those of its parts.
LEMMA ConcatWrites ==
  ASSUME NEW p \in Seq(Handlers), NEW q \in Seq(Handlers)
  PROVE  /\ WritesIn(p) \in Nat /\ WritesIn(q) \in Nat
         /\ WritesIn(p \o q) = WritesIn(p) + WritesIn(q)
<1> DEFINE A == QueuedIn(WriteResults, p)
           B == QueuedIn(WriteResults, q)
           C == QueuedIn(WriteResults, p \o q)
           D == {i \in C : i > Len(p)}
           f == [i \in B |-> i + Len(p)]
<1>1. /\ Len(p \o q) = Len(p) + Len(q) /\ Len(p) \in Nat /\ Len(q) \in Nat
      /\ \A i \in 1..Len(p) + Len(q) :
           (p \o q)[i] = IF i <= Len(p) THEN p[i] ELSE q[i - Len(p)]
  BY ConcatProperties, LenProperties
<1>2. IsFiniteSet(A) /\ IsFiniteSet(B) /\ Cardinality(A) \in Nat /\ Cardinality(B) \in Nat
  <2>1. IsFiniteSet(1..Len(p)) /\ IsFiniteSet(1..Len(q))
    BY <1>1, FS_Interval
  <2>2. A \in SUBSET (1..Len(p)) /\ B \in SUBSET (1..Len(q))
    BY DEF QueuedIn
  <2> HIDE DEF A, B
  <2> QED BY <2>1, <2>2, FS_Subset, FS_CardinalityType
<1>3. C = A \cup D /\ A \cap D = {}
  BY <1>1 DEF QueuedIn
<1>4. IsFiniteSet(D) /\ Cardinality(D) = Cardinality(B)
  <2>1. /\ \A i \in B : i \in 1..Len(q) /\ q[i] \in WriteResults
        /\ \A i \in D : i \in 1..Len(p) + Len(q) /\ i > Len(p) /\ (p \o q)[i] \in WriteResults
        /\ \A i \in 1..Len(p) + Len(q) :
             i > Len(p) /\ (p \o q)[i] \in WriteResults => i \in D
        /\ \A i \in 1..Len(q) : q[i] \in WriteResults => i \in B
    BY <1>1 DEF QueuedIn
  <2>2. ASSUME NEW i \in B PROVE i + Len(p) \in D /\ f[i] = i + Len(p)
    <3>1. i \in 1..Len(q) /\ q[i] \in WriteResults
      BY <2>1
    <3>2. /\ i + Len(p) \in 1..Len(p) + Len(q) /\ i + Len(p) > Len(p)
          /\ (i + Len(p)) - Len(p) = i
      BY <1>1, <3>1
    <3>3. (p \o q)[i + Len(p)] \in WriteResults
      BY <1>1, <3>1, <3>2
    <3> HIDE DEF D
    <3> QED BY <2>1, <3>2, <3>3
  <2>3. ASSUME NEW j \in D PROVE \E i \in B : f[i] = j
    <3>1. j \in 1..Len(p) + Len(q) /\ j > Len(p) /\ (p \o q)[j] \in WriteResults
      BY <2>1
    <3>2. j - Len(p) \in 1..Len(q) /\ (j - Len(p)) + Len(p) = j /\ q[j - Len(p)] \in WriteResults
      BY <1>1, <3>1
    <3>3. j - Len(p) \in B
      BY <2>1, <3>2
    <3> QED BY <3>2, <3>3
  <2>4. ASSUME NEW i \in B, NEW j \in B, f[i] = f[j] PROVE i = j
    BY <1>1, <2>1, <2>2, <2>4
  <2>5. f \in [B -> D]
    BY <2>2
  <2> HIDE DEF f, B, D
  <2>6. f \in Bijection(B, D)
    BY <2>3, <2>4, <2>5 DEF Bijection, Injection, Surjection, IsInjective
  <2> QED BY <1>2, <2>6, FS_Bijection DEF ExistsBijection
<1>5. Cardinality(C) = Cardinality(A) + Cardinality(B)
  <2> HIDE DEF A, B, C, D
  <2>1. Cardinality(A \cap D) = 0
    BY <1>3, FS_EmptySet
  <2>2. Cardinality(A \cup D) = Cardinality(A) + Cardinality(D) - Cardinality(A \cap D)
    BY <1>2, <1>4, FS_Union
  <2> QED BY <1>2, <1>3, <1>4, <2>1, <2>2
<1> QED BY <1>2, <1>5 DEF WritesIn

\* The writes of short queues, ...
LEMMA ShortWrites ==
  /\ WritesIn(<<>>) = 0
  /\ \A h : WritesIn(<<h>>) = One(h \in WriteResults)
<1>1. WritesIn(<<>>) = 0
  <2>1. QueuedIn(WriteResults, <<>>) = {}
    BY DEF QueuedIn
  <2> QED BY <2>1, FS_EmptySet DEF WritesIn
<1>2. ASSUME NEW h PROVE WritesIn(<<h>>) = One(h \in WriteResults)
  <2>1. CASE h \in WriteResults
    <3>1. QueuedIn(WriteResults, <<h>>) = {1}
      BY <2>1 DEF QueuedIn
    <3> QED BY <2>1, <3>1, FS_Singleton DEF WritesIn, One
  <2>2. CASE h \notin WriteResults
    <3>1. QueuedIn(WriteResults, <<h>>) = {}
      BY <2>2 DEF QueuedIn
    <3> QED BY <2>2, <3>1, FS_EmptySet DEF WritesIn, One
  <2> QED BY <2>1, <2>2
<1> QED BY <1>1, <1>2

\* ... of a queue whose first handler is taken, ...
LEMMA TailWrites ==
  ASSUME NEW q \in Seq(Handlers), q # <<>>
  PROVE  /\ WritesIn(Tail(q)) \in Nat
         /\ WritesIn(q) = One(Head(q) \in WriteResults) + WritesIn(Tail(q))
<1>1. Head(q) \in Handlers /\ Tail(q) \in Seq(Handlers) /\ q = <<Head(q)>> \o Tail(q)
  BY HeadTailProperties, ConcatProperties
<1>2. <<Head(q)>> \in Seq(Handlers)
  BY <1>1
<1> QED BY <1>1, <1>2, ConcatWrites, ShortWrites

\* ... and of writes that are done, all together.
LEMMA AllWrites ==
  ASSUME NEW n \in Nat, NEW v \in WriteResults
  PROVE  WritesIn([i \in 1..n |-> v]) = n
<1> DEFINE s == [i \in 1..n |-> v]
<1>1. Len(s) = n
  BY Repeat
<1>2. QueuedIn(WriteResults, s) = 1..n
  BY <1>1 DEF QueuedIn
<1>3. Cardinality(1..n) = n
  BY FS_Interval
<1> QED BY <1>2, <1>3 DEF WritesIn

\* receive() starts no write, ...
LEMMA ReceiveWrites ==
  ASSUME TypeOK, NEW count, Receive(count)
  PROVE  WritesIn(later') = WritesIn(later)
<1>1. PICK result : /\ result \in {<<>>, <<"data">>, <<"eof">>, <<"readError">>}
                    /\ later' = (later \o Aborted) \o result
  <2>1. TryRead \in {<<>>, <<"data">>, <<"eof">>, <<"readError">>}
    BY DEF TryRead, TypeOK
  <2> QED BY <2>1 DEF Receive
<1>2. /\ WritesIn(result) = 0 /\ WritesIn(Aborted) = 0
      /\ result \in Seq(Handlers) /\ Aborted \in Seq(Handlers) /\ later \in Seq(Handlers)
  <2>1. {"aborted", "data", "eof", "readError"} \subseteq Handlers \ WriteResults
    BY DEF Handlers, ReadResults, WriteResults
  <2>2. \A h \in Handlers \ WriteResults : <<h>> \in Seq(Handlers) /\ WritesIn(<<h>>) = 0
    BY ShortWrites, ShortReads DEF One
  <2>3. WritesIn(result) = 0 /\ result \in Seq(Handlers)
    BY <1>1, <2>1, <2>2, ShortWrites, ShortReads
  <2>4. WritesIn(Aborted) = 0 /\ Aborted \in Seq(Handlers)
    BY <2>1, <2>2, ShortWrites, ShortReads DEF Aborted
  <2> QED BY <2>3, <2>4 DEF TypeOK
<1>3. /\ later \o Aborted \in Seq(Handlers) /\ WritesIn(later) \in Nat
      /\ WritesIn(later \o Aborted) = WritesIn(later) + 0
  BY <1>2, ConcatReads, ConcatWrites
<1>4. WritesIn(later') = WritesIn(later \o Aborted) + 0
  BY <1>1, <1>2, <1>3, ConcatWrites
<1> QED BY <1>3, <1>4

\* ... and close() lets each pending write fail.
LEMMA CloseWrites ==
  ASSUME TypeOK, NEW count, Close(count)
  PROVE  /\ writing' \in Nat /\ WritesIn(later') \in Nat /\ WritesIn(later) \in Nat
         /\ writing' + WritesIn(later') = writing + WritesIn(later)
<1>1. later \in Seq(Handlers) /\ writing \in Nat /\ WritesIn(later) \in Nat
  BY ConcatWrites DEF TypeOK
<1>2. CASE socket # "open"
  BY <1>1, <1>2 DEF Close
<1>3. CASE socket = "open"
  <2> DEFINE canceled == IF reading THEN <<"canceled">> ELSE <<>>
             failed   == [i \in 1..writing |-> "writeError"]
  <2>1. writing' = 0 /\ later' = ((later \o Aborted) \o canceled) \o failed
    BY <1>3 DEF Close
  <2>2. "aborted" \in Handlers /\ "canceled" \in Handlers /\ "writeError" \in Handlers
        /\ "aborted" \notin WriteResults /\ "canceled" \notin WriteResults
        /\ "writeError" \in WriteResults
    BY DEF Handlers, ReadResults, WriteResults
  <2>3. /\ Aborted \in Seq(Handlers) /\ WritesIn(Aborted) = 0
        /\ canceled \in Seq(Handlers) /\ WritesIn(canceled) = 0
    BY <2>2, ShortReads, ShortWrites DEF Aborted, One
  <2>4. failed \in Seq(Handlers) /\ WritesIn(failed) = writing
    BY <1>1, <2>2, Repeat, AllWrites
  <2> HIDE DEF canceled, failed
  <2>5. later \o Aborted \in Seq(Handlers) /\ (later \o Aborted) \o canceled \in Seq(Handlers)
    BY <1>1, <2>3, ConcatReads
  <2>6. WritesIn((later \o Aborted) \o canceled) = WritesIn(later)
    <3>1. WritesIn(later \o Aborted) = WritesIn(later) + 0
      BY <1>1, <2>3, ConcatWrites
    <3>2. WritesIn((later \o Aborted) \o canceled) = WritesIn(later \o Aborted) + 0
      BY <2>3, <2>5, ConcatWrites
    <3> QED BY <1>1, <3>1, <3>2
  <2>7. WritesIn(later') = WritesIn(later) + writing
    BY <2>1, <2>4, <2>5, <2>6, ConcatWrites
  <2> QED BY <1>1, <2>1, <2>7
<1> QED BY <1>2, <1>3

\* The first handler of the queue runs.
LEMMA DispatchWrites ==
  ASSUME IInv, NEW handlers, Dispatch(handlers)
  PROVE  /\ WritesIn(now) \in Nat /\ WritesIn(now') \in Nat /\ WritesIn(later) \in Nat
         /\ writing \in Nat /\ txPending \in Int
         /\ handlers \subseteq WriteResults => WritesIn(now) = WritesIn(now') + 1
         /\ handlers \cap WriteResults = {} => WritesIn(now) = WritesIn(now')
<1>1. /\ now \in Seq(Handlers) /\ later \in Seq(Handlers) /\ now # <<>> /\ now' = Tail(now)
      /\ Head(now) \in handlers /\ writing \in Nat /\ txPending \in Int
  BY DEF IInv, TypeOK, Dispatch
<1>2. WritesIn(later) \in Nat /\ WritesIn(now) \in Nat
  BY <1>1, ConcatWrites
<1>3. WritesIn(now') \in Nat /\ WritesIn(now) = One(Head(now) \in WriteResults) + WritesIn(now')
  BY <1>1, TailWrites
<1> QED BY <1>1, <1>2, <1>3 DEF One

\* Each write that the descriptor's event finishes has its handler queued.
LEMMA DescriptorWrites == IInv /\ WritesInv /\ Descriptor => WritesInv'
<1> SUFFICES ASSUME IInv, WritesInv, Descriptor PROVE WritesInv'
  OBVIOUS
<1>1. PICK n \in 0..writing, result \in {<<>>, <<"data">>, <<"eof">>, <<"readError">>} :
        /\ writing' = writing - n
        /\ IF TryWrite(n) \o result = <<>>
             THEN UNCHANGED <<now, later>>
             ELSE /\ now' = <<Head(TryWrite(n) \o result)>>
                  /\ later' = later \o Tail(TryWrite(n) \o result)
  <2>1. TryRead \in {<<>>, <<"data">>, <<"eof">>, <<"readError">>}
    BY DEF TryRead, IInv, TypeOK
  <2> QED BY <2>1 DEF Descriptor
<1>2. /\ now = <<>> /\ txPending' = txPending /\ later \in Seq(Handlers) /\ writing \in Nat
      /\ txPending \in Int /\ n \in Nat
  BY <1>1 DEF IInv, TypeOK, Descriptor
<1>3. TryWrite(n) \in Seq(Handlers) /\ WritesIn(TryWrite(n)) = n
  <2>1. PICK v \in WriteResults : TryWrite(n) = [i \in 1..n |-> v]
    BY DEF TryWrite, WriteResults
  <2> QED BY <1>2, <2>1, AllWrites, TryWriteType
<1>4. result \in Seq(Handlers) /\ WritesIn(result) = 0
  <2>1. {"data", "eof", "readError"} \subseteq Handlers \ WriteResults
    BY DEF Handlers, ReadResults, WriteResults
  <2>2. \A h \in Handlers \ WriteResults : <<h>> \in Seq(Handlers) /\ WritesIn(<<h>>) = 0
    BY ShortWrites, ShortReads DEF One
  <2> QED BY <1>1, <2>1, <2>2, ShortWrites, ShortReads
<1>5. PICK done : done = TryWrite(n) \o result
  OBVIOUS
<1>6. done \in Seq(Handlers) /\ WritesIn(done) = n /\ WritesIn(later) \in Nat
      /\ WritesIn(<<>>) = 0
  <2>1. WritesIn(done) = n + 0 /\ done \in Seq(Handlers)
    BY <1>3, <1>4, <1>5, ConcatWrites, ConcatReads
  <2> QED BY <1>2, <2>1, ConcatWrites, ShortWrites
<1>7. WritesIn(now') + WritesIn(later') = WritesIn(later) + n
      /\ WritesIn(now') \in Nat /\ WritesIn(later') \in Nat
  <2>1. CASE done = <<>>
    <3>1. now' = <<>> /\ later' = later /\ n = 0
      BY <1>1, <1>2, <1>5, <1>6, <2>1
    <3> QED BY <1>6, <3>1
  <2>2. CASE done # <<>>
    <3>1. now' = <<Head(done)>> /\ later' = later \o Tail(done) /\ Tail(done) \in Seq(Handlers)
      BY <1>1, <1>5, <1>6, <2>2, TailReads
    <3>2. /\ WritesIn(Tail(done)) \in Nat
          /\ n = One(Head(done) \in WriteResults) + WritesIn(Tail(done))
      BY <1>6, <2>2, TailWrites
    <3>3. WritesIn(now') = One(Head(done) \in WriteResults) /\ WritesIn(now') \in Nat
      BY <3>1, ShortWrites DEF One
    <3>4. WritesIn(later') = WritesIn(later) + WritesIn(Tail(done))
      BY <1>2, <3>1, ConcatWrites
    <3> QED BY <1>6, <3>2, <3>3, <3>4
  <2> QED BY <2>1, <2>2
<1>8. PICK w \in Nat, a \in Nat, b \in Nat, c \in Nat :
        w = writing /\ a = WritesIn(now') /\ b = WritesIn(later') /\ c = WritesIn(later)
  BY <1>2, <1>6, <1>7
<1>9. txPending = w + 0 + c
  BY <1>2, <1>6, <1>8 DEF WritesInv
<1>10. w + 0 + c = (w - n) + a + b
  <2>1. a + b = c + n
    BY <1>7, <1>8
  <2>2. n \in Nat /\ w \in Nat /\ a \in Nat /\ b \in Nat /\ c \in Nat
    BY <1>2
  <2> QED BY <2>1, <2>2
<1> QED BY <1>1, <1>2, <1>8, <1>9, <1>10 DEF WritesInv

\* sendData() counts the write it starts, whether it is done at once or not.
LEMMA SendWrites == IInv /\ WritesInv /\ SendData => WritesInv'
<1> SUFFICES ASSUME IInv, WritesInv, SendData PROVE WritesInv'
  OBVIOUS
<1>1. PICK result \in {<<>>, <<"written">>, <<"writeError">>} :
        /\ writing' = writing + One(result = <<>>)
        /\ later' = (later \o Aborted) \o result
  BY DEF SendData
<1>2. /\ txPending' = txPending + 1 /\ now' = now /\ writing \in Nat /\ txPending \in Int
      /\ now \in Seq(Handlers) /\ later \in Seq(Handlers)
  BY DEF SendData, IInv, TypeOK
<1>3. WritesIn(now) \in Nat /\ WritesIn(later) \in Nat
  BY <1>2, ConcatWrites
<1>4. result \in Seq(Handlers) /\ WritesIn(result) + One(result = <<>>) = 1
      /\ WritesIn(result) \in Nat /\ One(result = <<>>) \in Nat
  <2>1. "written" \in Handlers /\ "writeError" \in Handlers
        /\ "written" \in WriteResults /\ "writeError" \in WriteResults
    BY DEF Handlers, WriteResults
  <2>2. CASE result = <<>>
    BY <2>2, ShortWrites, ShortReads DEF One
  <2>3. CASE result # <<>>
    <3>1. PICK h \in {"written", "writeError"} : result = <<h>>
      BY <1>1, <2>3
    <3>2. result \in Seq(Handlers) /\ WritesIn(result) = 1
      BY <2>1, <3>1, ShortWrites, ShortReads DEF One
    <3> QED BY <2>3, <3>2 DEF One
  <2> QED BY <2>2, <2>3
<1>5. /\ later \o Aborted \in Seq(Handlers) /\ WritesIn(later \o Aborted) = WritesIn(later)
  <2>1. Aborted \in Seq(Handlers) /\ WritesIn(Aborted) = 0
    <3>1. "aborted" \in Handlers /\ "aborted" \notin WriteResults
      BY DEF Handlers, WriteResults
    <3> QED BY <3>1, ShortReads, ShortWrites DEF Aborted, One
  <2>2. WritesIn(later \o Aborted) = WritesIn(later) + 0 /\ later \o Aborted \in Seq(Handlers)
    BY <1>2, <2>1, ConcatWrites, ConcatReads
  <2> QED BY <1>3, <2>2
<1>6. WritesIn(later') = WritesIn(later) + WritesIn(result)
  BY <1>1, <1>4, <1>5, ConcatWrites
<1>7. PICK w \in Nat, a \in Nat, b \in Nat, c \in Nat, o \in Nat :
        /\ w = writing /\ a = WritesIn(now) /\ b = WritesIn(later) /\ c = WritesIn(result)
        /\ o = One(result = <<>>)
  BY <1>2, <1>3, <1>4
<1>8. (w + a + b) + 1 = (w + o) + a + (b + c)
  <2>1. c + o = 1
    BY <1>4, <1>7
  <2> QED BY <1>7, <2>1
<1>9. txPending = w + a + b
  BY <1>7 DEF WritesInv
<1> QED BY <1>1, <1>2, <1>6, <1>7, <1>8, <1>9 DEF WritesInv

\* Every step keeps the count of the writes.
LEMMA WritesStep == IInv /\ WritesInv /\ [Next]_vars => WritesInv'
<1> SUFFICES ASSUME IInv, WritesInv, [Next]_vars PROVE WritesInv'
  OBVIOUS
<1>1. /\ TypeOK /\ now \in Seq(Handlers) /\ later \in Seq(Handlers)
      /\ writing \in Nat /\ txPending \in Int
      /\ WritesIn(now) \in Nat /\ WritesIn(later) \in Nat
  BY ConcatWrites DEF IInv, TypeOK
<1>2. ASSUME NEW count, Receive(count), UNCHANGED <<writing, txPending>>,
             WritesIn(now') = WritesIn(now)
      PROVE  WritesInv'
  BY <1>1, <1>2, ReceiveWrites DEF WritesInv
<1>3. ASSUME NEW count, Close(count), txPending' = txPending, WritesIn(now') = WritesIn(now)
      PROVE  WritesInv'
  <2>1. /\ writing' \in Nat /\ WritesIn(later') \in Nat
        /\ writing' + WritesIn(later') = writing + WritesIn(later)
    BY <1>1, <1>3, CloseWrites
  <2> QED BY <1>1, <1>3, <2>1 DEF WritesInv
<1>4. ASSUME UNCHANGED <<txPending, writing, now, later>> PROVE WritesInv'
  BY <1>4 DEF WritesInv
<1>5. CASE Accept
  BY <1>2, <1>5 DEF Accept
<1>6. CASE AcceptFails \/ EndData \/ PeerSends \/ PeerLeaves \/ UNCHANGED vars
  BY <1>4, <1>6 DEF AcceptFails, EndData, PeerSends, PeerLeaves, vars, loopVars
<1>7. CASE Poll
  <2>1. now = <<>> /\ now' = later /\ later' = <<>> /\ UNCHANGED <<txPending, writing>>
    BY <1>7 DEF Poll, PollWith, Idle
  <2> QED BY <1>1, <2>1, ShortWrites DEF WritesInv
<1>8. CASE TimerHandler
  BY <1>3, <1>8 DEF TimerHandler
<1>9. CASE CallClose
  BY <1>3, <1>9 DEF CallClose
<1>10. CASE DataHandler
  <2>1. /\ Dispatch({"data"}) /\ {"data"} \cap WriteResults = {} /\ Receive(refs)
        /\ UNCHANGED <<writing, txPending>>
    BY <1>10 DEF DataHandler, WriteResults
  <2>2. WritesIn(now') = WritesIn(now)
    BY <2>1, DispatchWrites
  <2> QED BY <1>2, <2>1, <2>2
<1>11. CASE EofHandler
  <2>1. /\ Dispatch({"eof"}) /\ {"eof"} \cap WriteResults = {} /\ Close(refs - 1)
        /\ txPending' = txPending
    BY <1>11 DEF EofHandler, WriteResults
  <2>2. WritesIn(now') = WritesIn(now)
    BY <2>1, DispatchWrites
  <2> QED BY <1>3, <2>1, <2>2
<1>12. CASE ReadErrorHandler \/ AbortedHandler
  <2>1. PICK handlers : Dispatch(handlers) /\ handlers \cap WriteResults = {}
    BY <1>12 DEF ReadErrorHandler, AbortedHandler, WriteResults
  <2>2. UNCHANGED <<txPending, writing, later>>
    BY <1>12 DEF ReadErrorHandler, AbortedHandler
  <2>3. WritesIn(now') = WritesIn(now)
    BY <2>1, DispatchWrites
  <2> QED BY <2>2, <2>3 DEF WritesInv
<1>13. CASE WriteHandler
  <2>1. Dispatch(WriteResults) /\ txPending' = txPending - 1 /\ UNCHANGED <<writing, later>>
    BY <1>13 DEF WriteHandler
  <2>2. WritesIn(now) = WritesIn(now') + 1 /\ WritesIn(now') \in Nat
    BY <2>1, DispatchWrites
  <2> QED BY <1>1, <2>1, <2>2 DEF WritesInv
<1> QED
  BY <1>5, <1>6, <1>7, <1>8, <1>9, <1>10, <1>11, <1>12, <1>13, DescriptorWrites, SendWrites
     DEF Next, Handle

-----------------------------------------------------------------------------
(* Theorems *)

\* Every variable keeps its type.
THEOREM TypeCorrect == Spec => []TypeOK
<1>1. IInv => TypeOK
  BY DEF IInv
<1> QED BY <1>1, Invariance, PTL

\* The reference count is the number of holders in every state, whatever the
\* peer sends and however sendData and close are called.
THEOREM RefsCorrect == Spec => []RefsAreHolders
<1>1. IInv => RefsAreHolders
  BY DEF IInv
<1> QED BY <1>1, Invariance, PTL

\* An open channel is never without its inactivity timer.
THEOREM WatchCorrect == Spec => []OpenIsWatched
<1>1. IInv => OpenIsWatched
  BY DEF IInv
<1> QED BY <1>1, Invariance, PTL

\* At most one read uses rxBuffer.
THEOREM ReadCorrect == Spec => []OneRead
<1>1. IInv => OneRead
  <2> SUFFICES ASSUME IInv PROVE OneRead
    OBVIOUS
  <2>1. now \in Seq(Handlers) /\ later \in Seq(Handlers) /\ ReadInv
    BY DEF IInv, TypeOK
  <2>2. AtMostOneRead(now \o later) /\ (reading => NoRead(now \o later))
    BY <2>1, ConcatReads, NoReadIsAtMostOne DEF ReadInv
  <2> QED BY <2>2 DEF OneRead, QueuedIn, AtMostOneRead, NoRead
<1> QED BY <1>1, Invariance, PTL

\* txPending is the number of the writes to come, so that onReadyToSend is
\* called when the last of them is done, however writes overlap and fail.
THEOREM WritesCorrect == Spec => []TxPendingIsWrites
<1>1. Init => WritesInv
  BY ShortWrites DEF Init, WritesInv
<1>2. IInv /\ WritesInv => TxPendingIsWrites
  <2> SUFFICES ASSUME IInv, WritesInv PROVE TxPendingIsWrites
    OBVIOUS
  <2>1. now \in Seq(Handlers) /\ later \in Seq(Handlers) /\ writing \in Nat
    BY DEF IInv, TypeOK
  <2>2. /\ WritesIn(now \o later) = WritesIn(now) + WritesIn(later)
        /\ WritesIn(now) \in Nat /\ WritesIn(later) \in Nat
    BY <2>1, ConcatWrites
  <2>3. txPending = writing + WritesIn(now \o later)
    BY <2>1, <2>2 DEF WritesInv
  <2> QED BY <2>3 DEF TxPendingIsWrites, WritesIn
<1> QED BY <1>1, <1>2, WritesStep, Invariance, PTL DEF Spec
=============================================================================
