---------------------------- MODULE ServerProofs ----------------------------
(***************************************************************************)
(* What holds of Server for all clients, channels and bounds, proved with  *)
(* TLAPS: the reference counts of the server and of its channels are       *)
(* right, in whatever order accepts complete and fail.                     *)
(***************************************************************************)
EXTENDS Server, SequenceTheorems, FiniteSetTheorems, FunctionTheorems, TLAPS

USE ServerAssumption

Results == [channel : Channels, client : Clients \cup {NoClient}]

\* The channels of results.
Chans(results) == [i \in 1..Len(results) |-> results[i].channel]

\* The channels of all accepts that were started and not handled, oldest first.
accepts == Chans(completed) \o waiting

\* A closed acceptor waits for nothing.
Closed == ~isOpen => waiting = <<>>

\* The references that hold channel c.
Held(c) ==
  IF channel[c] = "free" THEN 0
  ELSE IF channel[c] = "created" THEN 1
  ELSE IF channel[c] = "connected" THEN 1 + Operations
  ELSE Operations

HeldRefs == \A c \in Channels : channelRefs[c] = Held(c)

\* Each accept has a channel of its own, and they are the channels created.
Distinct ==
  /\ \A i, j \in 1..Len(accepts) : accepts[i] = accepts[j] => i = j
  /\ \A c \in Channels :
       channel[c] = "created" <=> \E i \in 1..Len(accepts) : accepts[i] = c

-----------------------------------------------------------------------------
(* Sequences of accepts *)

\* The channels of results are a sequence as long.
LEMMA ChansType ==
  ASSUME NEW s \in Seq(Results)
  PROVE  /\ Chans(s) \in Seq(Channels) /\ Len(Chans(s)) = Len(s)
         /\ \A i \in 1..Len(s) : Chans(s)[i] = s[i].channel
<1>1. Len(s) \in Nat /\ \A i \in 1..Len(s) : s[i].channel \in Channels
  <2>1. Len(s) \in Nat /\ \A i \in 1..Len(s) : s[i] \in Results
    OBVIOUS
  <2> QED BY <2>1 DEF Results
<1> DEFINE n == Len(s)
           F(i) == s[i].channel
<1>2. n \in Nat /\ \A i \in 1..n : F(i) \in Channels
  BY <1>1
<1> HIDE DEF n, F
<1>3. [i \in 1..n |-> F(i)] \in Seq(Channels) /\ Len([i \in 1..n |-> F(i)]) = n
  BY <1>2
<1> QED BY <1>1, <1>3 DEF n, F, Chans

\* A result that is appended appends its channel.
LEMMA ChansAppend ==
  ASSUME NEW s \in Seq(Results), NEW result \in Results
  PROVE  Chans(Append(s, result)) = Append(Chans(s), result.channel)
<1>1. Append(s, result) \in Seq(Results) /\ Len(Append(s, result)) = Len(s) + 1
      /\ Append(s, result)[Len(s) + 1] = result
      /\ \A i \in 1..Len(s) : Append(s, result)[i] = s[i]
  OBVIOUS
<1> QED BY <1>1 DEF Chans, Results

\* Without the first result its channel goes.
LEMMA ChansTail ==
  ASSUME NEW s \in Seq(Results), s # <<>>
  PROVE  /\ Chans(Tail(s)) = Tail(Chans(s)) /\ Chans(s) # <<>>
         /\ Head(Chans(s)) = Head(s).channel
<1>1. Tail(s) \in Seq(Results) /\ Len(Tail(s)) = Len(s) - 1
      /\ \A i \in 1..Len(Tail(s)) : Tail(s)[i] = s[i + 1]
  OBVIOUS
<1> QED BY <1>1 DEF Chans, Results

\* The channels of two parts are those of the one, then those of the other.
LEMMA ChansConcat ==
  ASSUME NEW s \in Seq(Results), NEW t \in Seq(Results)
  PROVE  /\ s \o t \in Seq(Results)
         /\ Chans(s \o t) = Chans(s) \o Chans(t)
<1>1. s \o t \in Seq(Results) /\ Len(s \o t) = Len(s) + Len(t)
      /\ Len(s) \in Nat /\ Len(t) \in Nat
      /\ \A i \in 1..Len(s \o t) :
           (s \o t)[i] = IF i <= Len(s) THEN s[i] ELSE t[i - Len(s)]
  OBVIOUS
<1> DEFINE a == Chans(s)
           b == Chans(t)
           c == Chans(s \o t)
<1>2. a \in Seq(Channels) /\ Len(a) = Len(s) /\ \A i \in 1..Len(s) : a[i] = s[i].channel
  BY ChansType
<1>3. b \in Seq(Channels) /\ Len(b) = Len(t) /\ \A i \in 1..Len(t) : b[i] = t[i].channel
  BY ChansType
<1>4. c \in Seq(Channels) /\ Len(c) = Len(s) + Len(t)
      /\ \A i \in 1..Len(s \o t) : c[i] = (s \o t)[i].channel
  BY <1>1, ChansType
<1> HIDE DEF a, b, c
<1>5. a \o b \in Seq(Channels) /\ Len(a \o b) = Len(s) + Len(t)
      /\ \A i \in 1..Len(s) + Len(t) :
           (a \o b)[i] = IF i <= Len(s) THEN a[i] ELSE b[i - Len(s)]
  <2>1. /\ a \o b \in Seq(Channels) /\ Len(a \o b) = Len(a) + Len(b)
        /\ \A i \in 1..Len(a) + Len(b) :
             (a \o b)[i] = IF i <= Len(a) THEN a[i] ELSE b[i - Len(a)]
    BY <1>2, <1>3, ConcatProperties, ZenonT(30)
  <2> QED BY <1>2, <1>3, <2>1
<1>6. ASSUME NEW i \in 1..Len(s) + Len(t) PROVE c[i] = (a \o b)[i]
  <2>1. CASE i <= Len(s)
    BY <1>1, <1>2, <1>4, <1>5, <2>1
  <2>2. CASE ~(i <= Len(s))
    <3>1. i - Len(s) \in 1..Len(t)
      BY <1>1, <2>2
    <3> QED BY <1>1, <1>3, <1>4, <1>5, <2>2, <3>1
  <2> QED BY <2>1, <2>2
<1>7. c = a \o b
  BY <1>4, <1>5, <1>6, SeqEqual
<1> QED BY <1>1, <1>7 DEF a, b, c

\* The accepts that a close() ends are moved behind those completed.
LEMMA ChansErrors ==
  ASSUME NEW s \in Seq(Results), NEW w \in Seq(Channels)
  PROVE  /\ s \o [i \in DOMAIN w |-> Error(w[i])] \in Seq(Results)
         /\ Chans(s \o [i \in DOMAIN w |-> Error(w[i])]) = Chans(s) \o w
<1> DEFINE e == [i \in DOMAIN w |-> Error(w[i])]
           F(i) == Error(w[i])
           n == Len(w)
<1>1. n \in Nat /\ DOMAIN w = 1..n /\ \A i \in 1..n : F(i) \in Results
  BY DEF Error, Results
<1>2. \A i \in 1..n : F(i).channel = w[i]
  BY DEF Error
<1>3. e = [i \in 1..n |-> F(i)]
  BY <1>1
<1> HIDE DEF e, F, n
<1>4. e \in Seq(Results) /\ Len(e) = n /\ \A i \in 1..n : e[i] = F(i)
  BY <1>1, <1>3
<1>5. Chans(e) \in Seq(Channels) /\ Len(Chans(e)) = Len(e)
      /\ \A i \in 1..Len(e) : Chans(e)[i] = e[i].channel
  BY <1>4, ChansType
<1>6. Chans(e) = w
  <2>1. Len(Chans(e)) = Len(w) /\ \A i \in 1..Len(w) : Chans(e)[i] = w[i]
    BY <1>2, <1>4, <1>5 DEF n
  <2> QED BY <1>5, <2>1, SeqEqual
<1>7. s \o e \in Seq(Results) /\ Chans(s \o e) = Chans(s) \o Chans(e)
  BY <1>4, ChansConcat
<1> QED BY <1>6, <1>7 DEF e

\* The oldest accept that waits is the next behind those completed.
LEMMA MoveAcross ==
  ASSUME NEW s \in Seq(Channels), NEW w \in Seq(Channels), w # <<>>
  PROVE  Append(s, Head(w)) \o Tail(w) = s \o w
OBVIOUS

\* The parts of accepts are sequences of channels.
LEMMA AcceptsType ==
  ASSUME TypeOK
  PROVE  /\ completed \in Seq(Results) /\ waiting \in Seq(Channels)
         /\ Chans(completed) \in Seq(Channels) /\ accepts \in Seq(Channels)
         /\ Len(accepts) = Len(waiting) + Len(completed)
<1>1. completed \in Seq(Results) /\ waiting \in Seq(Channels)
  BY DEF TypeOK, Results
<1> QED BY <1>1, ChansType DEF accepts

\* An accept appended to those that wait, or to those completed while none
\* waits, is the newest.
LEMMA AppendLast ==
  ASSUME NEW s \in Seq(Channels), NEW w \in Seq(Channels), NEW c \in Channels
  PROVE  /\ s \o Append(w, c) = Append(s \o w, c)
         /\ w = <<>> => Append(s, c) \o w = Append(s \o w, c)
OBVIOUS

-----------------------------------------------------------------------------
(* Starting and completing accepts *)

\* An accept that is performed takes the oldest connection, or fails.
LEMMA PerformFacts ==
  ASSUME TypeOK, NEW c \in Channels, backlog # <<>>
  PROVE  /\ Perform(c) \in Results /\ Perform(c).channel = c
         /\ Taken(Perform(c), backlog) \in Seq(Clients)
<1>1. backlog \in Seq(Clients) /\ Head(backlog) \in Clients /\ Tail(backlog) \in Seq(Clients)
  BY DEF TypeOK
<1>2. /\ [channel |-> c, client |-> Head(backlog)] \in Results
      /\ [channel |-> c, client |-> NoClient] \in Results
  BY <1>1 DEF Results
<1>3. Perform(c) = [channel |-> c, client |-> Head(backlog)]
      \/ Perform(c) = [channel |-> c, client |-> NoClient]
  BY DEF Perform, Error
<1> QED BY <1>1, <1>2, <1>3 DEF Taken

\* Starting an accept adds it as the newest.
LEMMA StartFacts ==
  ASSUME TypeOK, Closed, NEW finished \in Seq(Results), NEW c \in Channels,
         Start(c, finished)
  PROVE  /\ completed' \in Seq(Results) /\ waiting' \in Seq(Channels)
         /\ backlog' \in Seq(Clients)
         /\ Chans(completed') \o waiting' = Append(Chans(finished) \o waiting, c)
         /\ ~isOpen => waiting' = <<>>
<1> DEFINE s == Chans(finished)
<1>1. s \in Seq(Channels) /\ waiting \in Seq(Channels) /\ backlog \in Seq(Clients)
  BY ChansType DEF TypeOK
<1>2. Error(c) \in Results /\ Error(c).channel = c
  BY DEF Error, Results
<1>3. ASSUME NEW result \in Results, result.channel = c,
             completed' = Append(finished, result), waiting' = waiting,
             waiting = <<>>, backlog' \in Seq(Clients)
      PROVE  /\ completed' \in Seq(Results) /\ waiting' \in Seq(Channels)
             /\ backlog' \in Seq(Clients)
             /\ Chans(completed') \o waiting' = Append(s \o waiting, c)
             /\ ~isOpen => waiting' = <<>>
  <2>1. Chans(completed') = Append(s, c) /\ completed' \in Seq(Results)
    BY <1>3, ChansAppend
  <2>2. Append(s, c) \o waiting = Append(s \o waiting, c)
    BY <1>1, <1>3, AppendLast
  <2> QED BY <1>1, <1>3, <2>1, <2>2
<1>4. CASE ~isOpen
  <2>1. /\ completed' = Append(finished, Error(c)) /\ waiting' = waiting
        /\ backlog' = backlog /\ waiting = <<>>
    BY <1>4 DEF Start, Closed
  <2> QED BY <1>1, <1>2, <1>3, <2>1
<1>5. CASE isOpen /\ waiting = <<>> /\ backlog # <<>>
  <2>1. /\ completed' = Append(finished, Perform(c)) /\ waiting' = waiting
        /\ backlog' = Taken(Perform(c), backlog)
    BY <1>5 DEF Start
  <2>2. /\ Perform(c) \in Results /\ Perform(c).channel = c
        /\ backlog' \in Seq(Clients)
    BY <1>5, <2>1, PerformFacts
  <2> QED BY <1>3, <1>5, <2>1, <2>2
<1>6. CASE isOpen /\ ~(waiting = <<>> /\ backlog # <<>>)
  <2>1. completed' = finished /\ waiting' = Append(waiting, c) /\ backlog' = backlog
    BY <1>6 DEF Start
  <2>2. s \o Append(waiting, c) = Append(s \o waiting, c)
    BY <1>1, AppendLast
  <2> QED BY <1>1, <1>6, <2>1, <2>2
<1> QED BY <1>4, <1>5, <1>6

-----------------------------------------------------------------------------
(* The references of the channels *)

\* Channel d, which was free, is created for a new accept.
LEMMA OneCreated ==
  ASSUME TypeOK, HeldRefs, Distinct, NEW d \in Channels, channel[d] = "free",
         channel' = [channel EXCEPT ![d] = "created"],
         channelRefs' = [channelRefs EXCEPT ![d] = 1],
         accepts' = Append(accepts, d)
  PROVE  HeldRefs' /\ Distinct'
<1>1. HeldRefs'
  BY DEF HeldRefs, Held, TypeOK
<1>2. accepts \in Seq(Channels) /\ Len(accepts) \in Nat
  BY AcceptsType
<1> DEFINE q == accepts
<1> HIDE DEF q
<1>3. /\ Len(Append(q, d)) = Len(q) + 1 /\ Append(q, d)[Len(q) + 1] = d
      /\ \A i \in 1..Len(q) : Append(q, d)[i] = q[i]
      /\ Len(q) \in Nat
  BY <1>2 DEF q
<1>4. /\ \A i, j \in 1..Len(q) : q[i] = q[j] => i = j
      /\ \A c \in Channels : channel[c] = "created" <=> \E i \in 1..Len(q) : q[i] = c
  BY DEF Distinct, q
<1>5. \A i \in 1..Len(q) : q[i] # d
  BY <1>4
<1>6. \A i \in 1..Len(q) + 1 : i \in 1..Len(q) \/ i = Len(q) + 1
  BY <1>3
<1>7. \A i, j \in 1..Len(Append(q, d)) : Append(q, d)[i] = Append(q, d)[j] => i = j
  BY <1>3, <1>4, <1>5, <1>6
<1>8. ASSUME NEW c \in Channels
      PROVE  channel'[c] = "created" <=> \E i \in 1..Len(Append(q, d)) : Append(q, d)[i] = c
  <2>1. CASE c = d
    <3>1. channel'[c] = "created" /\ Len(q) + 1 \in 1..Len(q) + 1
      BY <1>3, <2>1 DEF TypeOK
    <3> QED BY <1>3, <2>1, <3>1
  <2>2. CASE c # d
    <3>1. channel'[c] = channel[c]
      BY <2>2 DEF TypeOK
    <3>2. (\E i \in 1..Len(Append(q, d)) : Append(q, d)[i] = c) <=> \E i \in 1..Len(q) : q[i] = c
      BY <1>3, <1>6, <2>2
    <3> QED BY <1>4, <3>1, <3>2
  <2> QED BY <2>1, <2>2
<1> QED BY <1>1, <1>7, <1>8 DEF Distinct, q

\* The oldest accept is handled: its channel is connected or free again, and
\* channel d is created for the accept that follows.
LEMMA OneReplaced ==
  ASSUME TypeOK, HeldRefs, Distinct, accepts # <<>>,
         NEW c \in Channels, c = Head(accepts),
         NEW d \in Channels, channel[d] = "free",
         NEW state \in {"free", "connected"},
         channel' = [channel EXCEPT ![c] = state, ![d] = "created"],
         channelRefs' = [channelRefs EXCEPT
                           ![c] = IF state = "connected" THEN 1 + Operations ELSE 0,
                           ![d] = 1],
         accepts' = Append(Tail(accepts), d)
  PROVE  HeldRefs' /\ Distinct'
<1>1. accepts \in Seq(Channels) /\ Len(accepts) \in Nat
  BY AcceptsType
<1> DEFINE q == accepts
           t == Append(Tail(accepts), d)
<1> HIDE DEF q, t
<1>2. /\ q[1] = c /\ Len(q) \in Nat \ {0} /\ Len(t) = Len(q) /\ t[Len(q)] = d
      /\ \A i \in 1..(Len(q) - 1) : t[i] = q[i + 1]
  BY <1>1 DEF q, t
<1>3. /\ \A i, j \in 1..Len(q) : q[i] = q[j] => i = j
      /\ \A e \in Channels : channel[e] = "created" <=> \E i \in 1..Len(q) : q[i] = e
  BY DEF Distinct, q
<1>4. 1 \in 1..Len(q) /\ channel[c] = "created" /\ c # d
  <2>1. 1 \in 1..Len(q)
    BY <1>2
  <2> QED BY <1>2, <1>3, <2>1
<1>5. \A i \in 1..Len(q) : q[i] # d
  BY <1>3
<1>6. \A i \in 1..Len(q) : i \in Nat /\ (i = Len(q) \/ i \in 1..(Len(q) - 1))
  BY <1>2
<1>7. \A i \in 1..(Len(q) - 1) : i + 1 \in 1..Len(q) /\ i + 1 # 1
  BY <1>2
<1>8. ASSUME NEW i \in 1..Len(t), NEW j \in 1..Len(t), t[i] = t[j] PROVE i = j
  <2>0. ASSUME NEW k \in 1..(Len(q) - 1) PROVE t[k] # t[Len(q)]
    BY <1>2, <1>5, <1>7
  <2>1. CASE i = Len(q) \/ j = Len(q)
    <3>1. i \in 1..Len(q) /\ j \in 1..Len(q)
      BY <1>2
    <3> QED BY <1>6, <1>8, <2>0, <2>1, <3>1
  <2>2. CASE i \in 1..(Len(q) - 1) /\ j \in 1..(Len(q) - 1)
    <3>1. q[i + 1] = q[j + 1] /\ i + 1 \in 1..Len(q) /\ j + 1 \in 1..Len(q)
      BY <1>2, <1>7, <1>8, <2>2
    <3>2. i + 1 = j + 1 /\ i \in Nat /\ j \in Nat
      BY <1>3, <1>6, <1>2, <3>1
    <3> QED BY <3>2
  <2> QED BY <1>2, <1>6, <2>1, <2>2
<1>9. ASSUME NEW e \in Channels
      PROVE  channel'[e] = "created" <=> \E i \in 1..Len(t) : t[i] = e
  <2>1. channel'[e] = IF e = d THEN "created" ELSE IF e = c THEN state ELSE channel[e]
    BY <1>4 DEF TypeOK
  <2>2. CASE e = d
    <3>1. Len(q) \in 1..Len(t) /\ t[Len(q)] = e
      BY <1>2, <2>2
    <3> QED BY <2>1, <2>2, <3>1
  <2>3. CASE e = c
    <3>1. \A i \in 1..Len(t) : t[i] # c
      <4>1. ASSUME NEW i \in 1..Len(t), t[i] = c PROVE FALSE
        <5>1. i \in 1..(Len(q) - 1)
          BY <1>2, <1>4, <1>6, <4>1
        <5>2. q[i + 1] = q[1] /\ i + 1 \in 1..Len(q) /\ i + 1 # 1
          BY <1>2, <1>7, <4>1, <5>1
        <5> QED BY <1>3, <1>4, <5>2
      <4> QED BY <4>1
    <3> QED BY <1>4, <2>1, <2>3, <3>1
  <2>4. CASE e # c /\ e # d
    <3>1. ASSUME NEW i \in 1..Len(t), t[i] = e PROVE \E j \in 1..Len(q) : q[j] = e
      <4>1. i \in 1..(Len(q) - 1)
        BY <1>2, <1>6, <2>4, <3>1
      <4>2. i + 1 \in 1..Len(q) /\ q[i + 1] = e
        BY <1>2, <1>7, <3>1, <4>1
      <4> QED BY <4>2
    <3>2. ASSUME NEW j \in 1..Len(q), q[j] = e PROVE \E i \in 1..Len(t) : t[i] = e
      <4>1. j # 1 /\ j \in Nat
        BY <1>2, <2>4, <3>2
      <4>2. j - 1 \in 1..(Len(q) - 1) /\ (j - 1) + 1 = j /\ j - 1 \in 1..Len(t)
        BY <1>2, <4>1
      <4>3. t[j - 1] = e
        BY <1>2, <3>2, <4>2
      <4> QED BY <4>2, <4>3
    <3> QED BY <1>3, <2>1, <2>4, <3>1, <3>2
  <2> QED BY <2>2, <2>3, <2>4
<1>10. HeldRefs'
  <2> SUFFICES ASSUME NEW e \in Channels PROVE channelRefs'[e] = Held(e)'
    BY DEF HeldRefs
  <2>1. channel'[e] = IF e = d THEN "created" ELSE IF e = c THEN state ELSE channel[e]
    BY <1>4 DEF TypeOK
  <2>2. channelRefs'[e] = IF e = d THEN 1
                          ELSE IF e = c THEN (IF state = "connected" THEN 1 + Operations ELSE 0)
                          ELSE channelRefs[e]
    BY <1>4 DEF TypeOK
  <2>3. channelRefs[e] = Held(e)
    BY DEF HeldRefs
  <2> QED BY <2>1, <2>2, <2>3 DEF Held
<1> QED BY <1>8, <1>9, <1>10, ZenonT(30) DEF Distinct, t

\* The accepts stay while channels that were connected go on to be closed.
LEMMA OthersMove ==
  ASSUME TypeOK, HeldRefs, Distinct, UNCHANGED <<waiting, completed>>,
         NEW c \in Channels, NEW state \in {"free", "closing"},
         channel[c] = IF state = "closing" THEN "connected" ELSE "closing",
         channel' = [channel EXCEPT ![c] = state],
         channelRefs' = [channelRefs EXCEPT
                           ![c] = IF state = "closing" THEN @ - 1 ELSE @ - Operations]
  PROVE  HeldRefs' /\ Distinct'
<1>1. accepts' = accepts
  BY DEF accepts, Chans
<1>2. ASSUME NEW e \in Channels PROVE channelRefs'[e] = Held(e)'
  <2>1. channel'[e] = IF e = c THEN state ELSE channel[e]
    BY DEF TypeOK
  <2>2. channelRefs'[e] =
          IF e = c THEN (IF state = "closing" THEN channelRefs[e] - 1
                                              ELSE channelRefs[e] - Operations)
                   ELSE channelRefs[e]
    BY DEF TypeOK
  <2>3. channelRefs[e] = Held(e)
    BY DEF HeldRefs
  <2> QED BY <2>1, <2>2, <2>3 DEF Held, Operations
<1>3. \A e \in Channels : channel'[e] = "created" <=> channel[e] = "created"
  BY DEF TypeOK
<1> QED BY <1>1, <1>2, <1>3 DEF HeldRefs, Distinct

-----------------------------------------------------------------------------
(* The steps *)

\* There are as many accepts as results and accepts that wait.
LEMMA LenAccepts ==
  ASSUME NEW s \in Seq(Results), NEW w \in Seq(Channels)
  PROVE  Len(Chans(s) \o w) = Len(w) + Len(s)
<1> DEFINE t == Chans(s)
<1>1. t \in Seq(Channels) /\ Len(t) = Len(s)
  BY ChansType
<1> HIDE DEF t
<1>2. Len(t \o w) = Len(t) + Len(w) /\ Len(t) \in Nat /\ Len(w) \in Nat
  BY <1>1
<1> QED BY <1>1, <1>2 DEF t

\* The inductive invariant.
Inv == TypeOK /\ ServerRefs /\ Closed /\ HeldRefs /\ Distinct

\* The owner listens: one more accept, one more reference to the server.
LEMMA ListenStep == Inv /\ Listen => Inv'
<1> SUFFICES ASSUME Inv, Listen PROVE Inv'
  OBVIOUS
<1> USE DEF Inv, kernelVars
<1>1. PICK d \in Channels :
        /\ channel[d] = "free"
        /\ channel' = [channel EXCEPT ![d] = "created"]
        /\ channelRefs' = [channelRefs EXCEPT ![d] = 1]
        /\ Start(d, completed)
  BY DEF Listen
<1>2. /\ listens \in Nat /\ listens < MaxListens /\ listens' = listens + 1
      /\ serverRefs' = serverRefs + 1 /\ serverRefs \in Nat
      /\ UNCHANGED <<owned, isOpen, away, served>>
  BY DEF Listen, AddReference, TypeOK
<1>3. completed \in Seq(Results)
  BY AcceptsType
<1>4. /\ completed' \in Seq(Results) /\ waiting' \in Seq(Channels)
      /\ backlog' \in Seq(Clients)
      /\ accepts' = Append(accepts, d) /\ Closed'
  BY <1>1, <1>2, <1>3, StartFacts DEF accepts, Closed, Chans
<1>5. HeldRefs' /\ Distinct'
  BY <1>1, <1>4, OneCreated
<1>6. Len(waiting') + Len(completed') = Len(waiting) + Len(completed) + 1
  <2>1. Len(accepts') = Len(accepts) + 1 /\ Len(accepts) = Len(waiting) + Len(completed)
    BY <1>4, AcceptsType
  <2>2. Len(accepts') = Len(waiting') + Len(completed')
    BY <1>4, LenAccepts DEF accepts, Chans
  <2> QED BY <2>1, <2>2
<1>7. ServerRefs'
  BY <1>2, <1>6 DEF ServerRefs
<1>8. channel' \in [Channels -> ChannelStates] /\ channelRefs' \in [Channels -> Nat]
  BY <1>1 DEF TypeOK, ChannelStates
<1>9. listens' \in 0..MaxListens
  BY <1>2
<1>10. TypeOK'
  BY <1>2, <1>4, <1>8, <1>9 DEF TypeOK, Results
<1> QED BY <1>4, <1>5, <1>7, <1>10

\* The handler of an accept starts the next one, with the reference of its own.
LEMMA HandlerStep == Inv /\ Handler => Inv'
<1> SUFFICES ASSUME Inv, Handler PROVE Inv'
  OBVIOUS
<1> USE DEF Inv
<1> DEFINE c     == Head(completed).channel
           ok    == Head(completed).client \in Clients
           state == IF ok THEN "connected" ELSE "free"
<1>1. /\ completed \in Seq(Results) /\ completed # <<>> /\ waiting \in Seq(Channels)
      /\ Head(completed) \in Results /\ Tail(completed) \in Seq(Results)
  BY AcceptsType DEF Handler
<1>2. c \in Channels /\ state \in {"free", "connected"}
  BY <1>1 DEF Results
<1>3. PICK d \in Channels :
        /\ channel[d] = "free"
        /\ channelRefs' = [channelRefs EXCEPT
             ![c] = (IF ok THEN ConnectedRefs(channelRefs[c]) ELSE channelRefs[c]) - 1,
             ![d] = 1]
        /\ channel' = [channel EXCEPT ![c] = IF ok THEN "connected" ELSE "free",
                                      ![d] = "created"]
        /\ served' = IF ok THEN served \cup {Head(completed).client} ELSE served
        /\ Start(d, Tail(completed))
  BY DEF Handler
<1>4. /\ serverRefs' = serverRefs /\ UNCHANGED <<owned, listens, isOpen, away>>
  BY DEF Handler, AddReference, TypeOK
<1>5. /\ accepts # <<>> /\ c = Head(accepts)
      /\ Tail(accepts) = Chans(Tail(completed)) \o waiting
  <2> DEFINE s == Chans(completed)
  <2>1. /\ Chans(Tail(completed)) = Tail(s) /\ s # <<>> /\ Head(s) = c
        /\ s \in Seq(Channels)
    BY <1>1, ChansTail, ChansType
  <2> HIDE DEF s, c
  <2>2. s \o waiting # <<>> /\ Head(s \o waiting) = c /\ Tail(s \o waiting) = Tail(s) \o waiting
    BY <1>1, <2>1
  <2> QED BY <2>1, <2>2 DEF accepts, s
<1>6. channelRefs[c] = 1
  <2>1. accepts \in Seq(Channels)
    BY AcceptsType
  <2> HIDE DEF c
  <2>2. 1 \in 1..Len(accepts) /\ accepts[1] = c
    BY <1>5, <2>1
  <2>3. channel[c] = "created"
    BY <1>2, <2>2 DEF Distinct
  <2> QED BY <1>2, <2>3 DEF HeldRefs, Held
<1>7. (IF ok THEN ConnectedRefs(channelRefs[c]) ELSE channelRefs[c]) - 1
        = IF state = "connected" THEN 1 + Operations ELSE 0
  BY <1>6 DEF ConnectedRefs, Operations
<1>8. /\ completed' \in Seq(Results) /\ waiting' \in Seq(Channels)
      /\ backlog' \in Seq(Clients)
      /\ accepts' = Append(Tail(accepts), d) /\ Closed'
  <2>1. /\ completed' \in Seq(Results) /\ waiting' \in Seq(Channels)
        /\ backlog' \in Seq(Clients)
        /\ Chans(completed') \o waiting' = Append(Chans(Tail(completed)) \o waiting, d)
        /\ ~isOpen => waiting' = <<>>
    BY <1>1, <1>3, StartFacts
  <2> QED BY <1>4, <1>5, <2>1 DEF accepts, Closed, Chans
<1>9. HeldRefs' /\ Distinct'
  <2> HIDE DEF c, ok
  <2>1. /\ channel' = [channel EXCEPT ![c] = state, ![d] = "created"]
        /\ channelRefs' = [channelRefs EXCEPT
                ![c] = IF state = "connected" THEN 1 + Operations ELSE 0, ![d] = 1]
    BY <1>3, <1>7
  <2> HIDE DEF state
  <2> QED BY <1>2, <1>3, <1>5, <1>8, <2>1, OneReplaced
<1>10. ServerRefs'
  <2>1. accepts \in Seq(Channels) /\ Len(accepts) = Len(waiting) + Len(completed)
    BY AcceptsType
  <2>2. Len(Append(Tail(accepts), d)) = Len(accepts)
    BY <1>5, <2>1
  <2>3. Len(accepts') = Len(waiting') + Len(completed')
    BY <1>8, LenAccepts DEF accepts, Chans
  <2>4. Len(waiting') + Len(completed') = Len(waiting) + Len(completed)
    BY <1>8, <2>1, <2>2, <2>3
  <2> QED BY <1>4, <2>4 DEF ServerRefs
<1>11. /\ channel' \in [Channels -> ChannelStates] /\ served' \subseteq Clients
       /\ channelRefs' \in [Channels -> Nat]
  <2>1. channel' \in [Channels -> ChannelStates] /\ served' \subseteq Clients
    BY <1>2, <1>3 DEF TypeOK, ChannelStates
  <2> HIDE DEF c, ok, state
  <2>2. (IF state = "connected" THEN 1 + Operations ELSE 0) \in Nat
    BY DEF Operations
  <2>3. channelRefs' \in [Channels -> Nat]
    BY <1>3, <1>7, <2>2 DEF TypeOK
  <2> QED BY <2>1, <2>3
<1>12. TypeOK'
  BY <1>4, <1>8, <1>11 DEF TypeOK, Results
<1> QED BY <1>8, <1>9, <1>10, <1>12

\* The counts of the channels follow from the accepts and the channels.
LEMMA SameChannels ==
  ASSUME HeldRefs, Distinct, UNCHANGED <<waiting, completed, channel, channelRefs>>
  PROVE  HeldRefs' /\ Distinct'
<1>1. accepts' = accepts
  BY DEF accepts, Chans
<1> QED BY <1>1 DEF HeldRefs, Held, Distinct

\* Moving an accept from those that wait to those completed, or ending all
\* that wait, changes none of the counts.
LEMMA SameAccepts ==
  ASSUME Inv, completed' \in Seq(Results), waiting' \in Seq(Channels),
         accepts' = accepts,
         UNCHANGED <<owned, listens, serverRefs, channel, channelRefs, served, away>>
  PROVE  HeldRefs' /\ Distinct' /\ ServerRefs'
<1> USE DEF Inv
<1>1. Len(accepts') = Len(waiting') + Len(completed')
  BY LenAccepts DEF accepts, Chans
<1>2. Len(accepts) = Len(waiting) + Len(completed)
  BY AcceptsType
<1>3. Len(waiting') + Len(completed') = Len(waiting) + Len(completed)
  BY <1>1, <1>2
<1> QED BY <1>3 DEF HeldRefs, Held, Distinct, ServerRefs

\* The reactor completes the accept that has waited longest.
LEMMA AcceptStep == Inv /\ Accept => Inv'
<1> SUFFICES ASSUME Inv, Accept PROVE Inv'
  OBVIOUS
<1> USE DEF Inv, kernelVars
<1> DEFINE c == Head(waiting)
           result == Perform(c)
<1>1. /\ isOpen /\ isOpen' = isOpen /\ waiting # <<>> /\ backlog # <<>>
      /\ completed' = Append(completed, result) /\ backlog' = Taken(result, backlog)
      /\ waiting' = Tail(waiting)
      /\ UNCHANGED <<owned, listens, serverRefs, channel, channelRefs, served, away>>
  BY DEF Accept
<1>2. /\ completed \in Seq(Results) /\ waiting \in Seq(Channels)
      /\ Chans(completed) \in Seq(Channels)
  BY AcceptsType
<1>3. c \in Channels
  BY <1>1, <1>2
<1>4. result \in Results /\ result.channel = c /\ backlog' \in Seq(Clients)
  <2> HIDE DEF c
  <2> QED BY <1>1, <1>3, PerformFacts
<1> HIDE DEF result
<1>5. completed' \in Seq(Results) /\ Chans(completed') = Append(Chans(completed), c)
  BY <1>1, <1>2, <1>4, ChansAppend
<1>6. accepts' = accepts
  <2> DEFINE s == Chans(completed)
  <2>1. s \in Seq(Channels)
    BY <1>2
  <2> HIDE DEF s
  <2>2. Append(s, Head(waiting)) \o Tail(waiting) = s \o waiting
    BY <1>1, <1>2, <2>1, MoveAcross
  <2> QED BY <1>1, <1>5, <2>2 DEF s, accepts, Chans
<1>7. waiting' \in Seq(Channels)
  BY <1>1, <1>2
<1>8. HeldRefs' /\ Distinct' /\ ServerRefs'
  BY <1>1, <1>5, <1>6, <1>7, SameAccepts
<1>9. TypeOK'
  BY <1>1, <1>4, <1>5, <1>7 DEF TypeOK, Results
<1> QED BY <1>1, <1>8, <1>9 DEF Closed

\* close() ends the accepts that wait with an error.
LEMMA CloseStep == Inv /\ Close => Inv'
<1> SUFFICES ASSUME Inv, Close PROVE Inv'
  OBVIOUS
<1> USE DEF Inv, kernelVars
<1>1. /\ completed' = completed \o [i \in DOMAIN waiting |-> Error(waiting[i])]
      /\ waiting' = <<>> /\ backlog' = <<>> /\ isOpen' = FALSE
      /\ UNCHANGED <<owned, listens, serverRefs, channel, channelRefs, served, away>>
  BY DEF Close
<1>2. completed \in Seq(Results) /\ waiting \in Seq(Channels)
  BY AcceptsType
<1>3. completed' \in Seq(Results) /\ Chans(completed') = Chans(completed) \o waiting
  BY <1>1, <1>2, ChansErrors
<1>4. Chans(completed') \o <<>> = Chans(completed')
  BY <1>3, ChansType
<1>5. accepts' = accepts /\ waiting' \in Seq(Channels) /\ backlog' \in Seq(Clients)
  <2>1. accepts' = Chans(completed') \o waiting'
    BY DEF accepts, Chans
  <2>2. accepts' = accepts
    BY <1>1, <1>3, <1>4, <2>1 DEF accepts
  <2>3. <<>> \in Seq(Channels) /\ <<>> \in Seq(Clients)
    OBVIOUS
  <2> QED BY <1>1, <2>2, <2>3
<1>6. HeldRefs' /\ Distinct' /\ ServerRefs'
  BY <1>1, <1>3, <1>5, SameAccepts
<1>7. TypeOK'
  BY <1>1, <1>3, <1>5 DEF TypeOK, Results
<1> QED BY <1>1, <1>6, <1>7 DEF Closed

\* The last reference goes with the owner only when no accept waits.
LEMMA ReleaseStep == Inv /\ Release => Inv'
<1> SUFFICES ASSUME Inv, Release PROVE Inv'
  OBVIOUS
<1> USE DEF Inv, kernelVars
<1>1. /\ owned /\ owned' = FALSE /\ serverRefs' = serverRefs - 1
      /\ isOpen' = (isOpen /\ serverRefs > 1)
      /\ backlog' = IF serverRefs > 1 THEN backlog ELSE <<>>
      /\ UNCHANGED <<listens, waiting, completed, channel, channelRefs, served, away>>
  BY DEF Release
<1>2. /\ serverRefs = listens + 1 /\ listens \in Nat /\ listens \in 0..MaxListens
      /\ Len(waiting) + Len(completed) = listens
      /\ completed \in Seq(Results) /\ waiting \in Seq(Channels)
  BY <1>1, AcceptsType DEF ServerRefs, TypeOK
<1>3. serverRefs' = listens /\ serverRefs' \in Nat
  BY <1>1, <1>2
<1>4. serverRefs > 1 \/ waiting = <<>>
  <2>1. CASE listens = 0
    <3>1. Len(waiting) = 0
      BY <1>2, <2>1
    <3> QED BY <1>2, <3>1
  <2>2. CASE listens # 0
    BY <1>2, <2>2
  <2> QED BY <2>1, <2>2
<1>5. Closed'
  BY <1>1, <1>4 DEF Closed
<1>6. HeldRefs' /\ Distinct'
  BY <1>1, SameChannels
<1>7. ServerRefs'
  BY <1>1, <1>2, <1>3 DEF ServerRefs
<1>8. backlog' \in Seq(Clients)
  BY <1>1 DEF TypeOK
<1>9. TypeOK'
  BY <1>1, <1>2, <1>3, <1>8 DEF TypeOK
<1> QED BY <1>5, <1>6, <1>7, <1>9

\* A channel ends: its references go with its socket and its operations.
LEMMA ChannelStepStep == Inv /\ ChannelStep => Inv'
<1> SUFFICES ASSUME Inv, NEW c \in Channels, CloseChannel(c) \/ EndOperations(c)
             PROVE  Inv'
  BY DEF ChannelStep
<1> USE DEF Inv, kernelVars
<1>1. PICK state \in {"free", "closing"} :
        /\ channel[c] = IF state = "closing" THEN "connected" ELSE "closing"
        /\ channel' = [channel EXCEPT ![c] = state]
        /\ channelRefs' = [channelRefs EXCEPT
                             ![c] = IF state = "closing" THEN @ - 1 ELSE @ - Operations]
  BY DEF CloseChannel, EndOperations
<1>2. UNCHANGED <<owned, listens, serverRefs, isOpen, waiting, completed, backlog,
                  away, served>>
  BY DEF CloseChannel, EndOperations
<1>3. HeldRefs' /\ Distinct'
  BY <1>1, <1>2, OthersMove
<1>4. channel' \in [Channels -> ChannelStates] /\ DOMAIN channelRefs' = Channels
  BY <1>1 DEF TypeOK, ChannelStates
<1>5. channelRefs[c] - 1 \in Nat /\ channelRefs[c] - Operations \in Nat
  BY <1>1 DEF HeldRefs, Held, Operations
<1>6. channelRefs' \in [Channels -> Nat]
  BY <1>1, <1>5 DEF TypeOK
<1>7. TypeOK' /\ ServerRefs' /\ Closed'
  BY <1>2, <1>4, <1>6 DEF TypeOK, ServerRefs, Closed
<1> QED BY <1>3, <1>7

\* Clients only change what waits in the kernel.
LEMMA ConnectStep == ASSUME Inv, NEW client \in Clients, Connect(client) PROVE Inv'
<1> USE DEF Inv
<1>1. /\ away' = away \ {client} /\ backlog' = Append(backlog, client)
      /\ UNCHANGED <<owned, listens, serverRefs, isOpen, waiting, completed, channel,
                     channelRefs, served>>
  BY DEF Connect
<1>2. HeldRefs' /\ Distinct' /\ ServerRefs' /\ Closed'
  BY <1>1, SameChannels DEF ServerRefs, Closed
<1>3. TypeOK'
  BY <1>1 DEF TypeOK
<1> QED BY <1>2, <1>3

\* All of it holds always.
LEMMA InvCorrect == Spec => []Inv
<1>1. Init => Inv
  <2> SUFFICES ASSUME Init PROVE Inv
    OBVIOUS
  <2>1. completed = <<>> /\ waiting = <<>> /\ accepts = <<>> /\ Len(accepts) = 0
    BY DEF Init, accepts, Chans
  <2>2. TypeOK
    <3>1. <<>> \in Seq(Channels) /\ <<>> \in Seq(Clients)
          /\ <<>> \in Seq([channel : Channels, client : Clients \cup {NoClient}])
      OBVIOUS
    <3> QED BY <3>1 DEF Init, TypeOK, ChannelStates
  <2>3. ServerRefs /\ Closed /\ HeldRefs /\ Distinct
    BY <2>1 DEF Init, ServerRefs, Closed, HeldRefs, Held, Distinct
  <2> QED BY <2>2, <2>3 DEF Inv
<1>2. Inv /\ [Next]_vars => Inv'
  <2> SUFFICES ASSUME Inv, [Next]_vars PROVE Inv'
    OBVIOUS
  <2>1. CASE UNCHANGED vars
    <3>1. HeldRefs' /\ Distinct'
      BY <2>1, SameChannels DEF vars, Inv
    <3>2. TypeOK' /\ ServerRefs' /\ Closed'
      BY <2>1 DEF vars, Inv, TypeOK, ServerRefs, Closed
    <3> QED BY <3>1, <3>2 DEF Inv
  <2> QED BY <2>1, ListenStep, HandlerStep, AcceptStep, CloseStep, ReleaseStep,
             ChannelStepStep, ConnectStep DEF Next
<1> QED BY <1>1, <1>2, PTL DEF Spec

-----------------------------------------------------------------------------
(* The theorems *)

\* Every variable of the server keeps its type; no reference count ever goes
\* below zero.
THEOREM TypeCorrect == Spec => []TypeOK
<1>1. Inv => TypeOK
  BY DEF Inv
<1> QED BY <1>1, InvCorrect, PTL

\* The channels awaited are those of the accepts.
LEMMA AwaitedSet ==
  ASSUME TypeOK
  PROVE  Awaited = {accepts[i] : i \in 1..Len(accepts)}
<1>a. completed \in Seq(Results) /\ waiting \in Seq(Channels)
  BY AcceptsType
<1> DEFINE s == Chans(completed)
<1>1. s \in Seq(Channels) /\ Len(s) = Len(completed)
      /\ \A i \in 1..Len(completed) : s[i] = completed[i].channel
  BY <1>a, ChansType
<1> HIDE DEF s
<1>2. DOMAIN completed = 1..Len(s) /\ DOMAIN waiting = 1..Len(waiting)
  BY <1>a, <1>1
<1>3. Awaited = {waiting[i] : i \in 1..Len(waiting)} \cup {s[i] : i \in 1..Len(s)}
  BY <1>1, <1>2 DEF Awaited
<1>4. \A i \in 1..Len(s) : i \in 1..Len(s \o waiting) /\ (s \o waiting)[i] = s[i]
  BY <1>a, <1>1
<1>5. \A i \in 1..Len(waiting) : /\ Len(s) + i \in 1..Len(s \o waiting)
                                 /\ (s \o waiting)[Len(s) + i] = waiting[i]
  BY <1>a, <1>1
<1>6. \A i \in 1..Len(s \o waiting) :
        \/ i \in 1..Len(s) /\ (s \o waiting)[i] = s[i]
        \/ i - Len(s) \in 1..Len(waiting) /\ (s \o waiting)[i] = waiting[i - Len(s)]
  BY <1>a, <1>1
<1>7. Awaited = {(s \o waiting)[i] : i \in 1..Len(s \o waiting)}
  <2> DEFINE q == s \o waiting
  <2>1. ASSUME NEW c \in Awaited PROVE \E i \in 1..Len(q) : q[i] = c
    <3>1. CASE \E i \in 1..Len(waiting) : waiting[i] = c
      BY <1>5, <3>1, Zenon
    <3>2. CASE \E i \in 1..Len(s) : s[i] = c
      BY <1>4, <3>2, Zenon
    <3> QED BY <1>3, <3>1, <3>2, Zenon
  <2>2. ASSUME NEW i \in 1..Len(q) PROVE q[i] \in Awaited
    <3>1. CASE i \in 1..Len(s) /\ q[i] = s[i]
      BY <1>3, <3>1, Zenon
    <3>2. CASE i - Len(s) \in 1..Len(waiting) /\ q[i] = waiting[i - Len(s)]
      BY <1>3, <3>2, Zenon
    <3> QED BY <1>6, <3>1, <3>2, Zenon
  <2> HIDE DEF q
  <2>3. Awaited = {q[i] : i \in 1..Len(q)}
    BY <2>1, <2>2, Zenon
  <2> QED BY <2>3 DEF q
<1> QED BY <1>7 DEF accepts, s

\* The channels of n accepts, no two the same, are n channels.
LEMMA AwaitedCount ==
  ASSUME Inv
  PROVE  Cardinality(Awaited) = Len(waiting) + Len(completed)
<1> USE DEF Inv
<1>1. /\ completed \in Seq(Results) /\ waiting \in Seq(Channels)
      /\ Len(accepts) = Len(waiting) + Len(completed) /\ accepts \in Seq(Channels)
  BY AcceptsType
<1>2. Awaited = {accepts[i] : i \in 1..Len(accepts)}
  BY AwaitedSet
<1>3. \A i, j \in 1..Len(accepts) : accepts[i] = accepts[j] => i = j
  BY DEF Distinct
<1> DEFINE n == Len(accepts)
           f == [i \in 1..n |-> accepts[i]]
<1>4. n \in Nat
  BY <1>1
<1>5. f \in Bijection(1..n, Awaited)
  <2> HIDE DEF n
  <2> DEFINE a == accepts
  <2>1. Awaited = {a[i] : i \in 1..n} /\ \A i, j \in 1..n : a[i] = a[j] => i = j
    BY <1>2, <1>3 DEF n
  <2>2. f = [i \in 1..n |-> a[i]]
    OBVIOUS
  <2> HIDE DEF a, f
  <2>3. f \in [1..n -> Awaited] /\ \A i, j \in 1..n : f[i] = f[j] => i = j
    BY <2>1, <2>2
  <2>4. \A t \in Awaited : \E i \in 1..n : f[i] = t
    BY <2>1, <2>2
  <2> QED BY <2>3, <2>4, Fun_IsBij
<1>6. ExistsBijection(1..n, Awaited)
  BY <1>5 DEF ExistsBijection
<1> HIDE DEF n
<1>7. Cardinality(Awaited) = n
  BY <1>4, <1>6, FS_CountingElements
<1> QED BY <1>1, <1>7 DEF n

\* In whatever order accepts complete, fail for want of a descriptor or are
\* ended by close(), and the owner goes: the server has one reference for each
\* accept in progress, and each channel one for each of its holders.
THEOREM RefsCorrect == Spec => []RefsAreHolders
<1>1. Inv => RefsAreHolders
  <2> SUFFICES ASSUME Inv PROVE RefsAreHolders
    OBVIOUS
  <2>1. ASSUME NEW c \in Channels
        PROVE  channelRefs[c] = CASE channel[c] = "free" -> 0
                                  [] channel[c] = "created" -> 1
                                  [] channel[c] = "connected" -> 1 + Operations
                                  [] channel[c] = "closing" -> Operations
    <3>1. channelRefs[c] = Held(c) /\ channel[c] \in ChannelStates
      BY DEF Inv, HeldRefs, TypeOK
    <3>2. CASE channel[c] = "free"
      BY <3>1, <3>2 DEF Held
    <3>3. CASE channel[c] = "created"
      BY <3>1, <3>3 DEF Held
    <3>4. CASE channel[c] = "connected"
      BY <3>1, <3>4 DEF Held
    <3>5. CASE channel[c] = "closing"
      BY <3>1, <3>5 DEF Held
    <3> QED BY <3>1, <3>2, <3>3, <3>4, <3>5 DEF ChannelStates
  <2>2. ASSUME NEW c \in Channels PROVE channel[c] = "created" <=> c \in Awaited
    <3>1. channel[c] = "created" <=> \E i \in 1..Len(accepts) : accepts[i] = c
      BY DEF Inv, Distinct
    <3>2. Awaited = {accepts[i] : i \in 1..Len(accepts)}
      BY AwaitedSet DEF Inv
    <3> QED BY <3>1, <3>2
  <2> QED BY <2>1, <2>2, AwaitedCount DEF RefsAreHolders, ServerRefs, ChannelRefs, Inv
<1> QED BY <1>1, InvCorrect, PTL
=============================================================================
