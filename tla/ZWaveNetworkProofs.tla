------------------------- MODULE ZWaveNetworkProofs -------------------------
(***************************************************************************)
(* What holds of ZWaveNetwork for all networks, devices, POSTs and bounds, *)
(* proved with TLAPS.                                                      *)
(***************************************************************************)
EXTENDS ZWaveNetwork, SequenceTheorems, FiniteSetTheorems, TLAPS

-----------------------------------------------------------------------------
(* The inductive invariant *)

(* A set or a report has values for the members of its class only.         *)
Carries(m) == \A p \in Param \ Members[m.class] : m.values[p] = None

(* No set changes the product of a device.                                 *)
SetsAreOwn ==
    \A r \in Range(queue) : r.op = "set" =>
        r.class # MANUFACTURER_SPECIFIC /\ Carries(r)

ReportsAreOwn ==
    \A n \in Nodes : \A f \in Range(air[n]) : f.frame = "report" =>
        /\ Carries(f)
        /\ f.class = MANUFACTURER_SPECIFIC => f.values["product"] = device[n]["product"]

IsProduct(f) == f.frame = "report" /\ f.class = MANUFACTURER_SPECIFIC

(* A manufacturer that was asked for meets the object that handles it.     *)
AskedIsThere ==
    \A n \in Nodes :
        \/ GetRequest(n, MANUFACTURER_SPECIFIC) \in Range(queue)
        \/ \E f \in Range(air[n]) : IsProduct(f)
        => commands[n][MANUFACTURER_SPECIFIC] = "ManufacturerSpecificCommand"

(* A node is on its way to its table: something is under way that leads    *)
(* there, or it has it.                                                    *)
Installed(n) ==
    /\ commands[n][CONFIGURATION] = "FibaroFgr222Config"
    /\ commands[n][MANUFACTURER_PROPRIETARY] = "FibaroFgr222"
    /\ deviceName[n] = "Fibaro FGR-222"

OnTheWay(n) ==
    \/ Discover \in Range(queue)
    \/ Info(n) \in Range(queue)
    \/ NodeInfo \in Range(air[n])
    \/ GetRequest(n, MANUFACTURER_SPECIFIC) \in Range(queue)
    \/ \E f \in Range(air[n]) : IsProduct(f)
    \/ Installed(n)

Shutter(n) ==
    /\ n # Controller
    /\ MANUFACTURER_SPECIFIC \in Classes(n)
    /\ device[n]["product"] = FGR222

TableInv == lost = 0 => \A n \in Nodes : Shutter(n) => OnTheWay(n)

(* The value of p that the host will know once it has received the frames  *)
(* s is the real one: the last report in s that has p has it, or there is  *)
(* none and it is known already.                                           *)
Has(f, p) == f.frame = "report" /\ f.values[p] # None

WillBe(s, p, known, real) ==
    \/ /\ \A i \in 1..Len(s) : ~Has(s[i], p)
       /\ known = real
    \/ \E i \in 1..Len(s) :
            /\ Has(s[i], p) /\ s[i].values[p] = real
            /\ \A j \in (i+1)..Len(s) : ~Has(s[j], p)

Current(n, p) == WillBe(air[n], p, tracked[n][p], device[n][p])

(* Where an object tracks p, it is current or will be asked for.           *)
Reported == {MANUFACTURER_SPECIFIC, MANUFACTURER_PROPRIETARY}

FreshInv ==
    lost = 0 =>
        \A n \in Nodes, c \in Reported : \A p \in Members[c] :
            commands[n][c] # "none" =>
                GetRequest(n, c) \in Range(queue) \/ Current(n, p)

(* The queue is stuck behind a request that was lost.                      *)
StuckInv == stuck => lost # 0

IInv ==
    /\ TypeOK
    /\ SetsAreOwn
    /\ ReportsAreOwn
    /\ AskedIsThere
    /\ TableInv
    /\ FreshInv

-----------------------------------------------------------------------------
(* Classes, sequences *)

\* The four classes are different, and each has its members.
LEMMA ClassFacts ==
  /\ BASIC \in Class /\ CONFIGURATION \in Class
  /\ MANUFACTURER_SPECIFIC \in Class /\ MANUFACTURER_PROPRIETARY \in Class
  /\ Members[BASIC] = {"value"}
  /\ Members[CONFIGURATION] = {"slatTime"}
  /\ Members[MANUFACTURER_SPECIFIC] = {"product"}
  /\ Members[MANUFACTURER_PROPRIETARY] = {"blinds", "slat"}
  /\ \A c \in Class : Members[c] \subseteq Param
BY DEF Class, BASIC, CONFIGURATION, MANUFACTURER_SPECIFIC,
       MANUFACTURER_PROPRIETARY, Members, Param

\* Which objects there can be for the classes that a device reports.
LEMMA KindFacts ==
  /\ KindOf(MANUFACTURER_SPECIFIC) = {"none", "ManufacturerSpecificCommand"}
  /\ \A c \in Class : "ManufacturerSpecificCommand" \in KindOf(c) => c = MANUFACTURER_SPECIFIC
  /\ Reported \subseteq Class
  /\ \A c \in Reported : "ConfigCommand" \notin KindOf(c)
BY DEF KindOf, Class, BASIC, CONFIGURATION, MANUFACTURER_SPECIFIC,
       MANUFACTURER_PROPRIETARY, Reported

\* The elements of the sequences of length 0 and 1.
LEMMA ShortRange ==
  /\ Range(<<>>) = {}
  /\ \A x : Range(<<x>>) = {x}
BY DEF Range

\* The elements of a queue are its head and those of its tail.
LEMMA HeadTailRange ==
  ASSUME NEW S, NEW q \in Seq(S), q # <<>>
  PROVE  /\ Head(q) \in S /\ Tail(q) \in Seq(S)
         /\ Head(q) \in Range(q)
         /\ Range(q) = {Head(q)} \cup Range(Tail(q))
<1>1. /\ Len(q) \in Nat /\ Len(q) > 0
      /\ Head(q) = q[1] /\ Head(q) \in S
      /\ Tail(q) \in Seq(S) /\ Len(Tail(q)) = Len(q) - 1
      /\ \A i \in 1..Len(Tail(q)) : Tail(q)[i] = q[i + 1]
  OBVIOUS
<1>2. Range(q) = {q[i] : i \in 1..Len(q)}
  BY RangeEquality
<1>3. Range(Tail(q)) = {Tail(q)[i] : i \in 1..Len(Tail(q))}
  BY <1>1, RangeEquality
<1>4. ASSUME NEW x \in Range(q) PROVE x = Head(q) \/ x \in Range(Tail(q))
  <2>1. PICK i \in 1..Len(q) : x = q[i]
    BY <1>2
  <2>2. CASE i = 1
    BY <1>1, <2>1, <2>2
  <2>3. CASE i # 1
    <3>1. i - 1 \in 1..Len(Tail(q)) /\ Tail(q)[i - 1] = q[i]
      BY <1>1, <2>3
    <3> QED BY <1>3, <2>1, <3>1
  <2> QED BY <2>2, <2>3
<1>5. ASSUME NEW x \in Range(Tail(q)) PROVE x \in Range(q)
  <2>1. PICK i \in 1..Len(Tail(q)) : x = Tail(q)[i]
    BY <1>3
  <2>2. i + 1 \in 1..Len(q) /\ x = q[i + 1]
    BY <1>1, <2>1
  <2> QED BY <1>2, <2>2
<1>6. Head(q) \in Range(q)
  BY <1>1, <1>2
<1> QED BY <1>1, <1>4, <1>5, <1>6

\* Appending adds one element.
LEMMA AppendRange ==
  ASSUME NEW S, NEW q \in Seq(S), NEW x \in S
  PROVE  Append(q, x) \in Seq(S) /\ Range(Append(q, x)) = Range(q) \cup {x}
<1>1. <<x>> \in Seq(S) /\ Append(q, x) \in Seq(S)
  OBVIOUS
<1>2. Append(q, x) = q \o <<x>>
  OBVIOUS
<1>3. Range(q \o <<x>>) = Range(q) \cup Range(<<x>>)
  BY <1>1, RangeConcatenation, ZenonT(30)
<1>4. Range(<<x>>) = {x}
  BY ShortRange
<1> QED BY <1>1, <1>2, <1>3, <1>4

\* A sequence after another adds its elements.
LEMMA ConcatRange ==
  ASSUME NEW S, NEW p \in Seq(S), NEW q \in Seq(S)
  PROVE  p \o q \in Seq(S) /\ Range(p \o q) = Range(p) \cup Range(q)
<1>1. p \o q \in Seq(S)
  OBVIOUS
<1>2. Range(p \o q) = Range(p) \cup Range(q)
  BY RangeConcatenation
<1> QED BY <1>1, <1>2

\* What the objects of a node send together is what each of them sends.
LEMMA InClassOrderRange ==
  ASSUME NEW S, NEW f \in [Class -> Seq(S)]
  PROVE  /\ InClassOrder(f) \in Seq(S)
         /\ Range(InClassOrder(f)) = UNION {Range(f[k]) : k \in Class}
<1> DEFINE a == f[BASIC]
           b == f[CONFIGURATION]
           c == f[MANUFACTURER_SPECIFIC]
           d == f[MANUFACTURER_PROPRIETARY]
           ab == a \o b
           abc == ab \o c
<1>1. a \in Seq(S) /\ b \in Seq(S) /\ c \in Seq(S) /\ d \in Seq(S)
  BY ClassFacts
<1>2. InClassOrder(f) = abc \o d
  BY DEF InClassOrder
<1>3. UNION {Range(f[k]) : k \in Class} = Range(a) \cup Range(b) \cup Range(c) \cup Range(d)
  BY Zenon DEF Class
<1> HIDE DEF a, b, c, d
<1>4. ab \in Seq(S) /\ Range(ab) = Range(a) \cup Range(b)
  BY <1>1, ConcatRange
<1> HIDE DEF ab
<1>5. abc \in Seq(S) /\ Range(abc) = Range(ab) \cup Range(c)
  BY <1>1, <1>4, ConcatRange
<1> HIDE DEF abc
<1>6. abc \o d \in Seq(S) /\ Range(abc \o d) = Range(abc) \cup Range(d)
  BY <1>1, <1>5, ConcatRange
<1> QED BY <1>2, <1>3, <1>4, <1>5, <1>6

-----------------------------------------------------------------------------
(* What is sent *)

\* A get is sent for each object that has something to tell.
LEMMA SendGetFacts ==
  ASSUME NEW n \in Nodes, NEW c \in Class, NEW kind
  PROVE  /\ SendGet(n, c, kind) \in Seq(Request)
         /\ Range(SendGet(n, c, kind)) =
              IF kind \in {"none", "ConfigCommand"} THEN {} ELSE {GetRequest(n, c)}
<1>1. GetRequest(n, c) \in Request
  BY DEF GetRequest, Request
<1>2. <<>> \in Seq(Request) /\ <<GetRequest(n, c)>> \in Seq(Request)
  BY <1>1
<1>3. CASE kind \in {"none", "ConfigCommand"}
  BY <1>2, <1>3, ShortRange DEF SendGet
<1>4. CASE kind \notin {"none", "ConfigCommand"}
  BY <1>2, <1>4, ShortRange DEF SendGet
<1> QED BY <1>3, <1>4

\* The gets of all objects of a node.
LEMMA GetsFacts ==
  ASSUME NEW n \in Nodes, NEW kinds
  PROVE  LET gets == InClassOrder([c \in Class |-> SendGet(n, c, kinds[c])])
         IN /\ gets \in Seq(Request)
            /\ \A r \in Range(gets) : \E c \in Class :
                  kinds[c] \notin {"none", "ConfigCommand"} /\ r = GetRequest(n, c)
            /\ \A c \in Class : kinds[c] \notin {"none", "ConfigCommand"} =>
                   GetRequest(n, c) \in Range(gets)
<1> DEFINE f == [c \in Class |-> SendGet(n, c, kinds[c])]
<1>1. f \in [Class -> Seq(Request)]
  BY SendGetFacts
<1>2. \A c \in Class : f[c] = SendGet(n, c, kinds[c])
  OBVIOUS
<1> HIDE DEF f
<1>3. /\ InClassOrder(f) \in Seq(Request)
      /\ Range(InClassOrder(f)) = UNION {Range(f[c]) : c \in Class}
  BY <1>1, InClassOrderRange
<1>4. \A c \in Class : Range(f[c]) =
         IF kinds[c] \in {"none", "ConfigCommand"} THEN {} ELSE {GetRequest(n, c)}
  BY <1>2, SendGetFacts
<1>5. /\ \A r \in Range(InClassOrder(f)) : \E c \in Class :
            kinds[c] \notin {"none", "ConfigCommand"} /\ r = GetRequest(n, c)
      /\ \A c \in Class : kinds[c] \notin {"none", "ConfigCommand"} =>
             GetRequest(n, c) \in Range(InClassOrder(f))
  <2>1. ASSUME NEW r \in Range(InClassOrder(f))
        PROVE  \E c \in Class :
                  kinds[c] \notin {"none", "ConfigCommand"} /\ r = GetRequest(n, c)
    <3>1. PICK c \in Class : r \in Range(f[c])
      BY <1>3
    <3>2. r \in (IF kinds[c] \in {"none", "ConfigCommand"} THEN {} ELSE {GetRequest(n, c)})
      BY <1>4, <3>1
    <3> QED BY <3>2
  <2>2. ASSUME NEW c \in Class, kinds[c] \notin {"none", "ConfigCommand"}
        PROVE  GetRequest(n, c) \in Range(InClassOrder(f))
    <3>1. GetRequest(n, c) \in Range(f[c])
      BY <1>4, <2>2
    <3> QED BY <1>3, <3>1
  <2> QED BY <2>1, <2>2
<1> QED BY <1>3, <1>5 DEF f

\* A set of members of its own class, for node n; never of the product.
IsSet(r, n) ==
  /\ r \in Request /\ r.op = "set" /\ r.node = n
  /\ r.class # MANUFACTURER_SPECIFIC /\ Carries(r)

\* A set that has values of its own class only is one that a POST may make.
LEMMA SetFacts ==
  ASSUME NEW n \in Nodes, NEW c \in Class \ {MANUFACTURER_SPECIFIC},
         NEW f \in Values, \A p \in Param \ Members[c] : f[p] = None
  PROVE  IsSet(SetRequest(n, c, f), n)
BY DEF IsSet, SetRequest, Request, Carries

\* The request that a POST makes of an object sets members of its class.
LEMMA SendSetFacts ==
  ASSUME NEW n \in Nodes, NEW kind, NEW post \in Posts
  PROVE  /\ SendSet(n, kind, post) \in Seq(Request)
         /\ \A r \in Range(SendSet(n, kind, post)) : IsSet(r, n)
<1>0. /\ Nothing \in Values
      /\ \A p \in Param : Nothing[p] = None
      /\ \A p \in PostParam : post[p] \in Optional
      /\ 0 \in Optional /\ 1 \in Optional /\ 255 \in Optional
  BY ValuesAssumption DEF Nothing, Values, Optional
<1>1. ASSUME NEW s, s = <<>> \/ \E r : s = <<r>> /\ IsSet(r, n)
      PROVE  s \in Seq(Request) /\ \A r \in Range(s) : IsSet(r, n)
  <2>1. CASE s = <<>>
    BY <2>1, ShortRange
  <2>2. CASE \E r : s = <<r>> /\ IsSet(r, n)
    <3>1. PICK r : s = <<r>> /\ IsSet(r, n)
      BY <2>2
    <3>2. r \in Request
      BY <3>1 DEF IsSet
    <3>3. Range(s) = {r}
      BY <3>1, ShortRange
    <3>4. s \in Seq(Request)
      BY <3>1, <3>2
    <3> QED BY <3>1, <3>3, <3>4
  <2> QED BY <1>1, <2>1, <2>2
<1>2. SetBasic(n, post) = <<>> \/ \E r : SetBasic(n, post) = <<r>> /\ IsSet(r, n)
  <2> DEFINE value == IF post["dim"] # None THEN post["dim"]
                      ELSE IF post["state"] = 0 THEN 0 ELSE 255
             f == [Nothing EXCEPT !["value"] = value]
  <2>1. value \in Optional
    BY <1>0 DEF PostParam
  <2>2. f \in Values /\ \A p \in Param \ Members[BASIC] : f[p] = None
    BY <1>0, <2>1, ClassFacts DEF Values
  <2>3. BASIC \in Class \ {MANUFACTURER_SPECIFIC}
    BY DEF Class, BASIC, MANUFACTURER_SPECIFIC
  <2>4. IsSet(SetRequest(n, BASIC, f), n)
    BY <2>2, <2>3, SetFacts, ZenonT(30)
  <2> QED BY <2>4 DEF SetBasic
<1>3. SetConfig(n, post) = <<>> \/ \E r : SetConfig(n, post) = <<r>> /\ IsSet(r, n)
  <2> DEFINE f == [Nothing EXCEPT !["slatTime"] = post["config.slatTime"]]
  <2>1. f \in Values /\ \A p \in Param \ Members[CONFIGURATION] : f[p] = None
    BY <1>0, ClassFacts DEF Values, PostParam
  <2>2. CONFIGURATION \in Class \ {MANUFACTURER_SPECIFIC}
    BY DEF Class, CONFIGURATION, MANUFACTURER_SPECIFIC
  <2>3. IsSet(SetRequest(n, CONFIGURATION, f), n)
    BY <2>1, <2>2, SetFacts
  <2>4. IsSet(SetRequest(n, CONFIGURATION, Nothing), n)
    BY <1>0, <2>2, SetFacts
  <2> QED BY <2>3, <2>4 DEF SetConfig
<1>4. SetFibaro(n, post) = <<>> \/ \E r : SetFibaro(n, post) = <<r>> /\ IsSet(r, n)
  <2> DEFINE blinds == post["position.blinds"]
             slat == post["position.slat"]
             lifted == IF blinds = 0 /\ slat > 0 THEN 1 ELSE blinds
             f == [Nothing EXCEPT !["blinds"] = lifted, !["slat"] = slat]
  <2>1. lifted \in Optional /\ slat \in Optional
    BY <1>0 DEF PostParam
  <2>2. f \in Values /\ \A p \in Param \ Members[MANUFACTURER_PROPRIETARY] : f[p] = None
    BY <1>0, <2>1, ClassFacts DEF Values
  <2>3. MANUFACTURER_PROPRIETARY \in Class \ {MANUFACTURER_SPECIFIC}
    BY DEF Class, MANUFACTURER_PROPRIETARY, MANUFACTURER_SPECIFIC
  <2>4. IsSet(SetRequest(n, MANUFACTURER_PROPRIETARY, f), n)
    BY <2>2, <2>3, SetFacts
  <2> QED BY <2>4 DEF SetFibaro
<1>5. \/ SendSet(n, kind, post) = <<>>
      \/ \E r : SendSet(n, kind, post) = <<r>> /\ IsSet(r, n)
  BY <1>2, <1>3, <1>4 DEF SendSet
<1> QED BY <1>1, <1>5

\* The requests that a POST makes of a node.
LEMMA SetsFacts ==
  ASSUME NEW n \in Nodes, NEW kinds, NEW post \in Posts
  PROVE  LET sets == InClassOrder([c \in Class |-> SendSet(n, kinds[c], post)])
         IN sets \in Seq(Request) /\ \A r \in Range(sets) : IsSet(r, n)
<1> DEFINE f == [c \in Class |-> SendSet(n, kinds[c], post)]
<1>1. f \in [Class -> Seq(Request)]
  BY SendSetFacts
<1>2. \A c \in Class : f[c] = SendSet(n, kinds[c], post)
  OBVIOUS
<1> HIDE DEF f
<1>3. /\ InClassOrder(f) \in Seq(Request)
      /\ Range(InClassOrder(f)) = UNION {Range(f[c]) : c \in Class}
  BY <1>1, InClassOrderRange
<1>4. \A c \in Class : \A r \in Range(f[c]) : IsSet(r, n)
  BY <1>2, SendSetFacts
<1>5. \A r \in Range(InClassOrder(f)) : IsSet(r, n)
  BY <1>3, <1>4
<1> QED BY <1>3, <1>5 DEF f

-----------------------------------------------------------------------------
(* What is under way *)

\* What the host will know after one more frame: the value in it, or, when
\* it has none, what it would know without it.
LEMMA WillBeAppended ==
  ASSUME NEW s \in Seq(Frame), NEW f \in Frame, NEW p, NEW known, NEW real,
         \/ Has(f, p) /\ f.values[p] = real
         \/ ~Has(f, p) /\ WillBe(s, p, known, real)
  PROVE  WillBe(Append(s, f), p, known, real)
<1> DEFINE t == Append(s, f)
<1>1. /\ Len(s) \in Nat /\ Len(t) = Len(s) + 1 /\ t[Len(t)] = f
      /\ \A i \in 1..Len(s) : t[i] = s[i]
  OBVIOUS
<1> HIDE DEF t
<1>2. CASE Has(f, p) /\ f.values[p] = real
  <2>1. /\ Len(t) \in 1..Len(t)
        /\ Has(t[Len(t)], p) /\ t[Len(t)].values[p] = real
        /\ \A j \in (Len(t) + 1)..Len(t) : ~Has(t[j], p)
    BY <1>1, <1>2
  <2>2. WillBe(t, p, known, real)
    BY <2>1 DEF WillBe
  <2> QED BY <2>2 DEF t
<1>3. CASE ~Has(f, p) /\ WillBe(s, p, known, real)
  <2>1. CASE (\A i \in 1..Len(s) : ~Has(s[i], p)) /\ known = real
    <3>1. ASSUME NEW i \in 1..Len(t) PROVE ~Has(t[i], p)
      BY <1>1, <1>3, <2>1
    <3>2. WillBe(t, p, known, real)
      BY <2>1, <3>1 DEF WillBe
    <3> QED BY <3>2 DEF t
  <2>2. ASSUME NEW i \in 1..Len(s), Has(s[i], p), s[i].values[p] = real,
               \A j \in (i+1)..Len(s) : ~Has(s[j], p)
        PROVE  WillBe(t, p, known, real)
    <3>1. i \in 1..Len(t) /\ t[i] = s[i]
      BY <1>1
    <3>2. ASSUME NEW j \in (i+1)..Len(t) PROVE ~Has(t[j], p)
      BY <1>1, <1>3, <2>2
    <3> QED BY <2>2, <3>1, <3>2 DEF WillBe
  <2> QED BY <1>3, <2>1, <2>2 DEF WillBe, t
<1> QED BY <1>2, <1>3

\* Receiving a frame as the command objects do leaves what will be known.
LEMMA WillBeReceived ==
  ASSUME NEW s \in Seq(Frame), s # <<>>, NEW p, NEW known, NEW new, NEW real,
         WillBe(s, p, known, real),
         new = IF Has(Head(s), p) THEN Head(s).values[p] ELSE known
  PROVE  WillBe(Tail(s), p, new, real)
<1> DEFINE t == Tail(s)
<1>1. /\ Len(s) \in Nat /\ Len(s) > 0 /\ Len(t) = Len(s) - 1 /\ Head(s) = s[1]
      /\ \A i \in 1..Len(t) : t[i] = s[i + 1]
  OBVIOUS
<1> HIDE DEF t
<1>2. CASE (\A i \in 1..Len(s) : ~Has(s[i], p)) /\ known = real
  <2>1. ~Has(Head(s), p)
    BY <1>1, <1>2
  <2>2. ASSUME NEW i \in 1..Len(t) PROVE ~Has(t[i], p)
    <3>1. i + 1 \in 1..Len(s) /\ t[i] = s[i + 1]
      BY <1>1
    <3> QED BY <1>2, <3>1
  <2> QED BY <1>2, <2>1, <2>2 DEF WillBe, t
<1>3. ASSUME NEW i \in 1..Len(s), Has(s[i], p), s[i].values[p] = real,
             \A j \in (i+1)..Len(s) : ~Has(s[j], p)
      PROVE  WillBe(t, p, new, real)
  <2>1. ASSUME NEW k \in 1..Len(t), k > i - 1 PROVE ~Has(t[k], p)
    <3>1. k + 1 \in (i+1)..Len(s) /\ t[k] = s[k + 1]
      BY <1>1, <2>1
    <3> QED BY <1>3, <3>1
  <2>2. CASE i = 1
    <3>1. new = real
      BY <1>1, <1>3, <2>2
    <3>2. \A k \in 1..Len(t) : ~Has(t[k], p)
      BY <1>1, <2>1, <2>2
    <3> QED BY <3>1, <3>2 DEF WillBe
  <2>3. CASE i # 1
    <3>1. i - 1 \in 1..Len(t) /\ t[i - 1] = s[i]
      BY <1>1, <2>3
    <3>2. \A k \in ((i - 1) + 1)..Len(t) : ~Has(t[k], p)
      BY <1>1, <2>1
    <3> QED BY <1>3, <3>1, <3>2 DEF WillBe
  <2> QED BY <2>2, <2>3
<1> QED BY <1>2, <1>3 DEF WillBe, t

-----------------------------------------------------------------------------
(* The bounds *)

\* A counter below its bound may be increased.
LEMMA BoundsFacts ==
  ASSUME TypeOK
  PROVE  /\ posts < MaxPosts => posts + 1 \in 0..MaxPosts
         /\ events < MaxEvents => events + 1 \in 0..MaxEvents
         /\ lost + repeats < MaxFaults =>
               lost + 1 \in (0..MaxFaults) \ {0} /\ repeats + 1 \in 0..MaxFaults
<1>1. MaxPosts \in Nat /\ MaxEvents \in Nat /\ MaxFaults \in Nat
  BY BoundsAssumption
<1>2. /\ posts \in 0..MaxPosts /\ events \in 0..MaxEvents
      /\ lost \in 0..MaxFaults /\ repeats \in 0..MaxFaults
  BY DEF TypeOK
<1> QED BY <1>1, <1>2

-----------------------------------------------------------------------------
(* The nodes' actions *)

\* Node n sends the frame f.
Told(n, f) == air' = [air EXCEPT ![n] = Append(@, f)]

\* The frame comes last in what is under way from n.
LEMMA ToldFacts ==
  ASSUME TypeOK, NEW n \in Nodes, NEW f \in Frame, Told(n, f)
  PROVE  /\ air' \in [Nodes -> Seq(Frame)]
         /\ air'[n] = Append(air[n], f)
         /\ Range(air'[n]) = Range(air[n]) \cup {f}
         /\ \A m \in Nodes \ {n} : air'[m] = air[m]
<1>1. air \in [Nodes -> Seq(Frame)] /\ air[n] \in Seq(Frame)
  BY DEF TypeOK
<1>2. Append(air[n], f) \in Seq(Frame) /\ Range(Append(air[n], f)) = Range(air[n]) \cup {f}
  BY <1>1, AppendRange
<1> QED BY <1>1, <1>2 DEF Told

\* Of each node the frames under way remain; n's new one is added.
LEMMA HeardFacts ==
  ASSUME TypeOK, NEW n \in Nodes, NEW g \in Frame, Told(n, g)
  PROVE  \A m \in Nodes :
            /\ Range(air[m]) \subseteq Range(air'[m])
            /\ \A f \in Range(air'[m]) : f \in Range(air[m]) \/ (m = n /\ f = g)
<1> SUFFICES ASSUME NEW m \in Nodes
             PROVE  /\ Range(air[m]) \subseteq Range(air'[m])
                    /\ \A f \in Range(air'[m]) : f \in Range(air[m]) \/ (m = n /\ f = g)
  OBVIOUS
<1>1. /\ Range(air'[n]) = Range(air[n]) \cup {g}
      /\ \A k \in Nodes \ {n} : air'[k] = air[k]
  BY ToldFacts
<1>2. CASE m = n
  BY <1>1, <1>2
<1>3. CASE m # n
  BY <1>1, <1>3
<1> QED BY <1>2, <1>3

\* What a node does with a request: an information frame, a report of what it
\* is set to, or a change that it may report.
LEMMA CarryOutFacts ==
  ASSUME TypeOK, NEW r \in Request, r.op # "discover", CarryOut(r)
  PROVE  /\ r.node \in Nodes
         /\ \/ r = Info(r.node) /\ Told(r.node, NodeInfo) /\ device' = device
            \/ /\ r.op = "get" /\ r.class \in Class /\ r = GetRequest(r.node, r.class)
               /\ Told(r.node, Report(r.class, Only(device[r.node], Members[r.class])))
               /\ device' = device
            \/ /\ r.op = "set" /\ r.class \in Class /\ r.values \in Values
               /\ device' = [device EXCEPT ![r.node] = Update(@, r.values)]
               /\ \/ air' = air /\ r.class # MANUFACTURER_PROPRIETARY
                  \/ Told(r.node, Report(r.class, r.values))
<1> DEFINE n == r.node
<1>1. /\ r.op \in {"info", "get", "set"} /\ n \in Nodes
      /\ r.op = "info" => r = Info(n)
      /\ r.op = "get" => r.class \in Class /\ r = GetRequest(n, r.class)
      /\ r.op = "set" => r.class \in Class /\ r.values \in Values
  BY DEF Request, Discover, Info, GetRequest
<1>2. air \in [Nodes -> Seq(Frame)]
  BY DEF TypeOK
<1>3. PICK answer \in Answer(r) : air' = [air EXCEPT ![n] = @ \o answer]
  BY DEF CarryOut
<1>4. ASSUME NEW f \in Frame, answer = <<f>> PROVE Told(n, f)
  <2>1. air[n] \in Seq(Frame)
    BY <1>1, <1>2
  <2>2. air[n] \o <<f>> = Append(air[n], f)
    BY <2>1, AppendIsConcat
  <2> QED BY <1>3, <1>4, <2>2 DEF Told
<1>5. answer = <<>> => air' = air
  BY <1>1, <1>2, <1>3
<1>6. CASE r.op = "info"
  <2>1. answer = <<NodeInfo>>
    BY <1>3, <1>6 DEF Answer
  <2>2. NodeInfo \in Frame
    BY DEF Frame
  <2> QED BY <1>1, <1>4, <1>6, <2>1, <2>2 DEF CarryOut
<1>7. CASE r.op = "get"
  <2> DEFINE f == Report(r.class, Only(device[n], Members[r.class]))
  <2>1. answer = <<f>>
    BY <1>3, <1>7 DEF Answer
  <2>2. device[n] \in [Param -> Nat]
    BY <1>1 DEF TypeOK
  <2>3. f \in Frame
    BY <1>1, <1>7, <2>2 DEF Frame, Report, Only, Values, Optional
  <2>4. Told(n, f)
    BY <1>4, <2>1, <2>3
  <2> QED BY <1>1, <1>7, <2>4 DEF CarryOut
<1>8. CASE r.op = "set"
  <2> DEFINE f == Report(r.class, r.values)
  <2>1. f \in Frame
    BY <1>1, <1>8 DEF Frame, Report
  <2>2. answer = <<>> \/ answer = <<f>>
    BY <1>3, <1>8 DEF Answer
  <2>3. r.class = MANUFACTURER_PROPRIETARY => answer = <<f>>
    BY <1>3, <1>8 DEF Answer, BASIC, MANUFACTURER_PROPRIETARY
  <2>4. answer = <<f>> => Told(n, f)
    BY <1>4, <2>1
  <2>5. (air' = air /\ r.class # MANUFACTURER_PROPRIETARY) \/ Told(n, f)
    BY <1>5, <2>2, <2>3, <2>4
  <2>6. device' = [device EXCEPT ![n] = Update(@, r.values)]
    BY <1>8 DEF CarryOut
  <2> QED BY <1>1, <1>8, <2>5, <2>6
<1> QED BY <1>1, <1>6, <1>7, <1>8

\* An update with the values of members of one class leaves the others.
LEMMA UpdateFacts ==
  ASSUME NEW old \in [Param -> Nat], NEW f \in Values
  PROVE  /\ Update(old, f) \in [Param -> Nat]
         /\ \A p \in Param : f[p] = None => Update(old, f)[p] = old[p]
         /\ \A p \in Param : f[p] # None => Update(old, f)[p] = f[p]
BY DEF Update, Values, Optional

\* A node carries out the front request, which then leaves the queue or,
\* when it is repeated, does not.
LEMMA CarryOutStep ==
  ASSUME IInv, queue # <<>>, Head(queue).op # "discover", CarryOut(Head(queue)),
         queue' \in {queue, Tail(queue)}, lost' = lost, repeats' \in 0..MaxFaults
  PROVE  IInv'
<1> DEFINE r == Head(queue)
           n == r.node
<1>1. /\ r \in Request /\ r \in Range(queue) /\ queue' \in Seq(Request)
      /\ Range(queue') \subseteq Range(queue)
      /\ \A q \in Range(queue) : q = r \/ q \in Range(queue')
  <2>1. queue \in Seq(Request)
    BY DEF IInv, TypeOK
  <2>2. /\ r \in Request /\ Tail(queue) \in Seq(Request) /\ r \in Range(queue)
        /\ Range(queue) = {r} \cup Range(Tail(queue))
    BY <2>1, HeadTailRange
  <2> QED BY <2>1, <2>2
<1>2. /\ TypeOK
      /\ UNCHANGED <<stuck, commands, tracked, deviceName, posts, events>>
  BY DEF IInv, CarryOut, hostVars
<1>3. /\ n \in Nodes
      /\ \/ r = Info(n) /\ Told(n, NodeInfo) /\ device' = device
         \/ /\ r.op = "get" /\ r.class \in Class /\ r = GetRequest(n, r.class)
            /\ Told(n, Report(r.class, Only(device[n], Members[r.class])))
            /\ device' = device
         \/ /\ r.op = "set" /\ r.class \in Class /\ r.values \in Values
            /\ device' = [device EXCEPT ![n] = Update(@, r.values)]
            /\ \/ air' = air /\ r.class # MANUFACTURER_PROPRIETARY
               \/ Told(n, Report(r.class, r.values))
  BY <1>1, <1>2, CarryOutFacts
<1>4. r.op = "set" => r.class # MANUFACTURER_SPECIFIC /\ Carries(r)
  BY <1>1 DEF IInv, SetsAreOwn
<1>5. /\ device \in [Nodes -> [Param -> Nat]] /\ tracked \in [Nodes -> [Param -> Nat]]
      /\ air \in [Nodes -> Seq(Frame)]
  BY <1>2 DEF TypeOK
<1> DEFINE report == IF r.op = "get"
                     THEN Report(r.class, Only(device[n], Members[r.class]))
                     ELSE Report(r.class, r.values)
<1>6. \/ /\ r = Info(n) /\ Told(n, NodeInfo) /\ device' = device
      \/ /\ r.op \in {"get", "set"} /\ report \in Frame /\ r.class \in Class
         /\ report.frame = "report" /\ report.class = r.class /\ Carries(report)
         /\ r.op = "get" => /\ r = GetRequest(n, r.class) /\ device' = device
                            /\ \A p \in Members[r.class] : report.values[p] = device[n][p]
         /\ r.op = "set" => /\ report.values = r.values
                            /\ device' = [device EXCEPT ![n] = Update(@, r.values)]
                            /\ r.class # MANUFACTURER_SPECIFIC
         /\ \/ Told(n, report)
            \/ air' = air /\ r.op = "set" /\ r.class # MANUFACTURER_PROPRIETARY
  <2>1. CASE r.op = "get"
    <3>1. report = Report(r.class, Only(device[n], Members[r.class]))
      BY <2>1
    <3>2. r.class \in Class /\ Members[r.class] \subseteq Param
      BY <1>3, <2>1, ClassFacts DEF Info
    <3>3. Only(device[n], Members[r.class]) \in Values
      BY <1>3, <1>5 DEF Only, Values, Optional
    <3>4. report \in Frame
      BY <3>1, <3>2, <3>3 DEF Report, Frame
    <3>5. Carries(report) /\ \A p \in Members[r.class] : report.values[p] = device[n][p]
      BY <3>1, <3>2 DEF Carries, Report, Only
    <3> QED BY <1>3, <2>1, <3>1, <3>2, <3>4, <3>5 DEF Report, Info
  <2>2. CASE r.op = "set"
    <3>1. report = Report(r.class, r.values)
      BY <2>2
    <3>2. r.class \in Class /\ r.values \in Values
      BY <1>3, <2>2 DEF Info, GetRequest
    <3>3. report \in Frame
      BY <3>1, <3>2 DEF Report, Frame
    <3>4. Carries(report)
      BY <1>4, <2>2, <3>1 DEF Carries, Report
    <3> QED BY <1>3, <1>4, <2>2, <3>1, <3>2, <3>3, <3>4 DEF Report, Info, GetRequest
  <2> QED BY <1>3, <2>1, <2>2
<1> HIDE DEF report
<1>7. NodeInfo \in Frame /\ NodeInfo.frame # "report"
  BY DEF NodeInfo, Frame
<1>8. /\ air' \in [Nodes -> Seq(Frame)]
      /\ \A m \in Nodes : Range(air[m]) \subseteq Range(air'[m])
      /\ \A m \in Nodes : \A f \in Range(air'[m]) :
            \/ f \in Range(air[m]) \/ f = NodeInfo
            \/ m = n /\ f = report /\ r.op \in {"get", "set"}
  <2>1. CASE r = Info(n) /\ Told(n, NodeInfo)
    <3>1. air' \in [Nodes -> Seq(Frame)]
      BY <1>2, <1>3, <1>7, <2>1, ToldFacts
    <3>2. \A m \in Nodes :
             /\ Range(air[m]) \subseteq Range(air'[m])
             /\ \A f \in Range(air'[m]) : f \in Range(air[m]) \/ (m = n /\ f = NodeInfo)
      BY <1>2, <1>3, <1>7, <2>1, HeardFacts
    <3> QED BY <3>1, <3>2
  <2>2. CASE r.op \in {"get", "set"} /\ report \in Frame /\ Told(n, report)
    <3>1. air' \in [Nodes -> Seq(Frame)]
      BY <1>2, <1>3, <2>2, ToldFacts
    <3>2. \A m \in Nodes :
             /\ Range(air[m]) \subseteq Range(air'[m])
             /\ \A f \in Range(air'[m]) : f \in Range(air[m]) \/ (m = n /\ f = report)
      BY <1>2, <1>3, <2>2, HeardFacts
    <3> QED BY <2>2, <3>1, <3>2
  <2>3. CASE air' = air
    BY <1>5, <2>3
  <2> QED BY <1>6, <2>1, <2>2, <2>3
<1>9. /\ device' \in [Nodes -> [Param -> Nat]]
      /\ \A m \in Nodes : device'[m]["product"] = device[m]["product"]
  <2>1. CASE device' = device
    BY <1>5, <2>1
  <2>2. CASE r.op = "set" /\ device' = [device EXCEPT ![n] = Update(@, r.values)]
    <3>1. r.values \in Values
      BY <1>3, <2>2 DEF Info, GetRequest
    <3>2. r.values["product"] = None
      BY <1>3, <1>4, <2>2, ClassFacts DEF Carries, Param, Class, Info, GetRequest
    <3>3. /\ Update(device[n], r.values) \in [Param -> Nat]
          /\ Update(device[n], r.values)["product"] = device[n]["product"]
      BY <1>3, <1>5, <3>1, <3>2, UpdateFacts DEF Param
    <3> QED BY <1>3, <1>5, <2>2, <3>3
  <2> QED BY <1>3, <2>1, <2>2
<1>10. TypeOK'
  BY <1>1, <1>2, <1>8, <1>9 DEF TypeOK, IInv
<1>11. SetsAreOwn'
  BY <1>1 DEF IInv, SetsAreOwn, Carries
<1>12. ReportsAreOwn'
  <2>1. report.class = MANUFACTURER_SPECIFIC /\ r.op \in {"get", "set"}
          => report.values["product"] = device[n]["product"]
    BY <1>6, ClassFacts DEF Info
  <2> QED BY <1>3, <1>6, <1>7, <1>8, <1>9, <2>1 DEF IInv, ReportsAreOwn, Carries, Info
<1>13. AskedIsThere'
  <2>1. IsProduct(report) /\ r.op \in {"get", "set"}
          => GetRequest(n, MANUFACTURER_SPECIFIC) \in Range(queue)
    BY <1>1, <1>6 DEF IsProduct, Info
  <2> QED BY <1>1, <1>2, <1>3, <1>7, <1>8, <2>1 DEF IInv, AskedIsThere, IsProduct
<1>14. TableInv'
  <2> SUFFICES ASSUME lost = 0, NEW m \in Nodes, Shutter(m)'
               PROVE  OnTheWay(m)'
    BY DEF TableInv
  <2>1. Shutter(m)
    BY <1>9 DEF Shutter, Classes, Header
  <2>2. OnTheWay(m)
    BY <2>1 DEF IInv, TableInv
  <2>3. CASE Discover \in Range(queue)
    BY <1>1, <2>3 DEF OnTheWay, Discover
  <2>4. CASE Info(m) \in Range(queue)
    <3>1. CASE Info(m) = r
      <4>1. m = n /\ Told(n, NodeInfo)
        BY <1>6, <3>1 DEF Info
      <4>2. Range(air'[n]) = Range(air[n]) \cup {NodeInfo}
        BY <1>2, <1>3, <1>7, <4>1, ToldFacts
      <4>3. NodeInfo \in Range(air'[m])
        BY <4>1, <4>2
      <4> QED BY <4>3 DEF OnTheWay
    <3> QED BY <1>1, <2>4, <3>1 DEF OnTheWay
  <2>5. CASE NodeInfo \in Range(air[m])
    BY <1>8, <2>5 DEF OnTheWay
  <2>6. CASE GetRequest(m, MANUFACTURER_SPECIFIC) \in Range(queue)
    <3>1. CASE GetRequest(m, MANUFACTURER_SPECIFIC) = r
      <4>1. m = n /\ Told(n, report) /\ IsProduct(report) /\ report \in Frame
        BY <1>6, <3>1 DEF GetRequest, Info, IsProduct
      <4>2. Range(air'[n]) = Range(air[n]) \cup {report}
        BY <1>2, <1>3, <4>1, ToldFacts
      <4>3. report \in Range(air'[m])
        BY <4>1, <4>2
      <4> QED BY <4>1, <4>3 DEF OnTheWay
    <3> QED BY <1>1, <2>6, <3>1 DEF OnTheWay
  <2>7. CASE \E f \in Range(air[m]) : IsProduct(f)
    BY <1>8, <2>7 DEF OnTheWay
  <2>8. CASE Installed(m)
    BY <1>2, <2>8 DEF OnTheWay, Installed
  <2> QED BY <2>2, <2>3, <2>4, <2>5, <2>6, <2>7, <2>8 DEF OnTheWay
<1>15. FreshInv'
  <2> SUFFICES ASSUME lost = 0, NEW m \in Nodes, NEW c \in Reported,
                      NEW p \in Members[c], commands[m][c] # "none",
                      GetRequest(m, c) \notin Range(queue')
               PROVE  Current(m, p)'
    BY <1>2 DEF FreshInv
  <2>1. /\ c \in Class /\ p \in Param
        /\ p \in {"product", "blinds", "slat"}
        /\ c = (IF p = "product" THEN MANUFACTURER_SPECIFIC ELSE MANUFACTURER_PROPRIETARY)
    BY ClassFacts DEF Reported, Param
  <2>2. GetRequest(m, c) = r \/ Current(m, p)
    BY <1>1 DEF IInv, FreshInv
  <2>3. air[m] \in Seq(Frame) /\ tracked'[m][p] = tracked[m][p]
    BY <1>2, <1>5
  <2>4. CASE m # n
    <3>1. air'[m] = air[m] /\ device'[m] = device[m]
      BY <1>2, <1>3, <1>5, <1>6, <1>7, <2>4, ToldFacts
    <3>2. GetRequest(m, c) # r
      BY <2>4 DEF GetRequest
    <3> QED BY <2>2, <2>3, <3>1, <3>2 DEF Current
  <2>5. CASE m = n /\ r = Info(n)
    <3>1. Told(n, NodeInfo) /\ device' = device
      BY <1>6, <2>5 DEF Info
    <3>2. GetRequest(m, c) # r
      BY <2>5 DEF GetRequest, Info
    <3>3. WillBe(Append(air[m], NodeInfo), p, tracked[m][p], device[m][p])
      BY <1>7, <2>2, <2>3, <3>2, WillBeAppended DEF Current, Has
    <3>4. air'[m] = Append(air[m], NodeInfo)
      BY <1>2, <1>3, <1>7, <2>5, <3>1, ToldFacts
    <3> QED BY <1>2, <3>1, <3>3, <3>4 DEF Current
  <2>6. CASE m = n /\ r.op = "get"
    <3>1. /\ Told(n, report) /\ device' = device /\ report \in Frame
          /\ report.frame = "report" /\ report.class = r.class /\ Carries(report)
          /\ r.class \in Class
          /\ \A q \in Members[r.class] : report.values[q] = device[n][q]
          /\ r = GetRequest(n, r.class)
      BY <1>6, <2>6 DEF Info
    <3>2. device[m][p] # None
      BY <1>5, <2>1 DEF None
    <3>3. CASE r.class = c
      <4>1. Has(report, p) /\ report.values[p] = device[m][p]
        BY <2>6, <3>1, <3>2, <3>3 DEF Has
      <4>2. WillBe(Append(air[m], report), p, tracked[m][p], device[m][p])
        BY <2>3, <3>1, <4>1, WillBeAppended
      <4>3. air'[m] = Append(air[m], report)
        BY <1>2, <1>3, <2>6, <3>1, ToldFacts
      <4> QED BY <1>2, <3>1, <4>2, <4>3 DEF Current
    <3>4. CASE r.class # c
      <4>1. p \notin Members[r.class]
        BY <2>1, <3>1, <3>4, ClassFacts DEF Class
      <4>2. ~Has(report, p)
        BY <2>1, <3>1, <4>1 DEF Has, Carries
      <4>3. GetRequest(m, c) # r
        BY <3>4 DEF GetRequest
      <4>4. WillBe(Append(air[m], report), p, tracked[m][p], device[m][p])
        BY <2>2, <2>3, <3>1, <4>2, <4>3, WillBeAppended DEF Current
      <4>5. air'[m] = Append(air[m], report)
        BY <1>2, <1>3, <2>6, <3>1, ToldFacts
      <4> QED BY <1>2, <3>1, <4>4, <4>5 DEF Current
    <3> QED BY <3>3, <3>4
  <2>7. CASE m = n /\ r.op = "set"
    <3>1. /\ report \in Frame /\ report.frame = "report" /\ report.class = r.class
          /\ Carries(report) /\ report.values = r.values /\ r.class \in Class
          /\ device' = [device EXCEPT ![n] = Update(@, r.values)]
          /\ \/ Told(n, report)
             \/ air' = air /\ r.class # MANUFACTURER_PROPRIETARY
          /\ r.class # MANUFACTURER_SPECIFIC
      BY <1>6, <2>7 DEF Info
    <3>2. r.values \in Values
      BY <1>3, <2>7 DEF Info, GetRequest
    <3>3. GetRequest(m, c) # r
      BY <2>7 DEF GetRequest
    <3>4. device'[m] = Update(device[m], r.values)
      BY <1>3, <1>5, <2>7, <3>1
    <3>5. CASE r.values[p] # None
      <4>1. r.class = MANUFACTURER_PROPRIETARY
        BY <2>1, <3>1, <3>5, ClassFacts DEF Carries, Class
      <4>2. Has(report, p) /\ report.values[p] = device'[m][p]
        <5> DEFINE d == device[m]
        <5>1. d \in [Param -> Nat]
          BY <1>5
        <5> HIDE DEF d
        <5>2. Update(d, r.values)[p] = r.values[p]
          BY <2>1, <3>2, <3>5, <5>1, UpdateFacts
        <5>3. device'[m][p] = r.values[p]
          BY <3>4, <5>2 DEF d
        <5>4. Has(report, p)
          BY <3>1, <3>5 DEF Has
        <5> QED BY <3>1, <5>3, <5>4
      <4>3. WillBe(Append(air[m], report), p, tracked[m][p], device'[m][p])
        BY <2>3, <3>1, <4>2, WillBeAppended
      <4>4. air'[m] = Append(air[m], report)
        BY <1>2, <1>3, <2>7, <3>1, <4>1, ToldFacts
      <4> QED BY <1>2, <4>3, <4>4 DEF Current
    <3>6. CASE r.values[p] = None
      <4> DEFINE d == device[m]
      <4>6. d \in [Param -> Nat]
        BY <1>5
      <4> HIDE DEF d
      <4>7. Update(d, r.values)[p] = d[p]
        BY <2>1, <3>2, <3>6, <4>6, UpdateFacts
      <4>1. device'[m][p] = device[m][p]
        BY <3>4, <4>7 DEF d
      <4>2. ~Has(report, p)
        BY <3>1, <3>6 DEF Has
      <4>3. WillBe(Append(air[m], report), p, tracked[m][p], device[m][p])
        BY <2>2, <2>3, <3>1, <3>3, <4>2, WillBeAppended DEF Current
      <4>4. CASE Told(n, report)
        <5>1. air'[m] = Append(air[m], report)
          BY <1>2, <1>3, <2>7, <3>1, <4>4, ToldFacts
        <5> QED BY <1>2, <4>1, <4>3, <5>1 DEF Current
      <4>5. CASE air' = air
        BY <1>2, <2>2, <3>3, <4>1, <4>5 DEF Current
      <4> QED BY <3>1, <4>4, <4>5
    <3> QED BY <3>5, <3>6
  <2> QED BY <1>6, <2>4, <2>5, <2>6, <2>7
<1> QED BY <1>10, <1>11, <1>12, <1>13, <1>14, <1>15 DEF IInv

\* A node sends its information frame on its own.
LEMMA AnnounceStep ==
  ASSUME IInv, NEW n \in Nodes, Announce(n)
  PROVE  IInv'
<1>1. /\ TypeOK /\ Told(n, NodeInfo)
      /\ UNCHANGED <<stuck, queue, commands, tracked, deviceName, device, posts, lost, repeats>>
      /\ events' \in 0..MaxEvents
  BY BoundsFacts DEF IInv, Announce, Told, hostVars
<1>2. NodeInfo \in Frame /\ NodeInfo.frame # "report"
  BY DEF NodeInfo, Frame
<1>3. air' \in [Nodes -> Seq(Frame)] /\ air'[n] = Append(air[n], NodeInfo)
      /\ \A m \in Nodes \ {n} : air'[m] = air[m]
  BY <1>1, <1>2, ToldFacts
<1>4. \A m \in Nodes :
         /\ Range(air[m]) \subseteq Range(air'[m])
         /\ \A f \in Range(air'[m]) : f \in Range(air[m]) \/ (m = n /\ f = NodeInfo)
  BY <1>1, <1>2, HeardFacts
<1>5. TypeOK'
  BY <1>1, <1>3 DEF TypeOK
<1>6. SetsAreOwn' /\ ReportsAreOwn' /\ AskedIsThere'
  BY <1>1, <1>2, <1>4
     DEF IInv, SetsAreOwn, ReportsAreOwn, AskedIsThere, IsProduct, Carries
<1>7. TableInv'
  BY <1>1, <1>4
     DEF IInv, TableInv, Shutter, Classes, Header, OnTheWay, Installed
<1>8. FreshInv'
  <2> SUFFICES ASSUME lost = 0, NEW m \in Nodes, NEW c \in Reported,
                      NEW p \in Members[c], commands[m][c] # "none",
                      GetRequest(m, c) \notin Range(queue)
               PROVE  Current(m, p)'
    BY <1>1 DEF FreshInv
  <2>1. Current(m, p) /\ air[m] \in Seq(Frame)
    BY <1>1 DEF IInv, FreshInv, TypeOK
  <2>2. WillBe(Append(air[m], NodeInfo), p, tracked[m][p], device[m][p])
    BY <1>2, <2>1, WillBeAppended DEF Current, Has
  <2>3. air'[m] = air[m] \/ air'[m] = Append(air[m], NodeInfo)
    BY <1>3
  <2> QED BY <1>1, <2>1, <2>2, <2>3 DEF Current
<1> QED BY <1>5, <1>6, <1>7, <1>8 DEF IInv

\* Somebody turns a shutter: the device reports what it is then set to.
LEMMA TurnStep ==
  ASSUME IInv, NEW n \in Nodes, NEW p \in Members[MANUFACTURER_PROPRIETARY],
         NEW v \in Position, Turn(n, p, v)
  PROVE  IInv'
<1> DEFINE f == Report(MANUFACTURER_PROPRIETARY, [Nothing EXCEPT ![p] = v])
<1>1. /\ TypeOK /\ Told(n, f) /\ device' = [device EXCEPT ![n][p] = v]
      /\ UNCHANGED <<stuck, queue, commands, tracked, deviceName, posts, lost, repeats>>
      /\ events' \in 0..MaxEvents
  BY BoundsFacts DEF IInv, Turn, Told, hostVars
<1>2. /\ p \in {"blinds", "slat"} /\ p \in Param /\ v \in Nat
      /\ MANUFACTURER_PROPRIETARY \in Class
      /\ MANUFACTURER_PROPRIETARY # MANUFACTURER_SPECIFIC
  BY ClassFacts, ValuesAssumption
     DEF Param, MANUFACTURER_PROPRIETARY, MANUFACTURER_SPECIFIC
<1>3. /\ f \in Frame /\ f.frame = "report" /\ f.class = MANUFACTURER_PROPRIETARY
      /\ f.values[p] = v /\ \A q \in Param \ {p} : f.values[q] = None
  BY <1>2 DEF Frame, Report, Nothing, Values, Optional
<1>4. Carries(f)
  BY <1>2, <1>3, ClassFacts DEF Carries
<1>5. /\ device' \in [Nodes -> [Param -> Nat]]
      /\ device'[n][p] = v
      /\ \A m \in Nodes, q \in Param : m # n \/ q # p => device'[m][q] = device[m][q]
  BY <1>1, <1>2 DEF TypeOK
<1> HIDE DEF f
<1>6. air' \in [Nodes -> Seq(Frame)] /\ air'[n] = Append(air[n], f)
      /\ \A m \in Nodes \ {n} : air'[m] = air[m]
  BY <1>1, <1>3, ToldFacts
<1>7. \A m \in Nodes :
         /\ Range(air[m]) \subseteq Range(air'[m])
         /\ \A g \in Range(air'[m]) : g \in Range(air[m]) \/ (m = n /\ g = f)
  BY <1>1, <1>3, HeardFacts
<1>8. \A m \in Nodes : device'[m]["product"] = device[m]["product"]
  BY <1>2, <1>5 DEF Param
<1>9. TypeOK'
  BY <1>1, <1>5, <1>6 DEF TypeOK
<1>10. SetsAreOwn'
  BY <1>1 DEF IInv, SetsAreOwn, Carries
<1>11. ReportsAreOwn'
  BY <1>2, <1>3, <1>4, <1>7, <1>8 DEF IInv, ReportsAreOwn, Carries
<1>12. AskedIsThere'
  BY <1>1, <1>2, <1>3, <1>7 DEF IInv, AskedIsThere, IsProduct
<1>13. TableInv'
  BY <1>1, <1>7, <1>8
     DEF IInv, TableInv, Shutter, Classes, Header, OnTheWay, Installed
<1>14. FreshInv'
  <2> SUFFICES ASSUME lost = 0, NEW m \in Nodes, NEW c \in Reported,
                      NEW q \in Members[c], commands[m][c] # "none",
                      GetRequest(m, c) \notin Range(queue)
               PROVE  Current(m, q)'
    BY <1>1 DEF FreshInv
  <2>1. Current(m, q) /\ air[m] \in Seq(Frame) /\ q \in Param
    BY <1>1, ClassFacts DEF IInv, FreshInv, TypeOK, Reported
  <2>2. CASE m = n /\ q = p
    <3>1. Has(f, q) /\ f.values[q] = device'[m][q]
      BY <1>2, <1>3, <1>5, <2>2 DEF Has, None
    <3>2. WillBe(Append(air[m], f), q, tracked[m][q], device'[m][q])
      BY <1>3, <2>1, <3>1, WillBeAppended
    <3> QED BY <1>1, <1>6, <2>2, <3>2 DEF Current
  <2>3. CASE m = n /\ q # p
    <3>1. ~Has(f, q) /\ device'[m][q] = device[m][q]
      BY <1>3, <1>5, <2>1, <2>3 DEF Has
    <3>2. WillBe(Append(air[m], f), q, tracked[m][q], device[m][q])
      BY <1>3, <2>1, <3>1, WillBeAppended DEF Current
    <3> QED BY <1>1, <1>6, <2>3, <3>1, <3>2 DEF Current
  <2>4. CASE m # n
    BY <1>1, <1>5, <1>6, <2>1, <2>4 DEF Current
  <2> QED BY <2>2, <2>3, <2>4
<1> QED BY <1>9, <1>10, <1>11, <1>12, <1>13, <1>14 DEF IInv

\* The protocol gives a request up: what is left has not changed.
LEMMA LoseRequestStep ==
  ASSUME IInv, LoseRequest
  PROVE  IInv'
<1>1. /\ TypeOK /\ queue # <<>> /\ queue' = Tail(queue) /\ lost' = lost + 1
      /\ stuck' \in BOOLEAN /\ lost + repeats < MaxFaults
      /\ UNCHANGED <<air, commands, tracked, deviceName, device, posts, events, repeats>>
  BY DEF IInv, LoseRequest, hostVars
<1>2. queue' \in Seq(Request) /\ Range(queue') \subseteq Range(queue)
  <2>1. queue \in Seq(Request)
    BY <1>1 DEF TypeOK
  <2> QED BY <1>1, <2>1, HeadTailRange
<1>3. lost' \in 0..MaxFaults /\ lost' # 0
  BY <1>1, BoundsFacts
<1>4. TypeOK'
  BY <1>1, <1>2, <1>3 DEF TypeOK
<1>5. SetsAreOwn' /\ ReportsAreOwn' /\ AskedIsThere'
  BY <1>1, <1>2 DEF IInv, SetsAreOwn, ReportsAreOwn, AskedIsThere, IsProduct, Carries
<1>6. TableInv' /\ FreshInv'
  BY <1>3 DEF TableInv, FreshInv
<1> QED BY <1>4, <1>5, <1>6 DEF IInv

\* The queue is stuck behind a request that was lost only.
LEMMA StuckStep ==
  ASSUME TypeOK, StuckInv, [Next]_vars
  PROVE  StuckInv'
<1>1. lost \in Nat
  <2>1. lost \in 0..MaxFaults
    BY DEF TypeOK
  <2> QED BY <2>1
<1>2. CASE LoseRequest
  <2>1. lost' = lost + 1
    BY <1>2 DEF LoseRequest
  <2> QED BY <1>1, <2>1 DEF StuckInv
<1>3. CASE Stray
  BY <1>3 DEF Stray, StuckInv
<1>4. CASE \E n \in Nodes : LoseFrame(n)
  <2>1. lost' = lost + 1
    BY <1>4 DEF LoseFrame
  <2> QED BY <1>1, <2>1 DEF StuckInv
<1>5. CASE UNCHANGED <<stuck, lost>>
  BY <1>5 DEF StuckInv
<1>6. OnResponse \/ Deliver \/ Repeat => UNCHANGED <<stuck, lost>>
  BY DEF OnResponse, Deliver, Repeat, CarryOut
<1>7. Receive => UNCHANGED <<stuck, lost>>
  BY DEF Receive, ReceiveNodeInfo, Ignore, Track, Identify, ReceiveReport
<1>8. ASSUME NEW n \in Nodes
      PROVE  /\ Announce(n) => UNCHANGED <<stuck, lost>>
             /\ \A post \in Posts : SendSetParameters(n, post) => UNCHANGED <<stuck, lost>>
             /\ \A p \in Members[MANUFACTURER_PROPRIETARY], v \in Position :
                    Turn(n, p, v) => UNCHANGED <<stuck, lost>>
  BY DEF Announce, SendSetParameters, Turn
<1>9. UNCHANGED vars => UNCHANGED <<stuck, lost>>
  BY DEF vars
<1> QED BY <1>2, <1>3, <1>4, <1>5, <1>6, <1>7, <1>8, <1>9 DEF Next

\* After a give-up the queue goes on, or loses one more request unsent.
LEMMA StrayStep ==
  ASSUME IInv, StuckInv, Stray
  PROVE  IInv'
<1>1. /\ TypeOK /\ stuck /\ stuck' = FALSE /\ queue' \in {queue, Tail(queue)}
      /\ UNCHANGED <<air, commands, tracked, deviceName, device, posts, events, lost, repeats>>
  BY DEF IInv, Stray, hostVars
<1>2. lost' # 0
  BY <1>1 DEF StuckInv
<1>3. CASE queue' = queue
  <2>1. TypeOK'
    BY <1>1, <1>3 DEF TypeOK
  <2>2. SetsAreOwn' /\ ReportsAreOwn' /\ AskedIsThere'
    BY <1>1, <1>3 DEF IInv, SetsAreOwn, ReportsAreOwn, AskedIsThere, IsProduct, Carries
  <2>3. TableInv' /\ FreshInv'
    BY <1>2 DEF TableInv, FreshInv
  <2> QED BY <2>1, <2>2, <2>3 DEF IInv
<1>4. CASE queue' = Tail(queue) /\ queue # <<>>
  <2>1. queue' \in Seq(Request) /\ Range(queue') \subseteq Range(queue)
    <3>1. queue \in Seq(Request)
      BY <1>1 DEF TypeOK
    <3> QED BY <1>4, <3>1, HeadTailRange
  <2>2. TypeOK'
    BY <1>1, <2>1 DEF TypeOK
  <2>3. SetsAreOwn' /\ ReportsAreOwn' /\ AskedIsThere'
    BY <1>1, <2>1 DEF IInv, SetsAreOwn, ReportsAreOwn, AskedIsThere, IsProduct, Carries
  <2>4. TableInv' /\ FreshInv'
    BY <1>2 DEF TableInv, FreshInv
  <2> QED BY <2>2, <2>3, <2>4 DEF IInv
<1> QED BY <1>1, <1>3, <1>4 DEF Stray

\* Taking the first frame of a node.
LEMMA TakenFacts ==
  ASSUME TypeOK, NEW n \in Nodes, air[n] # <<>>,
         air' = [air EXCEPT ![n] = Tail(@)]
  PROVE  /\ air' \in [Nodes -> Seq(Frame)]
         /\ air'[n] = Tail(air[n])
         /\ \A m \in Nodes \ {n} : air'[m] = air[m]
         /\ Head(air[n]) \in Frame /\ Head(air[n]) \in Range(air[n])
         /\ \A m \in Nodes : Range(air'[m]) \subseteq Range(air[m])
         /\ \A m \in Nodes : \A f \in Range(air[m]) :
               f \in Range(air'[m]) \/ (m = n /\ f = Head(air[n]))
<1>1. air \in [Nodes -> Seq(Frame)] /\ air[n] \in Seq(Frame)
  BY DEF TypeOK
<1>2. /\ Head(air[n]) \in Frame /\ Tail(air[n]) \in Seq(Frame)
      /\ Head(air[n]) \in Range(air[n])
      /\ Range(air[n]) = {Head(air[n])} \cup Range(Tail(air[n]))
  BY <1>1, HeadTailRange
<1>3. /\ air' \in [Nodes -> Seq(Frame)]
      /\ air'[n] = Tail(air[n])
      /\ \A m \in Nodes \ {n} : air'[m] = air[m]
  BY <1>1, <1>2
<1>4. ASSUME NEW m \in Nodes
      PROVE  /\ Range(air'[m]) \subseteq Range(air[m])
             /\ \A f \in Range(air[m]) :
                   f \in Range(air'[m]) \/ (m = n /\ f = Head(air[n]))
  <2>1. CASE m = n
    BY <1>2, <1>3, <2>1
  <2>2. CASE m # n
    BY <1>3, <2>2
  <2> QED BY <2>1, <2>2
<1> QED BY <1>2, <1>3, <1>4

\* A frame is lost: what is left has not changed.
LEMMA LoseFrameStep ==
  ASSUME IInv, NEW n \in Nodes, LoseFrame(n)
  PROVE  IInv'
<1>1. /\ TypeOK /\ air[n] # <<>> /\ air' = [air EXCEPT ![n] = Tail(@)]
      /\ lost' = lost + 1 /\ lost + repeats < MaxFaults
      /\ UNCHANGED <<stuck, queue, commands, tracked, deviceName, device, posts, events, repeats>>
  BY DEF IInv, LoseFrame, hostVars
<1>2. /\ air' \in [Nodes -> Seq(Frame)]
      /\ \A m \in Nodes : Range(air'[m]) \subseteq Range(air[m])
  BY <1>1, TakenFacts
<1>3. lost' \in 0..MaxFaults /\ lost' # 0
  BY <1>1, BoundsFacts
<1>4. TypeOK'
  BY <1>1, <1>2, <1>3 DEF TypeOK
<1>5. SetsAreOwn' /\ ReportsAreOwn' /\ AskedIsThere'
  BY <1>1, <1>2 DEF IInv, SetsAreOwn, ReportsAreOwn, AskedIsThere, IsProduct, Carries
<1>6. TableInv' /\ FreshInv'
  BY <1>3 DEF TableInv, FreshInv
<1> QED BY <1>4, <1>5, <1>6 DEF IInv
-----------------------------------------------------------------------------
(* The host's actions *)

\* A function on 1..k is a sequence.
LEMMA FunctionIsSeq ==
  ASSUME NEW S, NEW k \in Nat, NEW f \in [1..k -> S]
  PROVE  f \in Seq(S)
BY SeqDef

\* The answer to the constructor's request: each other node is asked for its
\* information frame, so that it is on its way to its table.
LEMMA OnResponseStep ==
  ASSUME IInv, OnResponse
  PROVE  IInv'
<1> DEFINE others == Nodes \ {Controller}
<1>1. PICK found \in [1..Cardinality(others) -> others] :
         /\ \A n \in others : \E i \in DOMAIN found : found[i] = n
         /\ queue' = Tail(queue) \o [i \in DOMAIN found |-> Info(found[i])]
  BY DEF OnResponse
<1>2. /\ TypeOK /\ queue \in Seq(Request) /\ queue # <<>> /\ Head(queue).op = "discover"
      /\ UNCHANGED <<stuck, air, commands, tracked, deviceName, device, posts, events, lost, repeats>>
  BY DEF IInv, TypeOK, OnResponse, hostVars
<1>3. /\ Head(queue) \in Request /\ Tail(queue) \in Seq(Request)
      /\ Range(queue) = {Head(queue)} \cup Range(Tail(queue))
  BY <1>2, HeadTailRange
<1>4. Head(queue) = Discover
  BY <1>2, <1>3 DEF Request, Discover
<1> DEFINE k == Cardinality(others)
           infos == [i \in 1..k |-> Info(found[i])]
<1>5. k \in Nat
  <2>1. others \in SUBSET Nat /\ \A n \in others : n <= 255
    <3>1. Nodes \subseteq 1..255
      BY NodesAssumption
    <3>2. \A n \in 1..255 : n \in Nat /\ n <= 255
      OBVIOUS
    <3> QED BY <3>1, <3>2
  <2>2. 255 \in Nat
    OBVIOUS
  <2>3. IsFiniteSet(others)
    <3> HIDE DEF others
    <3> QED BY <2>1, <2>2, FS_BoundedSetOfNaturals
  <2> QED BY <2>3, FS_CardinalityType
<1> HIDE DEF k
<1>6. /\ infos \in Seq(Request)
      /\ \A r \in Range(infos) : r.op = "info"
      /\ \A n \in others : Info(n) \in Range(infos)
  <2>1. \A i \in 1..k : found[i] \in Nodes
    BY <1>1 DEF k
  <2>2. \A n \in Nodes : Info(n) \in Request /\ Info(n).op = "info"
    BY DEF Info, Request
  <2>3. infos \in [1..k -> Request]
    BY <2>1, <2>2
  <2>4. infos \in Seq(Request)
    <3> HIDE DEF infos
    <3> QED BY <1>5, <2>3, FunctionIsSeq
  <2>5. Range(infos) = {infos[i] : i \in 1..k}
    BY DEF Range
  <2>6. ASSUME NEW r \in Range(infos) PROVE r.op = "info"
    <3>1. PICK i \in 1..k : r = Info(found[i])
      BY <2>5
    <3> QED BY <2>1, <2>2, <3>1
  <2>7. ASSUME NEW n \in others PROVE Info(n) \in Range(infos)
    <3>1. PICK i \in 1..k : found[i] = n
      BY <1>1 DEF k
    <3>2. infos[i] = Info(n)
      BY <3>1
    <3> QED BY <2>5, <3>2
  <2> QED BY <2>4, <2>6, <2>7
<1>7. queue' \in Seq(Request) /\ Range(queue') = Range(Tail(queue)) \cup Range(infos)
  <2>1. queue' = Tail(queue) \o infos
    BY <1>1 DEF k
  <2> DEFINE rest == Tail(queue)
  <2>2. rest \in Seq(Request) /\ infos \in Seq(Request)
    BY <1>3, <1>6
  <2> HIDE DEF infos, rest
  <2>3. rest \o infos \in Seq(Request) /\ Range(rest \o infos) = Range(rest) \cup Range(infos)
    BY <2>2, ConcatRange
  <2> QED BY <2>1, <2>3 DEF rest
<1> HIDE DEF infos
<1>8. TypeOK'
  BY <1>2, <1>7 DEF TypeOK
<1>9. SetsAreOwn' /\ ReportsAreOwn' /\ AskedIsThere'
  BY <1>2, <1>3, <1>6, <1>7
     DEF IInv, SetsAreOwn, ReportsAreOwn, AskedIsThere, IsProduct, Carries, GetRequest
<1>10. TableInv'
  BY <1>6, <1>7 DEF TableInv, OnTheWay, Shutter
<1>11. FreshInv'
  BY <1>2, <1>3, <1>4, <1>7
     DEF IInv, FreshInv, Current, GetRequest, Discover
<1> QED BY <1>8, <1>9, <1>10, <1>11 DEF IInv

\* A POST: the sets of the objects are added to the queue.  What is
\* remembered at once is the slat time, which no device reports.
LEMMA SendSetStep ==
  ASSUME IInv, NEW n \in Nodes, NEW post \in Posts, SendSetParameters(n, post)
  PROVE  IInv'
<1> DEFINE sets == InClassOrder([c \in Class |-> SendSet(n, commands[n][c], post)])
<1>1. /\ TypeOK /\ queue' = queue \o sets
      /\ tracked' = IF commands[n][CONFIGURATION] = "FibaroFgr222Config"
                       /\ post["config.slatTime"] # None
                    THEN [tracked EXCEPT ![n].slatTime = post["config.slatTime"]]
                    ELSE tracked
      /\ UNCHANGED <<stuck, air, commands, deviceName, device, events, lost, repeats>>
  BY DEF IInv, SendSetParameters
<1>2. posts' \in 0..MaxPosts
  BY <1>1, BoundsFacts DEF SendSetParameters
<1>3. sets \in Seq(Request) /\ \A r \in Range(sets) : IsSet(r, n)
  BY SetsFacts
<1> HIDE DEF sets
<1>4. queue' \in Seq(Request) /\ Range(queue') = Range(queue) \cup Range(sets)
  <2>1. queue \in Seq(Request)
    BY <1>1 DEF TypeOK
  <2> QED BY <1>1, <1>3, <2>1, ConcatRange
<1>5. /\ tracked' \in [Nodes -> [Param -> Nat]]
      /\ \A m \in Nodes, p \in {"product", "blinds", "slat"} : tracked'[m][p] = tracked[m][p]
  <2>1. tracked \in [Nodes -> [Param -> Nat]]
    BY <1>1 DEF TypeOK
  <2>2. post["config.slatTime"] # None => post["config.slatTime"] \in Nat
    BY ValuesAssumption DEF PostParam, Optional
  <2> QED BY <1>1, <2>1, <2>2 DEF Param
<1>6. TypeOK'
  BY <1>1, <1>2, <1>4, <1>5 DEF TypeOK
<1>7. SetsAreOwn'
  BY <1>3, <1>4 DEF IInv, SetsAreOwn, IsSet, Carries
<1>8. ReportsAreOwn' /\ AskedIsThere'
  BY <1>1, <1>3, <1>4
     DEF IInv, ReportsAreOwn, AskedIsThere, IsProduct, Carries, IsSet, GetRequest
<1>9. TableInv'
  BY <1>1, <1>4
     DEF IInv, TableInv, Shutter, Classes, Header, OnTheWay, Installed
<1>10. FreshInv'
  <2>1. \A c \in Reported : Members[c] \subseteq {"product", "blinds", "slat"}
    BY ClassFacts DEF Reported
  <2> SUFFICES ASSUME lost = 0, NEW m \in Nodes, NEW c \in Reported,
                      NEW p \in Members[c], commands[m][c] # "none",
                      GetRequest(m, c) \notin Range(queue')
               PROVE  Current(m, p)'
    BY <1>1 DEF FreshInv
  <2>2. Current(m, p)
    BY <1>4 DEF IInv, FreshInv
  <2>3. p \in {"product", "blinds", "slat"}
    BY <2>1
  <2>4. tracked'[m][p] = tracked[m][p]
    BY <1>5, <2>3
  <2> QED BY <1>1, <2>2, <2>4 DEF Current
<1> QED BY <1>6, <1>7, <1>8, <1>9, <1>10 DEF IInv

\* Receiving a frame of n is a matter of n alone: the other nodes' objects
\* stay, nothing but gets for n is sent, and it remains to be shown that n's
\* own table and values are right afterwards.
LEMMA ReceiveStep ==
  ASSUME IInv, NEW n \in Nodes, air[n] # <<>>, air' = [air EXCEPT ![n] = Tail(@)],
         UNCHANGED <<stuck, device, posts, events, lost, repeats>>,
         queue' \in Seq(Request), Range(queue) \subseteq Range(queue'),
         \A r \in Range(queue') : r \in Range(queue) \/ \E c \in Class : r = GetRequest(n, c),
         commands' \in [Nodes -> [Class -> Kind]],
         \A c \in Class : commands'[n][c] \in KindOf(c),
         tracked' \in [Nodes -> [Param -> Nat]],
         deviceName' \in [Nodes -> {"", "Fibaro FGR-222"}],
         \A m \in Nodes \ {n} :
            /\ commands'[m] = commands[m] /\ tracked'[m] = tracked[m]
            /\ deviceName'[m] = deviceName[m],
         \/ GetRequest(n, MANUFACTURER_SPECIFIC) \in Range(queue')
            \/ commands[n][MANUFACTURER_SPECIFIC] # "none"
         => commands'[n][MANUFACTURER_SPECIFIC] = "ManufacturerSpecificCommand",
         lost = 0 /\ Shutter(n) => OnTheWay(n)',
         lost = 0 => \A c \in Reported : \A p \in Members[c] :
            commands'[n][c] # "none" => GetRequest(n, c) \in Range(queue') \/ Current(n, p)'
  PROVE  IInv'
<1>1. TypeOK
  BY DEF IInv
<1>2. /\ air' \in [Nodes -> Seq(Frame)]
      /\ \A m \in Nodes \ {n} : air'[m] = air[m]
      /\ \A m \in Nodes : Range(air'[m]) \subseteq Range(air[m])
  BY <1>1, TakenFacts
<1>3. TypeOK'
  <2>1. \A m \in Nodes, c \in Class : commands'[m][c] \in KindOf(c)
    BY <1>1 DEF TypeOK
  <2> QED BY <1>1, <1>2, <2>1 DEF TypeOK
<1>4. SetsAreOwn' /\ ReportsAreOwn'
  <2>1. \A c \in Class : GetRequest(n, c).op # "set"
    BY DEF GetRequest
  <2>2. SetsAreOwn'
    BY <2>1, ZenonT(30) DEF IInv, SetsAreOwn, Carries
  <2>3. ReportsAreOwn'
    BY <1>2, ZenonT(30) DEF IInv, ReportsAreOwn, Carries
  <2> QED BY <2>2, <2>3
<1>5. AskedIsThere'
  <2> SUFFICES ASSUME NEW m \in Nodes,
                      \/ GetRequest(m, MANUFACTURER_SPECIFIC) \in Range(queue')
                      \/ \E f \in Range(air'[m]) : IsProduct(f)
               PROVE  commands'[m][MANUFACTURER_SPECIFIC] = "ManufacturerSpecificCommand"
    BY DEF AskedIsThere
  <2>1. CASE m = n
    BY <1>2, <2>1 DEF IInv, AskedIsThere
  <2>2. CASE m # n
    <3>1. GetRequest(m, MANUFACTURER_SPECIFIC) \in Range(queue')
            => GetRequest(m, MANUFACTURER_SPECIFIC) \in Range(queue)
      BY <2>2 DEF GetRequest
    <3> QED BY <1>2, <2>2, <3>1 DEF IInv, AskedIsThere
  <2> QED BY <2>1, <2>2
<1>6. TableInv'
  <2> SUFFICES ASSUME lost = 0, NEW m \in Nodes, Shutter(m)
               PROVE  OnTheWay(m)'
    BY DEF TableInv, Shutter, Classes, Header
  <2>1. CASE m # n
    <3>1. OnTheWay(m)
      BY DEF IInv, TableInv
    <3>2. air'[m] = air[m] /\ Installed(m)' = Installed(m)
      BY <1>2, <2>1 DEF Installed
    <3> QED BY <3>1, <3>2 DEF OnTheWay
  <2> QED BY <2>1
<1>7. FreshInv'
  <2> SUFFICES ASSUME lost = 0, NEW m \in Nodes, NEW c \in Reported,
                      NEW p \in Members[c], commands'[m][c] # "none",
                      GetRequest(m, c) \notin Range(queue')
               PROVE  Current(m, p)'
    BY DEF FreshInv
  <2>1. CASE m # n
    BY <1>2, <2>1, ZenonT(30) DEF IInv, FreshInv, Current
  <2> QED BY <2>1
<1> QED BY <1>3, <1>4, <1>5, <1>6, <1>7 DEF IInv
\* New command objects take the place of the ones of their classes, and
\* what they track starts anew; everything else is as it was.
LEMMA InstallFacts ==
  ASSUME TypeOK, NEW n \in Nodes, NEW made, NEW old \in [Param -> Nat],
         \A c \in Class : made[c] \in KindOf(c),
         Install(n, made, old)
  PROVE  /\ commands' \in [Nodes -> [Class -> Kind]]
         /\ tracked' \in [Nodes -> [Param -> Nat]]
         /\ \A m \in Nodes \ {n} : commands'[m] = commands[m] /\ tracked'[m] = tracked[m]
         /\ \A c \in Class :
               /\ commands'[n][c] = IF made[c] = "none" THEN commands[n][c] ELSE made[c]
               /\ commands'[n][c] \in KindOf(c)
         /\ \A p \in Param : (\A c \in Class : made[c] = "none" \/ p \notin Members[c])
               => tracked'[n][p] = old[p]
<1>1. /\ commands \in [Nodes -> [Class -> Kind]] /\ tracked \in [Nodes -> [Param -> Nat]]
      /\ \A c \in Class : commands[n][c] \in KindOf(c)
  BY DEF TypeOK
<1>2. \A c \in Class : KindOf(c) \subseteq Kind
  BY DEF KindOf, Kind, Class
<1> DEFINE objects == [c \in Class |-> IF made[c] = "none" THEN commands[n][c] ELSE made[c]]
           values == [p \in Param |->
                         IF \E c \in Class : made[c] # "none" /\ p \in Members[c]
                         THEN 0 ELSE old[p]]
<1>3. /\ objects \in [Class -> Kind]
      /\ \A c \in Class :
            /\ objects[c] = IF made[c] = "none" THEN commands[n][c] ELSE made[c]
            /\ objects[c] \in KindOf(c)
  BY <1>1, <1>2
<1>4. /\ values \in [Param -> Nat]
      /\ \A p \in Param : (\A c \in Class : made[c] = "none" \/ p \notin Members[c])
            => values[p] = old[p]
  OBVIOUS
<1>5. /\ commands' = [commands EXCEPT ![n] = objects]
      /\ tracked' = [tracked EXCEPT ![n] = values]
  BY DEF Install
<1> HIDE DEF objects, values
<1> QED BY <1>1, <1>3, <1>4, <1>5

\* The information frame of n: its objects are made anew and asked, the one
\* for the manufacturer among them if n lists that class.
LEMMA ReceiveNodeInfoStep ==
  ASSUME IInv, NEW n \in Nodes, ReceiveNodeInfo(n)
  PROVE  IInv'
<1> DEFINE made == [c \in Class |-> IF c \in Classes(n) THEN Generic(c) ELSE "none"]
           old == tracked[n]
           kinds == commands'[n]
           gets == InClassOrder([c \in Class |-> SendGet(n, c, kinds[c])])
<1>1. /\ TypeOK /\ Install(n, made, old) /\ queue' = queue \o gets
      /\ air[n] # <<>> /\ air' = [air EXCEPT ![n] = Tail(@)]
      /\ UNCHANGED <<stuck, deviceName, device, posts, events, lost, repeats>>
  BY DEF IInv, ReceiveNodeInfo, UpdateNode
<1>2. /\ queue \in Seq(Request) /\ old \in [Param -> Nat]
      /\ deviceName \in [Nodes -> {"", "Fibaro FGR-222"}]
  BY <1>1 DEF TypeOK
<1>3. \A c \in Class : made[c] \in KindOf(c)
  BY DEF Generic, KindOf, Class, BASIC, CONFIGURATION, MANUFACTURER_SPECIFIC,
         MANUFACTURER_PROPRIETARY
<1>4. MANUFACTURER_SPECIFIC \in Classes(n) =>
         made[MANUFACTURER_SPECIFIC] = "ManufacturerSpecificCommand"
  <2>1. Generic(MANUFACTURER_SPECIFIC) = "ManufacturerSpecificCommand"
    BY DEF Generic, BASIC, CONFIGURATION, MANUFACTURER_SPECIFIC,
           MANUFACTURER_PROPRIETARY
  <2> QED BY <2>1, ClassFacts
<1>5. /\ gets \in Seq(Request)
      /\ \A r \in Range(gets) : \E c \in Class :
            kinds[c] \notin {"none", "ConfigCommand"} /\ r = GetRequest(n, c)
      /\ \A c \in Class : kinds[c] \notin {"none", "ConfigCommand"} =>
             GetRequest(n, c) \in Range(gets)
  BY GetsFacts
<1> HIDE DEF made, old, gets
<1>6. /\ commands' \in [Nodes -> [Class -> Kind]]
      /\ tracked' \in [Nodes -> [Param -> Nat]]
      /\ \A m \in Nodes \ {n} : commands'[m] = commands[m] /\ tracked'[m] = tracked[m]
      /\ \A c \in Class :
            /\ commands'[n][c] = IF made[c] = "none" THEN commands[n][c] ELSE made[c]
            /\ commands'[n][c] \in KindOf(c)
  BY <1>1, <1>2, <1>3, InstallFacts
<1>7. queue' \in Seq(Request) /\ Range(queue') = Range(queue) \cup Range(gets)
  BY <1>1, <1>2, <1>5, ConcatRange, ZenonT(30)
<1>8. /\ MANUFACTURER_SPECIFIC \in Class
      /\ KindOf(MANUFACTURER_SPECIFIC) = {"none", "ManufacturerSpecificCommand"}
      /\ Reported \subseteq Class
      /\ \A c \in Reported : "ConfigCommand" \notin KindOf(c)
  BY ClassFacts, KindFacts
<1>9. \/ GetRequest(n, MANUFACTURER_SPECIFIC) \in Range(queue')
         \/ commands[n][MANUFACTURER_SPECIFIC] # "none"
      => commands'[n][MANUFACTURER_SPECIFIC] = "ManufacturerSpecificCommand"
  <2>1. commands'[n][MANUFACTURER_SPECIFIC] \in {"none", "ManufacturerSpecificCommand"}
    BY <1>6, <1>8
  <2>2. commands[n][MANUFACTURER_SPECIFIC] # "none"
          => commands'[n][MANUFACTURER_SPECIFIC] # "none"
    BY <1>6, <1>8
  <2>3. GetRequest(n, MANUFACTURER_SPECIFIC) \in Range(queue)
          => commands[n][MANUFACTURER_SPECIFIC] # "none"
    BY DEF IInv, AskedIsThere
  <2>4. GetRequest(n, MANUFACTURER_SPECIFIC) \in Range(gets)
          => commands'[n][MANUFACTURER_SPECIFIC] # "none"
    BY <1>5 DEF GetRequest
  <2> QED BY <1>7, <2>1, <2>2, <2>3, <2>4
<1>10. lost = 0 /\ Shutter(n) => OnTheWay(n)'
  <2> HAVE lost = 0 /\ Shutter(n)
  <2>1. commands'[n][MANUFACTURER_SPECIFIC] = "ManufacturerSpecificCommand"
    BY <1>4, <1>6, <1>8 DEF Shutter
  <2>2. GetRequest(n, MANUFACTURER_SPECIFIC) \in Range(queue')
    BY <1>5, <1>7, <1>8, <2>1
  <2> QED BY <2>2 DEF OnTheWay
<1>11. \A c \in Reported : commands'[n][c] # "none" => GetRequest(n, c) \in Range(queue')
  BY <1>5, <1>6, <1>7, <1>8
<1>12. /\ Range(queue) \subseteq Range(queue')
       /\ \A r \in Range(queue') :
             r \in Range(queue) \/ \E c \in Class : r = GetRequest(n, c)
  BY <1>5, <1>7
<1>13. /\ deviceName' \in [Nodes -> {"", "Fibaro FGR-222"}]
       /\ \A m \in Nodes \ {n} :
             /\ commands'[m] = commands[m] /\ tracked'[m] = tracked[m]
             /\ deviceName'[m] = deviceName[m]
       /\ \A c \in Class : commands'[n][c] \in KindOf(c)
  BY <1>1, <1>2, <1>6
<1>14. lost = 0 => \A c \in Reported : \A p \in Members[c] :
         commands'[n][c] # "none" => GetRequest(n, c) \in Range(queue') \/ Current(n, p)'
  BY <1>11
<1> HIDE DEF kinds
<1> QED
  BY <1>1, <1>6, <1>7, <1>9, <1>10, <1>12, <1>13, <1>14, ReceiveStep

\* A report that is received is of its class, and tells the true product.
LEMMA ReportFacts ==
  ASSUME IInv, NEW n \in Nodes, ReceiveReport(n)
  PROVE  /\ TypeOK /\ air[n] # <<>> /\ air' = [air EXCEPT ![n] = Tail(@)]
         /\ UNCHANGED <<stuck, device, posts, events, lost, repeats>>
         /\ Head(air[n]).frame = "report" /\ Head(air[n]).class \in Class
         /\ Head(air[n]).values \in Values /\ Carries(Head(air[n]))
         /\ Head(air[n]) \in Range(air[n])
         /\ Head(air[n]).class = MANUFACTURER_SPECIFIC
               => Head(air[n]).values["product"] = device[n]["product"]
         /\ \A f \in Range(air[n]) : f \in Range(air'[n]) \/ f = Head(air[n])
<1>1. /\ TypeOK /\ air[n] # <<>> /\ air' = [air EXCEPT ![n] = Tail(@)]
      /\ UNCHANGED <<stuck, device, posts, events, lost, repeats>>
      /\ Head(air[n]).frame = "report"
  BY DEF IInv, ReceiveReport
<1>2. /\ Head(air[n]) \in Frame /\ Head(air[n]) \in Range(air[n])
      /\ \A f \in Range(air[n]) : f \in Range(air'[n]) \/ f = Head(air[n])
  BY <1>1, TakenFacts
<1>3. Head(air[n]).class \in Class /\ Head(air[n]).values \in Values
  BY <1>1, <1>2 DEF Frame, NodeInfo
<1>4. /\ Carries(Head(air[n]))
      /\ Head(air[n]).class = MANUFACTURER_SPECIFIC
            => Head(air[n]).values["product"] = device[n]["product"]
  BY <1>1, <1>2 DEF IInv, ReportsAreOwn
<1> QED BY <1>1, <1>2, <1>3, <1>4
\* When n is told nothing but what a report says, its table stays on the
\* way, unless the report is that of the manufacturer.
LEMMA StillOnTheWay ==
  ASSUME IInv, NEW n \in Nodes, ReceiveReport(n),
         Head(air[n]).class # MANUFACTURER_SPECIFIC,
         queue' = queue, commands' = commands, deviceName' = deviceName
  PROVE  lost = 0 /\ Shutter(n) => OnTheWay(n)'
<1>1. /\ Head(air[n]).frame = "report"
      /\ \A f \in Range(air[n]) : f \in Range(air'[n]) \/ f = Head(air[n])
  BY ReportFacts
<1>2. NodeInfo # Head(air[n]) /\ ~IsProduct(Head(air[n]))
  BY <1>1 DEF NodeInfo, IsProduct
<1> QED BY <1>1, <1>2 DEF IInv, TableInv, OnTheWay, Installed

\* A report that nobody handles: no object tracks what it says.
LEMMA IgnoreStep ==
  ASSUME IInv, NEW n \in Nodes, Ignore(n)
  PROVE  IInv'
<1> DEFINE f == Head(air[n])
<1>1. /\ ReceiveReport(n) /\ commands[n][f.class] \in {"none", "ConfigCommand"}
      /\ UNCHANGED <<queue, commands, tracked, deviceName>>
  BY DEF Ignore, hostVars
<1>2. /\ TypeOK /\ air[n] # <<>> /\ air' = [air EXCEPT ![n] = Tail(@)]
      /\ UNCHANGED <<stuck, device, posts, events, lost, repeats>>
      /\ f.frame = "report" /\ f.class \in Class /\ Carries(f) /\ f \in Range(air[n])
  BY <1>1, ReportFacts
<1> HIDE DEF f
<1>3. \A c \in Reported : c \in Class /\ Members[c] \subseteq Param
  BY ClassFacts DEF Reported
<1>4. \A c \in Reported : commands[n][c] # "none" => f.class # c
  <2>1. \A c \in Reported : commands[n][c] \in KindOf(c)
    BY <1>2, <1>3 DEF TypeOK
  <2> QED BY <1>1, <2>1, KindFacts DEF f
<1>5. f.class # MANUFACTURER_SPECIFIC
  <2>1. f.class = MANUFACTURER_SPECIFIC
          => commands[n][MANUFACTURER_SPECIFIC] = "ManufacturerSpecificCommand"
    BY <1>2 DEF IInv, AskedIsThere, IsProduct
  <2> QED BY <1>1, <2>1 DEF f
<1>6. lost = 0 /\ Shutter(n) => OnTheWay(n)'
  BY <1>1, <1>5, StillOnTheWay DEF f
<1>7. ASSUME lost = 0, NEW c \in Reported, NEW p \in Members[c], commands[n][c] # "none",
             GetRequest(n, c) \notin Range(queue)
      PROVE  Current(n, p)'
  <2>1. Current(n, p) /\ air[n] \in Seq(Frame)
    BY <1>2, <1>7 DEF IInv, FreshInv, TypeOK
  <2>2. ~Has(f, p)
    <3>1. p \notin Members[f.class]
      BY <1>2, <1>3, <1>4, <1>7, ClassFacts DEF Reported, Class
    <3> QED BY <1>2, <1>3, <3>1 DEF Has, Carries
  <2>3. WillBe(Tail(air[n]), p, tracked[n][p], device[n][p])
    BY <1>2, <2>1, <2>2, WillBeReceived DEF Current, f
  <2>4. air'[n] = Tail(air[n])
    BY <1>2, TakenFacts
  <2> QED BY <1>1, <1>2, <2>3, <2>4 DEF Current
<1>8. /\ queue \in Seq(Request) /\ commands \in [Nodes -> [Class -> Kind]]
      /\ \A c \in Class : commands[n][c] \in KindOf(c)
      /\ tracked \in [Nodes -> [Param -> Nat]]
      /\ deviceName \in [Nodes -> {"", "Fibaro FGR-222"}]
  BY <1>2 DEF TypeOK
<1>9. \/ GetRequest(n, MANUFACTURER_SPECIFIC) \in Range(queue)
         \/ commands[n][MANUFACTURER_SPECIFIC] # "none"
      => commands[n][MANUFACTURER_SPECIFIC] = "ManufacturerSpecificCommand"
  <2>1. commands[n][MANUFACTURER_SPECIFIC] \in {"none", "ManufacturerSpecificCommand"}
    BY <1>8, ClassFacts, KindFacts
  <2> QED BY <2>1 DEF IInv, AskedIsThere
<1> QED BY <1>1, <1>2, <1>6, <1>7, <1>8, <1>9, ReceiveStep

\* A report that an object handles: what it says is now tracked.
LEMMA TrackStep ==
  ASSUME IInv, NEW n \in Nodes, Track(n)
  PROVE  IInv'
<1> DEFINE f == Head(air[n])
<1>1. /\ ReceiveReport(n)
      /\ commands[n][f.class] \in {"BasicCommand", "FibaroFgr222Config", "FibaroFgr222"}
      /\ tracked' = [tracked EXCEPT ![n] = Update(@, f.values)]
      /\ UNCHANGED <<queue, commands, deviceName>>
  BY DEF Track
<1>2. /\ TypeOK /\ air[n] # <<>> /\ air' = [air EXCEPT ![n] = Tail(@)]
      /\ UNCHANGED <<stuck, device, posts, events, lost, repeats>>
      /\ f.frame = "report" /\ f.class \in Class /\ Carries(f) /\ f \in Range(air[n])
      /\ f.values \in Values
  BY <1>1, ReportFacts
<1> HIDE DEF f
<1>3. \A c \in Reported : c \in Class /\ Members[c] \subseteq Param
  BY ClassFacts DEF Reported
<1>4. f.class # MANUFACTURER_SPECIFIC
  <2>1. f.class = MANUFACTURER_SPECIFIC
          => commands[n][MANUFACTURER_SPECIFIC] = "ManufacturerSpecificCommand"
    BY <1>2 DEF IInv, AskedIsThere, IsProduct
  <2> QED BY <1>1, <2>1 DEF f
<1>5. lost = 0 /\ Shutter(n) => OnTheWay(n)'
  BY <1>1, <1>4, StillOnTheWay DEF f
<1>6. /\ queue \in Seq(Request) /\ commands \in [Nodes -> [Class -> Kind]]
      /\ \A c \in Class : commands[n][c] \in KindOf(c)
      /\ tracked \in [Nodes -> [Param -> Nat]]
      /\ deviceName \in [Nodes -> {"", "Fibaro FGR-222"}]
  BY <1>2 DEF TypeOK
<1> DEFINE old == tracked[n]
<1>7. old \in [Param -> Nat]
  BY <1>6
<1> HIDE DEF old
<1>8. /\ Update(old, f.values) \in [Param -> Nat]
      /\ \A p \in Param : f.values[p] = None => Update(old, f.values)[p] = old[p]
      /\ \A p \in Param : f.values[p] # None => Update(old, f.values)[p] = f.values[p]
  BY <1>2, <1>7, UpdateFacts
<1>9. /\ tracked' \in [Nodes -> [Param -> Nat]]
      /\ tracked'[n] = Update(old, f.values)
      /\ \A m \in Nodes \ {n} : tracked'[m] = tracked[m]
  BY <1>1, <1>6, <1>8 DEF old
<1>10. ASSUME lost = 0, NEW c \in Reported, NEW p \in Members[c], commands[n][c] # "none",
              GetRequest(n, c) \notin Range(queue)
       PROVE  Current(n, p)'
  <2>1. /\ WillBe(air[n], p, old[p], device[n][p]) /\ air[n] \in Seq(Frame)
    BY <1>2, <1>10 DEF IInv, FreshInv, TypeOK, Current, old
  <2>2. p \in Param
    BY <1>3
  <2>3. tracked'[n][p] = IF Has(f, p) THEN f.values[p] ELSE old[p]
    BY <1>2, <1>8, <1>9, <2>2 DEF Has
  <2>4. WillBe(Tail(air[n]), p, tracked'[n][p], device[n][p])
    BY <1>2, <2>1, <2>3, WillBeReceived DEF f
  <2>5. air'[n] = Tail(air[n])
    BY <1>2, TakenFacts
  <2> QED BY <1>1, <1>2, <2>4, <2>5 DEF Current
<1>11. \/ GetRequest(n, MANUFACTURER_SPECIFIC) \in Range(queue)
          \/ commands[n][MANUFACTURER_SPECIFIC] # "none"
       => commands[n][MANUFACTURER_SPECIFIC] = "ManufacturerSpecificCommand"
  <2>1. commands[n][MANUFACTURER_SPECIFIC] \in {"none", "ManufacturerSpecificCommand"}
    BY <1>6, ClassFacts, KindFacts
  <2> QED BY <2>1 DEF IInv, AskedIsThere
<1> QED BY <1>1, <1>2, <1>5, <1>6, <1>9, <1>10, <1>11, ReceiveStep
\* The report of the manufacturer: a known device has its own objects
\* afterwards, and its positions are asked for; the product is now tracked.
LEMMA IdentifyStep ==
  ASSUME IInv, NEW n \in Nodes, Identify(n)
  PROVE  IInv'
<1> DEFINE f == Head(air[n])
           product == f.values["product"]
           old == [tracked[n] EXCEPT !["product"] = product]
           made == [c \in Class |-> Fibaro(c)]
           gets == InClassOrder([c \in Class |-> SendGet(n, c, made[c])])
<1>1. /\ ReceiveReport(n)
      /\ commands[n][f.class] = "ManufacturerSpecificCommand"
      /\ \/ /\ product = FGR222 /\ Install(n, made, old) /\ queue' = queue \o gets
            /\ deviceName' = [deviceName EXCEPT ![n] = "Fibaro FGR-222"]
         \/ /\ product # FGR222 /\ tracked' = [tracked EXCEPT ![n] = old]
            /\ UNCHANGED <<queue, commands, deviceName>>
  <2>1. CASE KnownDevice(n, product)
    BY <2>1 DEF Identify, KnownDevice
  <2>2. CASE UnknownDevice(n, product)
    BY <2>2 DEF Identify, UnknownDevice
  <2> QED BY <2>1, <2>2 DEF Identify
<1>2. /\ TypeOK /\ air[n] # <<>> /\ air' = [air EXCEPT ![n] = Tail(@)]
      /\ UNCHANGED <<stuck, device, posts, events, lost, repeats>>
      /\ f.frame = "report" /\ f.class \in Class /\ Carries(f) /\ f \in Range(air[n])
      /\ f.class = MANUFACTURER_SPECIFIC => product = device[n]["product"]
  BY <1>1, ReportFacts
<1>3. /\ queue \in Seq(Request) /\ commands \in [Nodes -> [Class -> Kind]]
      /\ \A c \in Class : commands[n][c] \in KindOf(c)
      /\ tracked \in [Nodes -> [Param -> Nat]] /\ device \in [Nodes -> [Param -> Nat]]
      /\ deviceName \in [Nodes -> {"", "Fibaro FGR-222"}]
      /\ air \in [Nodes -> Seq(Frame)]
  BY <1>2 DEF TypeOK
<1>4. f.class = MANUFACTURER_SPECIFIC
  <2>1. commands[n][f.class] \in KindOf(f.class)
    BY <1>2, <1>3
  <2> QED BY <1>1, <1>2, <2>1, KindFacts
<1>5. /\ product = device[n]["product"] /\ product \in Nat /\ product # None
      /\ old \in [Param -> Nat] /\ old["product"] = product
      /\ old["blinds"] = tracked[n]["blinds"] /\ old["slat"] = tracked[n]["slat"]
  <2>1. product = device[n]["product"]
    BY <1>2, <1>4
  <2>2. device[n]["product"] \in Nat
    BY <1>3 DEF Param
  <2>3. tracked[n] \in [Param -> Nat]
    BY <1>3
  <2> HIDE DEF product
  <2> QED BY <2>1, <2>2, <2>3 DEF Param, None
<1>6. /\ \A c \in Class : made[c] \in KindOf(c)
      /\ made[CONFIGURATION] = "FibaroFgr222Config"
      /\ made[MANUFACTURER_PROPRIETARY] = "FibaroFgr222"
      /\ made[BASIC] = "none" /\ made[MANUFACTURER_SPECIFIC] = "none"
  BY DEF Fibaro, KindOf, Class, BASIC, CONFIGURATION, MANUFACTURER_SPECIFIC,
         MANUFACTURER_PROPRIETARY
<1>7. /\ gets \in Seq(Request)
      /\ \A r \in Range(gets) : \E c \in Class :
            made[c] \notin {"none", "ConfigCommand"} /\ r = GetRequest(n, c)
      /\ \A c \in Class : made[c] \notin {"none", "ConfigCommand"} =>
             GetRequest(n, c) \in Range(gets)
  BY GetsFacts
<1> HIDE DEF f, product, old, made, gets
<1>8. /\ commands' \in [Nodes -> [Class -> Kind]]
      /\ tracked' \in [Nodes -> [Param -> Nat]]
      /\ \A m \in Nodes \ {n} : commands'[m] = commands[m] /\ tracked'[m] = tracked[m]
      /\ \A c \in Class : commands'[n][c] \in KindOf(c)
      /\ commands'[n][MANUFACTURER_SPECIFIC] = commands[n][MANUFACTURER_SPECIFIC]
      /\ tracked'[n]["product"] = product
  <2>1. CASE Install(n, made, old)
    <3>1. /\ commands' \in [Nodes -> [Class -> Kind]]
          /\ tracked' \in [Nodes -> [Param -> Nat]]
          /\ \A m \in Nodes \ {n} : commands'[m] = commands[m] /\ tracked'[m] = tracked[m]
          /\ \A c \in Class :
                /\ commands'[n][c] = IF made[c] = "none" THEN commands[n][c] ELSE made[c]
                /\ commands'[n][c] \in KindOf(c)
          /\ \A p \in Param : (\A c \in Class : made[c] = "none" \/ p \notin Members[c])
                => tracked'[n][p] = old[p]
      <4>1. TypeOK /\ old \in [Param -> Nat] /\ (\A c \in Class : made[c] \in KindOf(c))
        BY <1>2, <1>5, <1>6
      <4> QED BY <2>1, <4>1, InstallFacts
    <3>2. \A c \in Class : made[c] = "none" \/ "product" \notin Members[c]
      BY <1>6, ClassFacts DEF Class
    <3>3. tracked'[n]["product"] = product
      BY <1>5, <3>1, <3>2 DEF Param
    <3> QED BY <1>6, <3>1, <3>3, ClassFacts
  <2>2. CASE tracked' = [tracked EXCEPT ![n] = old] /\ commands' = commands
    BY <1>3, <1>5, <2>2
  <2> QED BY <1>1, <2>1, <2>2
<1>9. /\ queue' \in Seq(Request) /\ Range(queue) \subseteq Range(queue')
      /\ \A r \in Range(queue') :
            r \in Range(queue) \/ \E c \in Class : r = GetRequest(n, c)
      /\ queue' = queue \o gets => Range(queue') = Range(queue) \cup Range(gets)
  <2>1. CASE queue' = queue \o gets
    <3>1. queue' \in Seq(Request) /\ Range(queue') = Range(queue) \cup Range(gets)
      <4>1. queue \in Seq(Request) /\ gets \in Seq(Request)
        BY <1>3, <1>7
      <4> QED BY <2>1, <4>1, ConcatRange
    <3> QED BY <1>7, <3>1
  <2>2. CASE queue' = queue /\ product # FGR222
    <3>1. queue' = queue \o gets => queue \o gets \in Seq(Request)
            /\ Range(queue \o gets) = Range(queue) \cup Range(gets)
      BY <1>3, <1>7, ConcatRange, ZenonT(30)
    <3> QED BY <1>3, <2>2, <3>1
  <2> QED BY <1>1, <2>1, <2>2
<1>10. /\ deviceName' \in [Nodes -> {"", "Fibaro FGR-222"}]
       /\ \A m \in Nodes \ {n} : deviceName'[m] = deviceName[m]
  BY <1>1, <1>3
<1>11. commands'[n][MANUFACTURER_SPECIFIC] = "ManufacturerSpecificCommand"
  BY <1>1, <1>4, <1>8 DEF f
<1>12. lost = 0 /\ Shutter(n) => OnTheWay(n)'
  <2> HAVE lost = 0 /\ Shutter(n)
  <2>1. product = FGR222
    BY <1>5 DEF Shutter
  <2>2. Install(n, made, old) /\ deviceName' = [deviceName EXCEPT ![n] = "Fibaro FGR-222"]
    BY <1>1, <2>1
  <2>3. \A c \in Class :
           commands'[n][c] = IF made[c] = "none" THEN commands[n][c] ELSE made[c]
    BY <1>2, <1>5, <1>6, <2>2, InstallFacts
  <2>4. Installed(n)'
    BY <1>3, <1>6, <2>2, <2>3, ClassFacts DEF Installed
  <2> QED BY <2>4 DEF OnTheWay
<1>13. ASSUME lost = 0, NEW c \in Reported, NEW p \in Members[c],
              commands'[n][c] # "none", GetRequest(n, c) \notin Range(queue')
       PROVE  Current(n, p)'
  <2>1. air'[n] = Tail(air[n]) /\ air[n] \in Seq(Frame)
    BY <1>2, <1>3, TakenFacts
  <2>2. CASE c = MANUFACTURER_SPECIFIC
    <3>1. p = "product" /\ commands[n][c] # "none"
          /\ GetRequest(n, c) \notin Range(queue)
      BY <1>9, <1>8, <1>13, <2>2, ClassFacts
    <3>2. WillBe(air[n], p, tracked[n][p], device[n][p])
      BY <1>13, <3>1 DEF IInv, FreshInv, Current
    <3>3. Has(f, p) /\ f.values[p] = product
      BY <1>2, <1>5, <3>1 DEF Has, product
    <3>4. WillBe(Tail(air[n]), p, product, device[n][p])
      BY <1>2, <2>1, <3>2, <3>3, WillBeReceived DEF f
    <3> QED BY <1>2, <1>8, <2>1, <3>1, <3>4 DEF Current
  <2>3. CASE c = MANUFACTURER_PROPRIETARY
    <3>1. product # FGR222
      <4>1. ASSUME product = FGR222 PROVE FALSE
        <5>1. queue' = queue \o gets
          BY <1>1, <4>1
        <5>2. GetRequest(n, c) \in Range(gets)
          BY <1>6, <1>7, <2>3, ClassFacts
        <5> QED BY <1>9, <1>13, <5>1, <5>2
      <4> QED BY <4>1
    <3>2. tracked' = [tracked EXCEPT ![n] = old] /\ commands' = commands /\ queue' = queue
      BY <1>1, <3>1
    <3>3. p \in {"blinds", "slat"} /\ p \in Param
      BY <2>3, ClassFacts DEF Param
    <3>4. tracked'[n][p] = tracked[n][p]
      BY <1>3, <1>5, <3>2, <3>3
    <3>5. WillBe(air[n], p, tracked[n][p], device[n][p])
      BY <1>13, <3>2 DEF IInv, FreshInv, Current
    <3>6. ~Has(f, p)
      BY <1>2, <1>4, <3>3, ClassFacts DEF Has, Carries
    <3>7. WillBe(Tail(air[n]), p, tracked[n][p], device[n][p])
      BY <1>2, <2>1, <3>5, <3>6, WillBeReceived DEF f
    <3> QED BY <1>2, <2>1, <3>4, <3>7 DEF Current
  <2> QED BY <2>2, <2>3 DEF Reported
<1> QED BY <1>2, <1>8, <1>9, <1>10, <1>11, <1>12, <1>13, ReceiveStep
-----------------------------------------------------------------------------
(* The theorems *)

\* The constructor's request is what every table is waiting for at first.
LEMMA InitIInv == Init => IInv /\ StuckInv
<1> SUFFICES ASSUME Init PROVE IInv
  BY DEF Init, StuckInv
<1>1. /\ stuck = FALSE
      /\ commands = [n \in Nodes |-> [c \in Class |-> "none"]]
      /\ tracked = [n \in Nodes |-> [p \in Param |-> 0]]
      /\ deviceName = [n \in Nodes |-> ""] /\ device = Start
  BY DEF Init
<1>2. queue \in Seq(Request) /\ Range(queue) = {Discover}
  <2>1. Discover \in Request
    BY DEF Request
  <2>2. <<Discover>> \in Seq(Request)
    BY <2>1
  <2>3. Range(<<Discover>>) = {Discover}
    BY ShortRange
  <2>4. queue = <<Discover>>
    BY DEF Init
  <2> QED BY <2>2, <2>3, <2>4
<1>3. \A n \in Nodes : air[n] = <<>> /\ Range(air[n]) = {}
  BY ShortRange DEF Init
<1>4. \A n \in Nodes, c \in Class : commands[n][c] = "none"
  BY <1>1
<1>5. TypeOK
  <2>1. MaxPosts \in Nat /\ MaxEvents \in Nat /\ MaxFaults \in Nat
    BY BoundsAssumption
  <2>2. posts \in 0..MaxPosts /\ events \in 0..MaxEvents
        /\ lost \in 0..MaxFaults /\ repeats \in 0..MaxFaults
    <3>1. posts = 0 /\ events = 0 /\ lost = 0 /\ repeats = 0
      BY DEF Init
    <3> QED BY <2>1, <3>1
  <2>3. air \in [Nodes -> Seq(Frame)]
    <3>1. <<>> \in Seq(Frame)
      OBVIOUS
    <3>2. air = [n \in Nodes |-> <<>>]
      BY DEF Init
    <3> QED BY <3>1, <3>2
  <2>4. commands \in [Nodes -> [Class -> Kind]]
    BY <1>1 DEF Kind
  <2>5. \A c \in Class : "none" \in KindOf(c)
    BY DEF KindOf, Class, BASIC, CONFIGURATION, MANUFACTURER_SPECIFIC,
           MANUFACTURER_PROPRIETARY
  <2>6. device \in [Nodes -> [Param -> Nat]]
    BY <1>1, NodesAssumption
  <2>7. tracked \in [Nodes -> [Param -> Nat]]
    BY <1>1
  <2>8. deviceName \in [Nodes -> {"", "Fibaro FGR-222"}]
    BY <1>1
  <2> QED BY <1>1, <1>2, <1>4, <2>2, <2>3, <2>4, <2>5, <2>6, <2>7, <2>8 DEF TypeOK
<1>6. SetsAreOwn /\ ReportsAreOwn /\ AskedIsThere
  <2>1. Discover.op = "discover"
    BY DEF Discover
  <2>2. SetsAreOwn
    BY <1>2, <2>1 DEF SetsAreOwn
  <2>3. ReportsAreOwn
    BY <1>3 DEF ReportsAreOwn
  <2>4. \A n \in Nodes : GetRequest(n, MANUFACTURER_SPECIFIC) # Discover
    BY <2>1 DEF GetRequest
  <2>5. AskedIsThere
    BY <1>2, <1>3, <2>4 DEF AskedIsThere
  <2> QED BY <2>2, <2>3, <2>5
<1>7. TableInv
  BY <1>2 DEF TableInv, OnTheWay
<1>8. FreshInv
  BY <1>4, KindFacts DEF FreshInv
<1> QED BY <1>5, <1>6, <1>7, <1>8 DEF IInv

\* No step of clients, protocol, host or nodes disturbs it.
LEMMA NextIInv == IInv /\ StuckInv /\ [Next]_vars => IInv' /\ StuckInv'
<1> SUFFICES ASSUME IInv, StuckInv, [Next]_vars PROVE IInv'
  BY StuckStep DEF IInv
<1>1. CASE OnResponse
  BY <1>1, OnResponseStep
<1>2. CASE Deliver
  <2>1. repeats' \in 0..MaxFaults
    BY <1>2 DEF Deliver, IInv, TypeOK
  <2> QED BY <1>2, <2>1, CarryOutStep DEF Deliver
<1>3. CASE Repeat
  <2>1. TypeOK /\ lost + repeats < MaxFaults /\ repeats' = repeats + 1
    BY <1>3 DEF Repeat, IInv
  <2>2. repeats' \in 0..MaxFaults
    BY <2>1, BoundsFacts
  <2> QED BY <1>3, <2>2, CarryOutStep DEF Repeat
<1>4. CASE LoseRequest
  BY <1>4, LoseRequestStep
<1>5. CASE Receive
  BY <1>5, ReceiveNodeInfoStep, IgnoreStep, TrackStep, IdentifyStep DEF Receive
<1>11. CASE Stray
  BY <1>11, StrayStep
<1>6. ASSUME NEW n \in Nodes, Announce(n) PROVE IInv'
  BY <1>6, AnnounceStep
<1>7. ASSUME NEW n \in Nodes, LoseFrame(n) PROVE IInv'
  BY <1>7, LoseFrameStep
<1>8. ASSUME NEW n \in Nodes, NEW post \in Posts, SendSetParameters(n, post) PROVE IInv'
  BY <1>8, SendSetStep
<1>9. ASSUME NEW n \in Nodes, NEW p \in Members[MANUFACTURER_PROPRIETARY],
             NEW v \in Position, Turn(n, p, v)
      PROVE  IInv'
  BY <1>9, TurnStep
<1>10. CASE UNCHANGED vars
  BY <1>10
     DEF vars, hostVars, IInv, TypeOK, SetsAreOwn, ReportsAreOwn, AskedIsThere,
         IsProduct, Carries, TableInv, Shutter, Classes, Header, OnTheWay, Installed,
         FreshInv, Current
<1> QED
  BY <1>1, <1>2, <1>3, <1>4, <1>5, <1>6, <1>7, <1>8, <1>9, <1>10, <1>11 DEF Next

\* When nothing is under way, being on the way is having arrived.
LEMMA TableWhenQuiet == IInv => QuietTable
<1> SUFFICES ASSUME IInv, Quiet, lost = 0, NEW n \in Nodes \ {Controller},
                    MANUFACTURER_SPECIFIC \in Classes(n), device[n].product = FGR222
             PROVE  Installed(n)
  BY DEF QuietTable, Installed
<1>1. OnTheWay(n)
  BY DEF IInv, TableInv, Shutter
<1>2. Range(queue) = {} /\ Range(air[n]) = {}
  BY ShortRange DEF Quiet
<1> QED BY <1>1, <1>2 DEF OnTheWay

\* When nothing is under way, what will be known is known.
LEMMA GetWhenQuiet == IInv => QuietGetIsTrue
<1> SUFFICES ASSUME IInv, Quiet, lost = 0, NEW n \in Nodes,
                    NEW p \in {"product", "blinds", "slat"},
                    Get(n)[p] # None
             PROVE  Get(n)[p] = device[n][p]
  BY DEF QuietGetIsTrue
<1>1. p \in Param
  BY DEF Param
<1>2. PICK c \in Class : commands[n][c] # "none" /\ p \in Members[c]
  BY <1>1 DEF Get, Only
<1>3. Get(n)[p] = tracked[n][p]
  BY <1>1 DEF Get, Only
<1>4. c \in Reported
  BY <1>2, ClassFacts DEF Class, Reported
<1>5. Range(queue) = {} /\ air[n] = <<>>
  BY ShortRange DEF Quiet
<1>6. Current(n, p)
  BY <1>2, <1>4, <1>5 DEF IInv, FreshInv
<1>7. tracked[n][p] = device[n][p]
  BY <1>5, <1>6 DEF Current, WillBe
<1> QED BY <1>3, <1>7

\* TypeCorrect: every variable has its type in every reachable state; above
\* all, each class of a node has an object that can be made for it, and a
\* report never leaves a member without a value.
THEOREM TypeCorrect == Spec => []TypeOK
<1>1. IInv => TypeOK
  BY DEF IInv
<1> QED BY InitIInv, NextIInv, <1>1, PTL DEF Spec

\* TableCorrect: when all is done and nothing was lost, each FGR-222 whose
\* frame led updateNode to ask for the manufacturer has its own command
\* objects, however often it sent its frame and whatever clients and the
\* radio did meanwhile.
THEOREM TableCorrect == Spec => []QuietTable
BY InitIInv, NextIInv, TableWhenQuiet, PTL DEF Spec

\* GetCorrect: when all is done and nothing was lost, a GET returns the true
\* product and positions, also after requests that were repeated and command
\* objects that were made anew.
THEOREM GetCorrect == Spec => []QuietGetIsTrue
BY InitIInv, NextIInv, GetWhenQuiet, PTL DEF Spec
=============================================================================
