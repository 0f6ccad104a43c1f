-------------------------- MODULE HttpClientProofs --------------------------
(***************************************************************************)
(* What HttpChannel makes of the messages of HttpClient, for all scripts   *)
(* and however the stream is split, proved with TLAPS.                     *)
(*                                                                         *)
(* The inductive invariant ClientInv tells, for each state of the parser,  *)
(* which part of the script was read and which is ahead, and what the      *)
(* callbacks have collected of it.  It holds until a message that switches *)
(* protocols is handled (Lost) or the parser has found an error.           *)
(***************************************************************************)
EXTENDS HttpChannelProofs

-----------------------------------------------------------------------------
(* Where the parser stands in what a client has written *)

\* The bytes of the script, and those the parser has not read.
Written == ScriptBytes(script)
Ahead   == From(Written, pos)

\* The message whose head is read, and the one handled last.
Reading == script[Current + 1]
Open    == script[Current]

\* The section of headers that is read, of a trailer or of a head, and what is
\* written behind it.
Trailing == "TRAILING" \in parser.flags
Fields   == IF Trailing THEN Open.trailer ELSE Reading.headers
Behind   == IF Trailing THEN Later(script, Current)
                        ELSE Content(Reading) \o Later(script, Current + 1)

\* What is ahead when r symbols of a url, of a value and of a name are read.
AfterMethod(r) ==
  From(Reading.url, r) \o (<<Reading.version>> \o
    Lines(Reading.headers, 0, Content(Reading) \o Later(script, Current + 1)))
AfterColon(j, r) == From(Fields[j].value, r) \o (<<Eol>> \o Lines(Fields, j, Behind))
AfterName(j, r)  == From(Fields[j].name, r) \o (<<":">> \o AfterColon(j, 0))

\* A message whose protocol is switched was handled.
Lost == \E i \in 1..Current : Switches(script[i])

\* What the callbacks have collected, with the part that is marked.
Virtual == HeadAfter(mark.part, mark.bytes)

\* The parts of a head.
Gathered(url, field, value, valid, headers) ==
  [urlOrStatus |-> url, field |-> field, value |-> value, valueValid |-> valid,
   headers |-> headers]

Idle == Gathered(<<>>, <<>>, <<>>, FALSE, {})

\* What is collected of the message read: the url, the first j headers, and
\* the parts of the next.
Pairs(headers, j) == {<<headers[i].name, headers[i].value>> : i \in 1..j}

Partial(j, field, value, valid) ==
  Gathered(Reading.url, field, value, valid, Pairs(Reading.headers, j))

HeadRead(j) == Partial(j, <<>>, <<>>, FALSE)

\* The body of the message handled last, with what is marked.
BodyRead == received[Current].body \o (IF mark.part = "body" THEN mark.bytes ELSE <<>>)

\* The length announced by the headers read.
LengthRead ==
  IF "CONTENTLENGTH" \in parser.flags
    THEN Reading.chunks = <<>> => parser.contentLength = Len(Reading.body)
    ELSE parser.contentLength = 0

\* The parser is in the head of the next message, ...
InHead == /\ Current < Len(script)
          /\ parser.method = Reading.method

\* ... or in the message handled last: ...
InOpen == /\ Current \in 1..Len(script)
          /\ parser.version = Open.version
          /\ ~parser.upgrade

HeadsFlags == HeadFlags(Open.headers, Len(Open.headers))

\* ... in its trailer, ...
InTrailer == /\ InOpen
             /\ Open.chunks # <<>>
             /\ PlainUpTo(Current) => received[Current].body = BodyOf(Open)
             /\ Open.trailer = <<>> =>
                  /\ parser.flags = HeadsFlags \cup {"TRAILING"}
                  /\ PlainUpTo(Current) => channel = Idle

\* ... in headers of either kind, ...
InSection == IF Trailing THEN InTrailer ELSE InHead /\ parser.version = Reading.version

\* ... or in its body.
InBody == /\ InOpen
          /\ parser.flags = HeadsFlags
          /\ PlainUpTo(Current) => channel = Idle

\* In front of a message.
AtStart ==
  /\ Current <= Len(script)
  /\ Ahead = Later(script, Current)
  /\ mark = NoMark
  /\ PlainUpTo(Current + 1) => channel = Idle

\* r symbols of the url are read.
AtUrl(r) ==
  /\ InHead
  /\ r \in 0..Len(Reading.url)
  /\ parser.state = "url_start" => r = 0 /\ mark = NoMark
  /\ parser.state = "url" => r # 0
  /\ parser.flags = {} /\ parser.contentLength = 0
  /\ Ahead = AfterMethod(r)
  /\ PlainUpTo(Current + 1) => Virtual = Gathered(Upto(Reading.url, r), <<>>, <<>>, FALSE, {})

\* j headers are read.
AtLine(j) ==
  /\ InSection
  /\ j \in 0..Len(Fields)
  /\ Ahead = Lines(Fields, j, Behind)
  /\ mark = NoMark
  /\ ~Trailing =>
       /\ parser.flags = HeadFlags(Fields, j)
       /\ LengthRead
       /\ PlainUpTo(Current + 1) => MoveHeader(channel) = HeadRead(j)

\* r symbols of the name of the j-th header are read.
AtName(j, r) ==
  /\ InSection
  /\ j \in 1..Len(Fields) /\ r \in 1..Len(Fields[j].name)
  /\ parser.headerState = Kind(Upto(Fields[j].name, r))
  /\ Ahead = AfterName(j, r)
  /\ ~Trailing =>
       /\ parser.flags = HeadFlags(Fields, j - 1)
       /\ LengthRead
       /\ PlainUpTo(Current + 1) =>
            Virtual = Partial(j - 1, Upto(Fields[j].name, r), <<>>, FALSE)

\* The colon of the j-th header is read.
AtColon(j) ==
  /\ InSection
  /\ j \in 1..Len(Fields)
  /\ parser.headerState = Kind(Fields[j].name)
  /\ Ahead = AfterColon(j, 0)
  /\ mark = NoMark
  /\ ~Trailing =>
       /\ parser.flags = HeadFlags(Fields, j - 1)
       /\ LengthRead
       /\ PlainUpTo(Current + 1) => channel = Partial(j - 1, Fields[j].name, <<>>, FALSE)

\* r symbols of the value of the j-th header are read.
AtValue(j, r) ==
  /\ InSection
  /\ j \in 1..Len(Fields) /\ r \in 1..Len(Fields[j].value)
  /\ Ahead = AfterColon(j, r)
  /\ ~Trailing =>
       /\ parser.headerState = ValueKind(Fields[j], r)
       /\ parser.flags = HeadFlags(Fields, j - 1) \cup FlagsRead(Fields[j], r)
       /\ IF parser.headerState = "content-length"
            THEN r = 1 /\ parser.contentLength = Value[Fields[j].value[1]]
            ELSE LengthRead
       /\ PlainUpTo(Current + 1) =>
            Virtual = Partial(j - 1, Fields[j].name, Upto(Fields[j].value, r), TRUE)

\* r symbols of the body are read.
AtBody(r) ==
  /\ InBody
  /\ Open.chunks = <<>>
  /\ r \in 0..(Len(Open.body) - 1)
  /\ parser.contentLength = Len(Open.body) - r
  /\ Ahead = From(Open.body, r) \o Later(script, Current)
  /\ PlainUpTo(Current) => BodyRead = Upto(Open.body, r)

\* The data of the first j chunks.
BodyUpto(j) == FlattenSeq(Upto(Open.chunks, j))

InChunks(j) ==
  /\ InBody
  /\ Open.chunks # <<>>
  /\ j \in 0..Len(Open.chunks)

\* j chunks of the body are read.
AtChunk(j) ==
  /\ InChunks(j)
  /\ mark = NoMark
  /\ Ahead = ChunkLines(Open, j, Later(script, Current))
  /\ PlainUpTo(Current) => received[Current].body = BodyUpto(j)

\* The size of the next chunk is read, or that of the last, which is 0.
AtChunkSize(j) ==
  /\ InChunks(j)
  /\ mark = NoMark
  /\ IF j = Len(Open.chunks)
       THEN /\ parser.contentLength = 0
            /\ Ahead = <<Eol>> \o Lines(Open.trailer, 0, Later(script, Current))
       ELSE /\ parser.contentLength = Len(Open.chunks[j + 1])
            /\ Ahead = <<Eol>> \o (Open.chunks[j + 1] \o
                         (<<Eol>> \o ChunkLines(Open, j + 1, Later(script, Current))))
  /\ PlainUpTo(Current) => received[Current].body = BodyUpto(j)

\* r symbols of the j-th chunk are read.
AtChunkData(j, r) ==
  /\ InChunks(j)
  /\ j >= 1 /\ r \in 0..Len(Open.chunks[j])
  /\ parser.state = "chunk_data" <=> r # Len(Open.chunks[j])
  /\ parser.contentLength = Len(Open.chunks[j]) - r
  /\ Ahead = From(Open.chunks[j], r) \o (<<Eol>> \o ChunkLines(Open, j, Later(script, Current)))
  /\ PlainUpTo(Current) => BodyRead = BodyUpto(j - 1) \o Upto(Open.chunks[j], r)

\* The state of the parser tells where in the message it is.
Place ==
  /\ parser.state \in {"start_req", "dead"} => AtStart
  /\ parser.state \in {"url_start", "url"} => \E r \in Nat : AtUrl(r)
  /\ parser.state = "field_start" => \E j \in Nat : AtLine(j)
  /\ parser.state = "field" => \E j, r \in Nat : AtName(j, r)
  /\ parser.state = "value_start" => \E j \in Nat : AtColon(j)
  /\ parser.state = "value" => \E j, r \in Nat : AtValue(j, r)
  /\ parser.state = "body_identity" => \E r \in Nat : AtBody(r)
  /\ parser.state = "chunk_size_start" => \E j \in Nat : AtChunk(j)
  /\ parser.state = "chunk_size" => \E j \in Nat : AtChunkSize(j)
  /\ parser.state \in {"chunk_data", "chunk_data_done"} => \E j, r \in Nat : AtChunkData(j, r)

\* The messages that were handled are those that were written.
Same(i) ==
  /\ received[i].method = script[i].method
  /\ received[i].url = script[i].url
  /\ received[i].headers = HeadersOf(script[i])
  /\ ~Switches(script[i]) =>
       /\ IsPrefix(received[i].body, BodyOf(script[i]))
       /\ received[i].ended => received[i].body = BodyOf(script[i])

\* The requests that were handled are those that were sent.
Sent == \A i \in 1..Current : PlainUpTo(i) => Same(i)

\* In a value there is no end of line behind the colon.
BehindColon == \E k \in 1..pos : Written[k] = ":" /\ \A q \in k..pos : Written[q] # Eol

\* The byte that is garbled was not parsed.
Unharmed ==
  /\ parser.errno = "OK" => garbled = 0 \/ pos < garbled
  /\ garbled # 0 => \A i \in 1..Current : i <= Len(script) /\ headEnd[i] < garbled
  /\ parser.errno = "OK" /\ parser.state \in {"value_start", "value"} /\ ~Lost => BehindColon

\* The rules of HandledWhenComplete are kept.
Orderly == garbled = 0 /\ PlainUpTo(Len(script)) /\ \A m \in Range(script) : ~Refused(m)

\* No message is to be handled any more.
Stopped == Current >= Len(script) \/ (Current >= 1 /\ Closes(script[Current]))

\* What was handled is what was complete.
Punctual ==
  /\ PlainUpTo(Len(script)) =>
       /\ Lost => Current >= Len(script)
       /\ \A i \in 1..Len(script) : i <= Current => headEnd[i] <= pos
  /\ Orderly =>
       /\ \A j \in 1..(Len(script) - 1) : j < Current => ~Closes(script[j])
       /\ parser.errno # "OK" \/ parser.state = "dead" => Stopped
       /\ parser.errno = "OK" /\ ~InMessage(parser) /\ parser.state # "dead" =>
            \A j \in 1..(Len(script) - 1) : j <= Current => ~Closes(script[j])

\* What is marked belongs to the part that is read.
Marked ==
  /\ mark.part = "none" => mark = NoMark
  /\ mark.part \in {"url", "field", "value"} => parser.state = mark.part
  /\ parser.errno = "OK" /\ parser.state \in {"url", "field", "value"} /\ pos < chunkEnd =>
       mark.part = parser.state
  /\ parser.errno # "OK" => mark = NoMark

\* What the client wrote does not change.
Fixed ==
  /\ script \in Scripts
  /\ garbled \in {0} \cup IF script \in Garbled THEN Decisive(script) ELSE {}
  /\ headEnd = [i \in DOMAIN script |-> HeadEnd(script, i)]
  /\ stream = Garble(Written, garbled)

\* The inductive invariant.
ClientInv ==
  /\ Fixed
  /\ Marked
  /\ parser.errno = "OK" /\ ~Lost => Place
  /\ Sent
  /\ Unharmed
  /\ Punctual

-----------------------------------------------------------------------------
(* What is parsed of what was written *)

\* The stream is what was written, but for the garbled byte.
LEMMA StreamFacts ==
  ASSUME Inv, Fixed
  PROVE  /\ Written \in Text /\ Len(Written) \in Nat
         /\ pos \in Nat /\ chunkEnd \in Nat /\ pos <= chunkEnd /\ chunkEnd <= Len(Written)
         /\ pos \in 0..Len(Written)
         /\ garbled # 0 => script \in Garbled /\ garbled \in Decisive(script)
                           /\ garbled \in 1..Len(Written) /\ stream[garbled] = Bad
         /\ \A n \in 1..Len(Written) : n # garbled => stream[n] = Written[n]
         /\ script \in Scripts /\ Len(script) \in Nat /\ Current \in Nat
<1>1. script \in Scripts /\ Written \in Text /\ Len(script) \in Nat
  BY ScriptType, MessageTextsType DEF Fixed, Written
<1>2. garbled # 0 => script \in Garbled /\ garbled \in Decisive(script)
  BY DEF Fixed
<1>3. garbled # 0 => garbled \in 1..Len(Written)
  BY <1>2 DEF Decisive, Written
<1>4. stream = IF garbled = 0 THEN Written ELSE [Written EXCEPT ![garbled] = Bad]
  BY DEF Fixed, Garble
<1> HIDE DEF Written
<1>5. Len(stream) = Len(Written)
  BY <1>1, <1>3, <1>4 DEF Text
<1>6. /\ garbled # 0 => stream[garbled] = Bad
      /\ \A n \in 1..Len(Written) : n # garbled => stream[n] = Written[n]
  BY <1>1, <1>3, <1>4 DEF Text
<1>7. pos \in 0..chunkEnd /\ chunkEnd \in 0..Len(stream) /\ Current \in Nat /\ Len(stream) \in Nat
  BY DEF Inv, TypeOK, Current
<1>8. /\ pos \in Nat /\ chunkEnd \in Nat /\ pos <= chunkEnd /\ chunkEnd <= Len(Written)
      /\ pos \in 0..Len(Written) /\ Len(Written) \in Nat
  BY <1>5, <1>7
<1> QED BY <1>1, <1>2, <1>3, <1>6, <1>7, <1>8

\* The symbol that is parsed is the next of those ahead.
LEMMA Sees ==
  ASSUME Inv, Fixed, pos < chunkEnd, pos + 1 # garbled,
         NEW x \in Symbols, NEW rest \in Text, Ahead = <<x>> \o rest
  PROVE  Symbol = x /\ From(Written, pos + 1) = rest
<1>1. pos \in 0..(Len(Written) - 1) /\ pos + 1 \in 1..Len(Written)
  BY StreamFacts
<1>2. Written[pos + 1] = x /\ From(Written, pos + 1) = rest
  BY <1>1, StreamFacts, Advance DEF Ahead, Text
<1> QED BY <1>1, <1>2, StreamFacts DEF Symbol

\* There is one.
LEMMA SomethingAhead ==
  ASSUME Inv, Fixed, pos < chunkEnd
  PROVE  Ahead # <<>> /\ pos + 1 \in 1..Len(Written)
<1>1. Len(Written) - pos > 0 /\ pos + 1 \in 1..Len(Written)
  BY StreamFacts
<1>2. Len(Ahead) = Len(Written) - pos
  BY StreamFacts, Pieces DEF Ahead, Text
<1> QED BY <1>1, <1>2

\* The messages before, at and behind the one that is read.
LEMMA ReadingFacts ==
  ASSUME Inv, Fixed, Current < Len(script)
  PROVE  /\ Current + 1 \in 1..Len(script) /\ Current \in 0..Len(script)
         /\ Current + 1 \in 0..Len(script)
         /\ Proper(Reading) /\ Sound(Reading)
         /\ Content(Reading) \in Text /\ Later(script, Current + 1) \in Text
         /\ Content(Reading) \o Later(script, Current + 1) \in Text
         /\ Later(script, Current) =
              <<Reading.method>> \o (Reading.url \o (<<Reading.version>> \o
                Lines(Reading.headers, 0, Content(Reading) \o Later(script, Current + 1))))
<1>1. /\ Current + 1 \in 1..Len(script) /\ Current \in 0..Len(script) /\ Current # Len(script)
      /\ Current + 1 \in 0..Len(script) /\ script \in Scripts
  BY StreamFacts
<1>2. Proper(Reading) /\ Sound(Reading)
  BY <1>1, ScriptProper DEF Reading, Proper
<1>3. /\ Later(script, Current + 1) \in Text
      /\ Later(script, Current) =
           HeadBytes(Reading) \o (Content(Reading) \o Later(script, Current + 1))
  BY <1>1, LaterUnfolds DEF Reading
<1>4. Content(Reading) \in Text
  BY <1>2, MessageUnfolds
<1>5. Content(Reading) \o Later(script, Current + 1) \in Text
  BY <1>3, <1>4, Together
<1>6. \A rest \in Text :
        HeadBytes(Reading) \o rest =
          <<Reading.method>> \o (Reading.url \o (<<Reading.version>> \o
            Lines(Reading.headers, 0, rest)))
  BY <1>2, MessageUnfolds
<1> QED BY <1>1, <1>2, <1>3, <1>4, <1>5, <1>6

\* The message handled last, and what is written behind it.
LEMMA OpenFacts ==
  ASSUME Inv, Fixed, Current \in 1..Len(script)
  PROVE  /\ Current \in 0..Len(script)
         /\ Proper(Open) /\ Sound(Open)
         /\ Later(script, Current) \in Text
<1>1. Current \in 0..Len(script) /\ script \in Scripts
  BY StreamFacts
<1> QED BY <1>1, ScriptProper, LaterUnfolds DEF Open, Proper

\* The parts of a message.
LEMMA ProperParts ==
  ASSUME NEW m, Proper(m)
  PROVE  /\ m.method \in Methods /\ m.version \in Versions
         /\ m.url \in Text /\ m.url # <<>>
         /\ \A i \in 1..Len(m.url) : m.url[i] \notin Versions \cup {Eol, Bad}
         /\ m.headers \in Seq(Field) /\ m.trailer \in Seq(Field) /\ m.body \in Text
         /\ \A i \in 1..Len(m.headers) : WellFormed(m.headers[i])
<1>1. /\ m.method \in Methods /\ m.version \in Versions
      /\ m.url \in Seq(Symbols \ (Versions \cup {Eol, Bad})) /\ m.url # <<>>
      /\ m.headers \in Seq(Field) /\ m.trailer \in Seq(Field) /\ m.body \in Text
      /\ \A i \in 1..Len(m.headers) : WellFormed(m.headers[i])
  BY DEF Proper, Sound, Request
<1>2. m.url \in Text
  BY <1>1 DEF Text
<1>3. \A i \in 1..Len(m.url) : m.url[i] \notin Versions \cup {Eol, Bad}
  BY <1>1
<1> QED BY <1>1, <1>2, <1>3

\* The parts of a field.
LEMMA FieldParts ==
  ASSUME NEW h \in Field
  PROVE  /\ h.name \in Text /\ h.name # <<>> /\ h.value \in Text
         /\ \A i \in 1..Len(h.name) : IsToken(h.name[i])
         /\ \A i \in 1..Len(h.value) : h.value[i] \in Symbols \ {Eol, Bad}
<1>1. /\ h.name \in Seq(Tokens \cup Digits \cup Names) /\ h.name # <<>>
      /\ h.value \in Seq(Symbols \ {Eol, Bad})
  BY DEF Field
<1>2. h.name \in Text /\ h.value \in Text
  BY HeaderUnfolds
<1> QED BY <1>1, <1>2 DEF IsToken

\* What the symbols between the parts are not.
LEMMA Separators ==
  /\ ~IsToken(":") /\ ~IsToken(Eol) /\ ~IsToken(Bad)
  /\ Methods \cap {Eol, Bad} = {} /\ Eol # ":" /\ Bad # Eol /\ Bad # ":"
  /\ Digits \cap {Eol, Bad} = {} /\ Versions \cap {Eol, Bad} = {}
  /\ {":", Eol, Bad} \subseteq Symbols
BY SymbolsAssumption, Vocabulary DEF IsToken, Eol, Bad, Digits, Names, Versions

-----------------------------------------------------------------------------
(* A garbled byte is found *)

\* The symbols of each of several texts are in the text they make.
LEMMA InFlattened ==
  ASSUME NEW seqs \in Seq(Text), NEW j \in 1..Len(seqs), NEW r \in 1..Len(seqs[j])
  PROVE  seqs[j][r] \in Range(FlattenSeq(seqs))
<1> DEFINE u == FlattenSeq(Upto(seqs, j - 1))
           x == seqs[j]
           v == FlattenSeq(From(seqs, j))
<1>1. j - 1 \in 0..(Len(seqs) - 1) /\ j - 1 \in 0..Len(seqs) /\ j \in 0..Len(seqs) /\ (j - 1) + 1 = j
  OBVIOUS
<1>2. FlattenSeq(seqs) = u \o FlattenSeq(From(seqs, j - 1))
  BY <1>1, FlattenWhole
<1>3. FlattenSeq(From(seqs, j - 1)) = x \o v
  BY <1>1, FlattenFrom
<1>4. u \in Text /\ x \in Text /\ v \in Text
  BY <1>1, Pieces, FlattenType
<1> HIDE DEF u, x, v
<1>5. FlattenSeq(seqs) = u \o (x \o v) /\ x \o v \in Text
  BY <1>2, <1>3, <1>4, Together
<1>6. r \in 1..Len(x)
  BY DEF x
<1>7. (x \o v)[r] = x[r] /\ r \in 1..Len(x \o v)
  BY <1>4, <1>6, ConcatProperties DEF Text
<1>8. /\ (u \o (x \o v))[Len(u) + r] = x[r]
      /\ Len(u) + r \in 1..Len(u \o (x \o v)) /\ u \o (x \o v) \in Text
  <2>1. Len(u) \in Nat /\ Len(u) + r > Len(u) /\ (Len(u) + r) - Len(u) = r
    BY <1>4, <1>6 DEF Text
  <2> HIDE DEF Text
  <2>2. Len(u) + r \in 1..(Len(u) + Len(x \o v)) /\ ~(Len(u) + r <= Len(u))
    BY <2>1, <1>7
  <2> QED BY <1>4, <1>5, <1>7, <2>1, <2>2, ConcatProperties DEF Text
<1>9. x[r] \in Range(FlattenSeq(seqs))
  <2>1. FlattenSeq(seqs) \in Text /\ Len(u) + r \in 1..Len(FlattenSeq(seqs))
        /\ FlattenSeq(seqs)[Len(u) + r] = x[r]
    BY <1>5, <1>8
  <2>2. Len(u) + r \in DOMAIN FlattenSeq(seqs)
    BY <2>1 DEF Text
  <2> QED BY <2>1, <2>2 DEF Range
<1> QED BY <1>9 DEF x

\* The byte to be parsed is not garbled when the symbol ahead is data.
LEMMA DataIsNotGarbled ==
  ASSUME Inv, Fixed, pos < chunkEnd, Current \in 1..Len(script),
         NEW x \in Symbols, NEW rest \in Text, Ahead = <<x>> \o rest, x \in Range(BodyOf(Open))
  PROVE  pos + 1 # garbled
<1> SUFFICES ASSUME pos + 1 = garbled PROVE FALSE
  OBVIOUS
<1>1. garbled # 0 /\ pos \in 0..(Len(Written) - 1)
  BY StreamFacts
<1>2. Written[garbled] = x
  BY <1>1, StreamFacts, Advance DEF Ahead, Text
<1>3. Open \in Range(script)
  BY StreamFacts, ScriptType DEF Open
<1>4. Written[garbled] \in UNION {Range(BodyOf(m)) : m \in Range(script)}
  BY <1>2, <1>3
<1>5. garbled \in Decisive(script)
  BY <1>1, StreamFacts
<1> QED BY <1>4, <1>5, Zenon DEF Decisive, Written

\* Nor is it in a value.
LEMMA ValueIsNotGarbled ==
  ASSUME Inv, Fixed, pos < chunkEnd, BehindColon
  PROVE  pos + 1 # garbled
<1> SUFFICES ASSUME pos + 1 = garbled PROVE FALSE
  OBVIOUS
<1>1. garbled # 0 /\ pos \in Nat
  BY StreamFacts
<1>2. PICK k \in 1..pos : Written[k] = ":" /\ \A q \in k..pos : Written[q] # Eol
  BY DEF BehindColon
<1>3. k \in 1..(garbled - 1) /\ garbled - 1 = pos
  BY <1>1
<1>4. garbled \in Decisive(script)
  BY <1>1, StreamFacts
<1> QED BY <1>2, <1>3, <1>4, Zenon DEF Decisive, Written

\* In a script with a garbled byte no protocol is switched.
LEMMA NothingLost ==
  ASSUME Inv, Fixed, Unharmed, garbled # 0
  PROVE  ~Lost
<1>1. script \in Scripts /\ script \in Garbled
  BY StreamFacts
<1>2. \A i \in 1..Current : i \in 1..Len(script)
  <2> SUFFICES ASSUME NEW i \in 1..Current PROVE i \in 1..Len(script)
    OBVIOUS
  <2>1. i <= Len(script) /\ i \in Nat /\ i >= 1
    BY StreamFacts DEF Unharmed
  <2> QED BY <2>1, StreamFacts
<1>3. \A i \in 1..Len(script) : ~Switches(script[i])
  BY <1>1, ScriptType
<1> QED BY <1>2, <1>3 DEF Lost

\* A step that accepts a symbol does not accept the garbled one.
LEMMA Detected ==
  ASSUME Inv, Fixed, Unharmed, ~Lost => Place, Parse, parser'.errno = "OK"
  PROVE  pos + 1 # garbled
<1> SUFFICES ASSUME pos + 1 = garbled PROVE FALSE
  OBVIOUS
<1>1. garbled # 0 /\ pos \in Nat /\ Symbol = Bad
  BY StreamFacts DEF Symbol
<1>2. Place /\ ~Lost
  BY <1>1, NothingLost
<1>3. /\ Symbol \notin Methods /\ Symbol # Eol /\ Symbol \notin Digits /\ ~IsToken(Symbol)
      /\ Symbol # ":" /\ Symbol \notin Versions /\ Symbol \in Versions \cup {Eol, Bad}
  BY <1>1, Separators
<1>4. pos < chunkEnd /\ parser.errno = "OK" /\ parser \in Parser
  BY DEF Parse, In, HeadEnds, EndHead, EndTrailer, ReadMethod, ReadUrl, ReadFieldStart, ReadField,
         ReadEmptyValue, ReadValueStart, ReadContentLength, ReadLengthDigit, ReadValue,
         ReadValueEnd, ReadBody, ReadChunkSize, ReadChunkHeader, ReadChunkData, EndChunkData,
         ReadDead, Inv, TypeOK
<1>5. ASSUME NEW e \in Errors, Fail(e), e # "OK" PROVE FALSE
  BY <1>4, <1>5 DEF Fail, Parser
<1>6. CASE ReadMethod
  BY <1>3, <1>5, <1>6 DEF ReadMethod, Errors
<1>7. CASE ReadUrl
  BY <1>3, <1>5, <1>7 DEF ReadUrl, EndsUrl, Errors
<1>8. CASE ReadFieldStart
  BY <1>3, <1>5, <1>8 DEF ReadFieldStart, Errors
<1>9. CASE ReadField
  BY <1>3, <1>5, <1>9 DEF ReadField, Errors
<1>10. CASE parser.state \in {"value_start", "value"}
  BY <1>2, <1>4, <1>10, ValueIsNotGarbled DEF Unharmed
<1>11. CASE EndHead \/ EndTrailer
  BY <1>3, <1>11 DEF EndHead, EndTrailer, HeadEnds
<1>12. CASE parser.state = "body_identity"
  <2>1. PICK r \in Nat : AtBody(r)
    BY <1>2, <1>12 DEF Place
  <2>2. Current \in 1..Len(script) /\ Open.chunks = <<>> /\ r \in 0..(Len(Open.body) - 1)
        /\ Ahead = From(Open.body, r) \o Later(script, Current)
    BY <2>1 DEF AtBody, InBody, InOpen
  <2>3. Open.body \in Text /\ Later(script, Current) \in Text
    BY <2>2, OpenFacts, ProperParts
  <2> DEFINE x == Open.body[r + 1]
             rest == From(Open.body, r + 1)
  <2>4. /\ x \in Symbols /\ <<x>> \in Text /\ From(Open.body, r) = <<x>> \o rest
        /\ r + 1 \in 0..Len(Open.body) /\ r + 1 \in 1..Len(Open.body)
    BY <2>2, <2>3, Peel DEF Text
  <2>5. rest \in Text
    BY <2>3, <2>4, Pieces DEF Text
  <2>6. x \in Range(BodyOf(Open))
    <3>1. r + 1 \in DOMAIN Open.body
      BY <2>3, <2>4 DEF Text
    <3> QED BY <2>2, <3>1 DEF BodyOf, Range
  <2> HIDE DEF x, rest
  <2>7. Ahead = <<x>> \o (rest \o Later(script, Current)) /\ rest \o Later(script, Current) \in Text
    BY <2>2, <2>3, <2>4, <2>5, Regroup, Together
  <2> QED BY <1>4, <2>2, <2>4, <2>6, <2>7, DataIsNotGarbled
<1>13. CASE ReadChunkSize
  BY <1>3, <1>5, <1>13 DEF ReadChunkSize, Errors
<1>14. CASE ReadChunkHeader
  BY <1>3, <1>14 DEF ReadChunkHeader
<1>15. CASE parser.state = "chunk_data"
  <2>1. PICK j \in Nat, r \in Nat : AtChunkData(j, r)
    BY <1>2, <1>15 DEF Place
  <2>2. /\ Current \in 1..Len(script) /\ Open.chunks # <<>> /\ j \in 1..Len(Open.chunks)
        /\ r \in 0..(Len(Open.chunks[j]) - 1)
        /\ Ahead = From(Open.chunks[j], r) \o (<<Eol>> \o ChunkLines(Open, j, Later(script, Current)))
    <3>1. /\ Current \in 1..Len(script) /\ Open.chunks # <<>>
          /\ j \in 0..Len(Open.chunks) /\ j >= 1 /\ r \in 0..Len(Open.chunks[j])
          /\ r # Len(Open.chunks[j])
          /\ Ahead = From(Open.chunks[j], r) \o (<<Eol>> \o ChunkLines(Open, j, Later(script, Current)))
      BY <1>15, <2>1, Zenon DEF AtChunkData, InChunks, InBody, InOpen
    <3>2. Sound(Open)
      BY <3>1, OpenFacts
    <3>3. j \in 1..Len(Open.chunks)
      BY <3>1
    <3>4. Len(Open.chunks[j]) \in 1..2
      BY <3>2, <3>3, ChunkTextsType
    <3>5. r \in 0..(Len(Open.chunks[j]) - 1)
      BY <3>1, <3>4
    <3> QED BY <3>1, <3>3, <3>5
  <2>3. Sound(Open) /\ Later(script, Current) \in Text
    BY <2>2, OpenFacts
  <2>4. Open.chunks[j] \in Text /\ j \in 0..Len(Open.chunks) /\ Open.chunks \in Seq(Text)
    <3>1. Open.chunks \in Seq(Text)
      BY <2>3 DEF Sound, Request
    <3> QED BY <2>2, <2>3, <3>1, ChunkTextsType
  <2> DEFINE c == Open.chunks[j]
  <2>c. c \in Text /\ r \in 0..(Len(c) - 1)
    BY <2>2, <2>4
  <2> HIDE DEF c
  <2> DEFINE x == c[r + 1]
             rest == From(c, r + 1)
             rear == <<Eol>> \o ChunkLines(Open, j, Later(script, Current))
  <2>5. ChunkLines(Open, j, Later(script, Current)) \in Text
    BY <2>3, <2>4, ChunksUnfold
  <2>6. rear \in Text
    BY <2>5, Vocabulary, Separators, Together
  <2>7. /\ x \in Symbols /\ <<x>> \in Text /\ From(c, r) = <<x>> \o rest
        /\ r + 1 \in 0..Len(c) /\ r + 1 \in 1..Len(c)
    BY <2>c, Peel DEF Text
  <2>8. rest \in Text
    BY <2>c, <2>7, Pieces DEF Text
  <2>9. x \in Range(BodyOf(Open))
    BY <2>2, <2>4, <2>7, InFlattened DEF BodyOf, c
  <2>10. Ahead = From(c, r) \o rear
    BY <2>2 DEF c
  <2> HIDE DEF c, x, rest, rear
  <2>11. Ahead = <<x>> \o (rest \o rear) /\ rest \o rear \in Text
    BY <2>6, <2>7, <2>8, <2>10, Regroup, Together
  <2> QED BY <1>4, <2>2, <2>7, <2>9, <2>11, DataIsNotGarbled
<1>16. CASE EndChunkData
  BY <1>3, <1>5, <1>16 DEF EndChunkData, Errors
<1>17. CASE ReadDead
  BY <1>3, <1>5, <1>17 DEF ReadDead, Errors
<1>18. /\ ReadEmptyValue \/ ReadValueStart \/ ReadContentLength => parser.state = "value_start"
       /\ ReadLengthDigit \/ ReadValue \/ ReadValueEnd => parser.state = "value"
       /\ ReadBody => parser.state = "body_identity"
       /\ ReadChunkData => parser.state = "chunk_data"
  BY DEF ReadEmptyValue, ReadValueStart, ReadContentLength, ReadLengthDigit, ReadValue,
         ReadValueEnd, ReadBody, ReadChunkData, In
<1> QED BY <1>6, <1>7, <1>8, <1>9, <1>10, <1>11, <1>12, <1>13, <1>14, <1>15, <1>16, <1>17, <1>18
        DEF Parse

-----------------------------------------------------------------------------
(* What the callbacks collect *)

\* Texts put together, symbol by symbol.
LEMMA RegroupSymbol ==
  ASSUME NEW u \in Text, NEW t \in Text, NEW s \in Symbols
  PROVE  /\ u \o <<>> = u /\ <<>> \o u = u /\ <<s>> \in Text
         /\ u \o (t \o <<s>>) = (u \o t) \o <<s>>
<1>1. <<s>> \in Text
  BY Vocabulary
<1>2. u \o (t \o <<s>>) = (u \o t) \o <<s>>
  BY <1>1, Regroup, Zenon
<1>3. u \o <<>> = u /\ <<>> \o u = u
  BY Together
<1> QED BY <1>1, <1>2, <1>3

\* The parts of a head, by name.
LEMMA PartsAre ==
  ASSUME NEW c \in HeadParts
  PROVE  c = Gathered(c.urlOrStatus, c.field, c.value, c.valueValid, c.headers)
BY DEF HeadParts, Gathered

\* A url is collected piece by piece.
LEMMA UrlGrows ==
  ASSUME NEW c \in HeadParts, NEW t \in Text, NEW s \in Symbols
  PROVE  /\ OnUrl(c, <<>>) = c
         /\ \A u, f, v, b, H : OnUrl(c, t) = Gathered(u, f, v, b, H) =>
              OnUrl(c, t \o <<s>>) = Gathered(u \o <<s>>, f, v, b, H)
<1>1. c.urlOrStatus \in Text /\ <<s>> \in Text
  BY Vocabulary DEF HeadParts
<1>2. c.urlOrStatus \o <<>> = c.urlOrStatus
      /\ c.urlOrStatus \o (t \o <<s>>) = (c.urlOrStatus \o t) \o <<s>>
  BY <1>1, RegroupSymbol, Zenon
<1>3. \A x : [c EXCEPT !.urlOrStatus = x] = Gathered(x, c.field, c.value, c.valueValid, c.headers)
  BY DEF HeadParts, Gathered
<1>4. OnUrl(c, <<>>) = c
  BY <1>2, <1>3, PartsAre DEF OnUrl
<1> SUFFICES ASSUME NEW u, NEW f, NEW v, NEW b, NEW H, OnUrl(c, t) = Gathered(u, f, v, b, H)
             PROVE  OnUrl(c, t \o <<s>>) = Gathered(u \o <<s>>, f, v, b, H)
  BY <1>4
<1>5. Gathered(c.urlOrStatus \o t, c.field, c.value, c.valueValid, c.headers) = Gathered(u, f, v, b, H)
  BY <1>3 DEF OnUrl
<1>6. /\ c.urlOrStatus \o t = u /\ c.field = f /\ c.value = v /\ c.valueValid = b /\ c.headers = H
  BY <1>5 DEF Gathered
<1> QED BY <1>2, <1>3, <1>6 DEF OnUrl

\* So is a name, ...
LEMMA FieldGrows ==
  ASSUME NEW c \in HeadParts, NEW t \in Text, NEW s \in Symbols
  PROVE  /\ OnHeaderField(c, <<>>) = MoveHeader(c)
         /\ \A u, f, v, b, H : OnHeaderField(c, t) = Gathered(u, f, v, b, H) =>
              OnHeaderField(c, t \o <<s>>) = Gathered(u, f \o <<s>>, v, b, H)
<1> DEFINE d == MoveHeader(c)
<1>0. d \in HeadParts
  BY MoveHeaderType
<1>e. \A x : OnHeaderField(c, x) = [d EXCEPT !.field = d.field \o x]
  BY DEF OnHeaderField
<1> HIDE DEF d
<1>1. d.field \in Text /\ <<s>> \in Text
  BY <1>0, Vocabulary DEF HeadParts
<1>2. d.field \o <<>> = d.field /\ d.field \o (t \o <<s>>) = (d.field \o t) \o <<s>>
  BY <1>1, RegroupSymbol, Zenon
<1>3. \A x : [d EXCEPT !.field = x] = Gathered(d.urlOrStatus, x, d.value, d.valueValid, d.headers)
  BY <1>0 DEF HeadParts, Gathered
<1>4. OnHeaderField(c, <<>>) = d
  BY <1>0, <1>2, <1>3, <1>e, PartsAre
<1> SUFFICES ASSUME NEW u, NEW f, NEW v, NEW b, NEW H, OnHeaderField(c, t) = Gathered(u, f, v, b, H)
             PROVE  OnHeaderField(c, t \o <<s>>) = Gathered(u, f \o <<s>>, v, b, H)
  BY <1>4 DEF d
<1>5. Gathered(d.urlOrStatus, d.field \o t, d.value, d.valueValid, d.headers) = Gathered(u, f, v, b, H)
  BY <1>3, <1>e
<1>6. /\ d.urlOrStatus = u /\ d.field \o t = f /\ d.value = v /\ d.valueValid = b /\ d.headers = H
  BY <1>5 DEF Gathered
<1> QED BY <1>2, <1>3, <1>6, <1>e

\* A piece of a value is appended.
LEMMA ValueParts ==
  ASSUME NEW c \in HeadParts
  PROVE  \A x : OnHeaderValue(c, x) =
                  Gathered(c.urlOrStatus, c.field, c.value \o x, TRUE, c.headers)
<1> SUFFICES ASSUME NEW x
             PROVE  OnHeaderValue(c, x) =
                      Gathered(c.urlOrStatus, c.field, c.value \o x, TRUE, c.headers)
  OBVIOUS
<1> DEFINE t == TRUE
           y == c.value \o x
           d == Gathered(c.urlOrStatus, c.field, y, c.valueValid, c.headers)
<1>1. OnHeaderValue(c, x) = [c EXCEPT !.value = y, !.valueValid = t]
  BY DEF OnHeaderValue
<1> HIDE DEF t, y
<1>2. [c EXCEPT !.value = y, !.valueValid = t] =
        [[c EXCEPT !.value = y] EXCEPT !.valueValid = t]
  OBVIOUS
<1>3. [c EXCEPT !.value = y] = d
  BY DEF HeadParts, Gathered
<1>4. [d EXCEPT !.valueValid = t] = Gathered(c.urlOrStatus, c.field, y, t, c.headers)
  BY DEF Gathered
<1> HIDE DEF d
<1>5. OnHeaderValue(c, x) = Gathered(c.urlOrStatus, c.field, y, t, c.headers)
  BY <1>1, <1>2, <1>3, <1>4, Zenon
<1> QED BY <1>5 DEF t, y

\* ... and a value.
LEMMA ValueGrows ==
  ASSUME NEW c \in HeadParts, NEW t \in Text, NEW s \in Symbols
  PROVE  /\ c.valueValid => OnHeaderValue(c, <<>>) = c
         /\ \A u, f, v, b, H : OnHeaderValue(c, t) = Gathered(u, f, v, b, H) =>
              OnHeaderValue(c, t \o <<s>>) = Gathered(u, f, v \o <<s>>, b, H)
<1>1. c.value \in Text /\ <<s>> \in Text /\ c.valueValid \in BOOLEAN /\ <<>> \in Text
  <2>1. c.value \in Text /\ c.valueValid \in BOOLEAN
    BY DEF HeadParts
  <2> QED BY <2>1, Vocabulary, FlattenNone
<1>2. c.value \o <<>> = c.value /\ c.value \o (t \o <<s>>) = (c.value \o t) \o <<s>>
  BY <1>1, RegroupSymbol, Zenon
<1>3. \A x : OnHeaderValue(c, x) = Gathered(c.urlOrStatus, c.field, c.value \o x, TRUE, c.headers)
  BY ValueParts
<1>4. c.valueValid => OnHeaderValue(c, <<>>) = c
  BY <1>1, <1>2, <1>3, PartsAre
<1>5. ASSUME NEW u, NEW f, NEW v, NEW b, NEW H, OnHeaderValue(c, t) = Gathered(u, f, v, b, H)
      PROVE  OnHeaderValue(c, t \o <<s>>) = Gathered(u, f, v \o <<s>>, b, H)
  <2>1. Gathered(c.urlOrStatus, c.field, c.value \o t, TRUE, c.headers) = Gathered(u, f, v, b, H)
    BY <1>3, <1>5
  <2>2. /\ c.urlOrStatus = u /\ c.field = f /\ c.value \o t = v /\ TRUE = b /\ c.headers = H
    BY <2>1 DEF Gathered
  <2> QED BY <1>2, <1>3, <2>2
<1> QED BY <1>4, <1>5

\* A complete header is stored, when none of its name is.
LEMMA NothingStored ==
  ASSUME NEW u, NEW f, NEW v, NEW H
  PROVE  MoveHeader(Gathered(u, f, v, FALSE, H)) = Gathered(u, f, v, FALSE, H)
BY DEF MoveHeader, Gathered

\* A header with a new name is stored whole.
LEMMA HeaderStored ==
  ASSUME NEW u, NEW f, NEW v, NEW H, \A h \in H : h[1] # f
  PROVE  MoveHeader(Gathered(u, f, v, TRUE, H)) =
           Gathered(u, <<>>, <<>>, FALSE, H \cup {<<f, v>>})
<1>1. {h \in H : h[1] # f} = H /\ ~\E h \in H : h[1] = f
  OBVIOUS
<1>2. MoveHeader(Gathered(u, f, v, TRUE, H)) =
        [Gathered(u, f, v, TRUE, H) EXCEPT
           !.headers = {h \in H : h[1] # f} \cup {<<f, v>>}, !.field = <<>>,
           !.value = <<>>, !.valueValid = FALSE]
  BY <1>1 DEF MoveHeader, Gathered
<1> QED BY <1>1, <1>2 DEF Gathered

\* The headers read so far.
LEMMA PairsGrow ==
  ASSUME NEW m, Proper(m)
  PROVE  /\ Pairs(m.headers, 0) = {}
         /\ Pairs(m.headers, Len(m.headers)) = HeadersOf(m)
         /\ \A j \in 1..Len(m.headers) :
              /\ Pairs(m.headers, j) =
                   Pairs(m.headers, j - 1) \cup {<<m.headers[j].name, m.headers[j].value>>}
              /\ ~Repeats(m) => \A h \in Pairs(m.headers, j - 1) : h[1] # m.headers[j].name
<1>1. m.headers \in Seq(Field) /\ DOMAIN m.headers = 1..Len(m.headers) /\ Len(m.headers) \in Nat
  BY ProperParts
<1>2. Pairs(m.headers, 0) = {} /\ Pairs(m.headers, Len(m.headers)) = HeadersOf(m)
  BY <1>1 DEF Pairs, HeadersOf
<1>3. ASSUME NEW j \in 1..Len(m.headers)
      PROVE  /\ Pairs(m.headers, j) =
                  Pairs(m.headers, j - 1) \cup {<<m.headers[j].name, m.headers[j].value>>}
             /\ ~Repeats(m) => \A h \in Pairs(m.headers, j - 1) : h[1] # m.headers[j].name
  <2>1. \A i : i \in 1..j <=> i \in 1..(j - 1) \/ i = j
    BY <1>1
  <2>2. \A i \in 1..(j - 1) : i \in 1..Len(m.headers) /\ i # j
    BY <1>1
  <2>3. Pairs(m.headers, j) =
          Pairs(m.headers, j - 1) \cup {<<m.headers[j].name, m.headers[j].value>>}
    BY <2>1, Zenon DEF Pairs
  <2>4. ASSUME ~Repeats(m), NEW h \in Pairs(m.headers, j - 1) PROVE h[1] # m.headers[j].name
    <3>1. PICK i \in 1..(j - 1) : h = <<m.headers[i].name, m.headers[i].value>>
      BY DEF Pairs
    <3>2. m.headers[i].name # m.headers[j].name
      BY <1>1, <2>2, <2>4, Zenon DEF Repeats
    <3> QED BY <3>1, <3>2
  <2> QED BY <2>3, <2>4
<1> QED BY <1>2, <1>3

-----------------------------------------------------------------------------
(* Steps of the parser that stay within a message *)

\* A symbol as it was written is parsed.
Parsing ==
  /\ Inv /\ Fixed /\ Marked /\ Place /\ parser.errno = "OK"
  /\ Rest /\ UNCHANGED scriptVars
  /\ pos + 1 # garbled

\* The parser is where it should be, or had a reason to stop.
Arrives == IF parser'.errno = "OK" THEN Place' ELSE ~Orderly \/ Stopped

\* A step that reads a symbol leaves the messages alone.
LEMMA Moved ==
  ASSUME Parsing, NEW p, NEW m, Read(p, m)
  PROVE  /\ parser' = p /\ mark' = m /\ pos' = pos + 1
         /\ script' = script /\ received' = received /\ Current' = Current
         /\ Reading' = Reading /\ Open' = Open /\ Written' = Written
         /\ Ahead' = From(Written, pos + 1)
         /\ Later(script, Current)' = Later(script, Current)
         /\ HeadsFlags' = HeadsFlags
         /\ \A i : PlainUpTo(i)' <=> PlainUpTo(i)
<1>1. /\ parser' = p /\ mark' = m /\ pos' = pos + 1 /\ received' = received
      /\ script' = script /\ garbled' = garbled
  BY DEF Parsing, Read, scriptVars
<1>2. Current' = Current
  BY <1>1 DEF Current
<1>3. Reading' = Reading /\ Open' = Open /\ Written' = Written
  BY <1>1, <1>2 DEF Reading, Open, Written
<1>4. Ahead' = From(Written, pos + 1)
  BY <1>1, <1>3 DEF Ahead
<1>5. Later(script, Current)' = Later(script, Current) /\ HeadsFlags' = HeadsFlags
  BY <1>1, <1>2, <1>3 DEF HeadsFlags
<1>6. \A i : PlainUpTo(i)' <=> PlainUpTo(i)
  BY <1>1 DEF PlainUpTo
<1> QED BY <1>1, <1>2, <1>3, <1>4, <1>5, <1>6

\* A symbol that does not fit is refused.
LEMMA Failed ==
  ASSUME Parsing, NEW e \in Errors, e # "OK", Fail(e)
  PROVE  parser'.errno # "OK"
BY DEF Parsing, Fail, Inv, TypeOK, Parser

\* A method begins a message.
LEMMA MethodRead ==
  ASSUME Parsing, ReadMethod
  PROVE  Arrives
<1>1. pos < chunkEnd /\ parser.state = "start_req" /\ parser \in Parser /\ Inv /\ Fixed
      /\ pos + 1 # garbled /\ parser.errno = "OK"
  BY DEF Parsing, ReadMethod, In, Inv, TypeOK
<1>2. AtStart
  BY <1>1 DEF Parsing, Place
<1>3. Current < Len(script)
  <2> SUFFICES ASSUME ~(Current < Len(script)) PROVE FALSE
    OBVIOUS
  <2>1. Current = Len(script) /\ Current \in 0..Len(script) /\ script \in Scripts
    BY <1>1, <1>2, StreamFacts DEF AtStart
  <2>2. Ahead = <<>>
    BY <1>2, <2>1, LaterUnfolds DEF AtStart
  <2> QED BY <1>1, <2>2, SomethingAhead
<1>4. /\ Ahead = <<Reading.method>> \o AfterMethod(0)
      /\ AfterMethod(0) \in Text /\ Reading.method \in Methods /\ Reading.method \in Symbols
      /\ Proper(Reading)
  <2> DEFINE c == Content(Reading) \o Later(script, Current + 1)
             v == <<Reading.version>> \o Lines(Reading.headers, 0, c)
  <2>1. c \in Text /\ Proper(Reading)
        /\ Later(script, Current) = <<Reading.method>> \o (Reading.url \o v)
    BY <1>1, <1>3, ReadingFacts
  <2>2. /\ Reading.method \in Methods /\ Reading.method \in Symbols /\ Reading.url \in Text
        /\ Reading.version \in Symbols /\ Reading.headers \in Seq(Field)
    BY <2>1, ProperParts, Vocabulary
  <2>3. 0 \in 0..Len(Reading.headers)
    BY <2>2
  <2> HIDE DEF c
  <2>4. Lines(Reading.headers, 0, c) \in Text
    BY <2>1, <2>2, <2>3, LinesUnfold
  <2>5. v \in Text
    BY <2>2, <2>4, Vocabulary, Together
  <2> HIDE DEF v
  <2>6. Reading.url \o v \in Text /\ From(Reading.url, 0) = Reading.url
    BY <2>2, <2>5, Together, Extremes DEF Text
  <2>7. AfterMethod(0) = Reading.url \o v
    BY <2>6 DEF AfterMethod, v, c
  <2> QED BY <1>2, <2>1, <2>2, <2>6, <2>7 DEF AtStart
<1>5. Symbol = Reading.method /\ From(Written, pos + 1) = AfterMethod(0)
  BY <1>1, <1>4, Sees
<1>6. Symbol \in Methods /\ Symbol # Eol
  BY <1>4, <1>5, Separators
<1>7. Read(Begin(parser), NoMark) /\ channel' = channel
  BY <1>6 DEF ReadMethod
<1>8. /\ parser' = Begin(parser) /\ mark' = NoMark /\ Current' = Current /\ script' = script
      /\ Reading' = Reading /\ Ahead' = From(Written, pos + 1)
      /\ \A i : PlainUpTo(i)' <=> PlainUpTo(i)
  BY <1>7, Moved
<1>9. /\ parser'.state = "url_start" /\ parser'.method = Symbol /\ parser'.flags = {}
      /\ parser'.contentLength = 0 /\ parser'.errno = "OK"
  BY <1>1, <1>8 DEF Begin, Parser
<1>10. AfterMethod(0)' = AfterMethod(0)
  BY <1>8 DEF AfterMethod
<1>11. Virtual' = channel
  BY <1>7, <1>8 DEF Virtual, HeadAfter, NoMark
<1>12. Upto(Reading.url, 0) = <<>> /\ 0 \in 0..Len(Reading.url)
  <2>1. Reading.url \in Text
    BY <1>4, ProperParts
  <2> QED BY <2>1, Extremes DEF Text
<1>13. PlainUpTo(Current + 1) => channel = Idle
  BY <1>2 DEF AtStart
<1>14. InHead'
  BY <1>3, <1>5, <1>8, <1>9 DEF InHead
<1>15. (PlainUpTo(Current + 1) => Virtual = Gathered(Upto(Reading.url, 0), <<>>, <<>>, FALSE, {}))'
  BY <1>8, <1>11, <1>12, <1>13 DEF Idle
<1>16. AtUrl(0)'
  BY <1>5, <1>8, <1>9, <1>10, <1>12, <1>14, <1>15 DEF AtUrl
<1> QED BY <1>9, <1>16 DEF Arrives, Place

\* What is ahead of a part that is read: its next symbol, or what is behind it.
LEMMA InPart ==
  ASSUME NEW t \in Text, NEW r \in 0..(Len(t) - 1), NEW rest \in Text
  PROVE  /\ t[r + 1] \in Symbols /\ r + 1 \in 1..Len(t) /\ r + 1 \in 0..Len(t) /\ r + 1 \in Nat
         /\ From(t, r) \o rest = <<t[r + 1]>> \o (From(t, r + 1) \o rest)
         /\ From(t, r + 1) \o rest \in Text
         /\ Upto(t, r) \in Text /\ Upto(t, r + 1) = Upto(t, r) \o <<t[r + 1]>>
<1> DEFINE x == t[r + 1]
           u == From(t, r + 1)
<1>1. /\ x \in Symbols /\ <<x>> \in Text /\ r + 1 \in 0..Len(t)
      /\ From(t, r) = <<x>> \o u /\ Upto(t, r + 1) = Upto(t, r) \o <<x>>
  BY Peel DEF Text
<1>2. r + 1 \in 1..Len(t) /\ r + 1 \in Nat /\ r \in 0..Len(t)
  BY DEF Text
<1>3. u \in Text /\ Upto(t, r) \in Text
  BY <1>1, <1>2, Pieces DEF Text
<1> HIDE DEF u, x
<1>4. (<<x>> \o u) \o rest = <<x>> \o (u \o rest)
  BY <1>1, <1>3, Regroup, Zenon
<1>5. u \o rest \in Text
  BY <1>3, Together
<1> QED BY <1>1, <1>2, <1>3, <1>4, <1>5 DEF u, x

\* A part at its begin and at its end.
LEMMA BehindPart ==
  ASSUME NEW t \in Text, NEW rest \in Text
  PROVE  /\ From(t, Len(t)) \o rest = rest /\ From(t, 0) \o rest = t \o rest
         /\ Upto(t, Len(t)) = t /\ Upto(t, 0) = <<>> /\ Len(t) \in Nat
<1>1. From(t, Len(t)) = <<>> /\ From(t, 0) = t /\ Upto(t, Len(t)) = t /\ Upto(t, 0) = <<>> /\ Len(t) \in Nat
  BY Extremes DEF Text
<1> QED BY <1>1, Together

\* What is ahead in a url and behind it.
LEMMA AheadInUrl ==
  ASSUME Inv, Fixed, Current < Len(script)
  PROVE  LET rest == Content(Reading) \o Later(script, Current + 1)
             lines == Lines(Reading.headers, 0, rest)
         IN /\ Proper(Reading) /\ Reading.url \in Text /\ rest \in Text /\ lines \in Text
            /\ <<Reading.version>> \o lines \in Text /\ Reading.version \in Symbols
            /\ \A r : AfterMethod(r) = From(Reading.url, r) \o (<<Reading.version>> \o lines)
<1> DEFINE rest == Content(Reading) \o Later(script, Current + 1)
           lines == Lines(Reading.headers, 0, rest)
<1>1. rest \in Text /\ Proper(Reading)
  BY ReadingFacts
<1>2. Reading.url \in Text /\ Reading.version \in Symbols /\ Reading.headers \in Seq(Field)
  BY <1>1, ProperParts, Vocabulary
<1>3. 0 \in 0..Len(Reading.headers)
  BY <1>2
<1>4. \A r : AfterMethod(r) = From(Reading.url, r) \o (<<Reading.version>> \o lines)
  BY DEF AfterMethod
<1> HIDE DEF rest
<1>5. lines \in Text
  BY <1>1, <1>2, <1>3, LinesUnfold
<1> HIDE DEF lines
<1>6. <<Reading.version>> \o lines \in Text
  BY <1>2, <1>5, Vocabulary, Together
<1> QED BY <1>1, <1>2, <1>4, <1>5, <1>6 DEF rest, lines

\* A url goes on, or ends with the version.
LEMMA UrlRead ==
  ASSUME Parsing, ReadUrl
  PROVE  Arrives
<1>1. /\ pos < chunkEnd /\ parser.state \in {"url_start", "url"} /\ parser \in Parser /\ Inv /\ Fixed
      /\ pos + 1 # garbled /\ parser.errno = "OK" /\ Marked /\ channel \in HeadParts /\ mark \in Mark
      /\ mark.bytes \in Text
  BY DEF Parsing, ReadUrl, In, Inv, TypeOK, Mark
<1>2. PICK r \in Nat : AtUrl(r)
  BY <1>1 DEF Parsing, Place
<1> DEFINE url == Reading.url
           lines == Lines(Reading.headers, 0, Content(Reading) \o Later(script, Current + 1))
<1>3. /\ InHead /\ Current < Len(script) /\ r \in 0..Len(url)
      /\ parser.state = "url_start" => r = 0 /\ mark = NoMark
      /\ parser.state = "url" => r # 0
      /\ parser.flags = {} /\ parser.contentLength = 0
      /\ Ahead = AfterMethod(r)
      /\ PlainUpTo(Current + 1) => Virtual = Gathered(Upto(url, r), <<>>, <<>>, FALSE, {})
  BY <1>2 DEF AtUrl, InHead
<1>4. /\ Proper(Reading) /\ url \in Text /\ lines \in Text
      /\ <<Reading.version>> \o lines \in Text /\ Reading.version \in Symbols
      /\ \A k : AfterMethod(k) = From(url, k) \o (<<Reading.version>> \o lines)
  BY <1>1, <1>3, AheadInUrl, Zenon
<1>5. /\ \A k \in 1..Len(url) : url[k] \notin Versions \cup {Eol, Bad}
      /\ url # <<>> /\ Reading.version \in Versions
  BY <1>4, ProperParts
<1>6. parser.state = "url" => mark.part = "url"
  BY <1>1 DEF Marked
<1> HIDE DEF url, lines
<1>7. CASE r = Len(url)
  <2>1. parser.state = "url" /\ mark.part = "url"
    <3>1. r # 0
      BY <1>4, <1>5, <1>7, EmptySeq DEF Text
    <3> QED BY <1>1, <1>3, <1>6, <3>1
  <2>2. Ahead = <<Reading.version>> \o lines
    BY <1>3, <1>4, <1>7, BehindPart
  <2>3. Symbol = Reading.version /\ From(Written, pos + 1) = lines
    BY <1>1, <1>4, <2>2, Sees
  <2>4. Symbol \in Versions /\ Symbol # Eol
    BY <1>5, <2>3, Separators
  <2> DEFINE p == [parser EXCEPT !.state = "field_start",
                                 !.version = IF Symbol = Eol THEN "HTTP/0.9" ELSE Symbol]
  <2>5. Read(p, NoMark) /\ channel' = HeadAfter("url", mark.bytes)
    BY <2>1, <2>4 DEF ReadUrl, EndsUrl
  <2>6. /\ p.state = "field_start" /\ p.version = Reading.version /\ p.flags = {}
        /\ p.contentLength = 0 /\ p.errno = "OK" /\ p.method = parser.method
    BY <1>1, <1>3, <2>3, <2>4 DEF Parser
  <2> HIDE DEF p
  <2>7. /\ parser' = p /\ mark' = NoMark /\ Current' = Current /\ script' = script
        /\ Reading' = Reading /\ Ahead' = From(Written, pos + 1)
        /\ \A i : PlainUpTo(i)' <=> PlainUpTo(i)
    BY <2>5, Moved
  <2>8. ~Trailing'
    BY <2>6, <2>7 DEF Trailing
  <2>9. InSection'
    BY <1>3, <2>6, <2>7, <2>8 DEF InSection, InHead
  <2>10. Fields' = Reading.headers /\ Behind' = Content(Reading) \o Later(script, Current + 1)
    BY <2>7, <2>8 DEF Fields, Behind
  <2>11. Ahead' = Lines(Fields', 0, Behind')
    BY <2>3, <2>7, <2>10 DEF lines
  <2>12. 0 \in 0..Len(Reading.headers) /\ HeadFlags(Reading.headers, 0) = {}
    <3>1. Reading.headers \in Seq(Field)
      BY <1>4, ProperParts
    <3> QED BY <3>1, HeadFlagsIs
  <2>13. LengthRead'
    BY <2>6, <2>7 DEF LengthRead
  <2>14. (PlainUpTo(Current + 1) => MoveHeader(channel) = HeadRead(0))'
    <3> SUFFICES ASSUME PlainUpTo(Current + 1) PROVE MoveHeader(channel') = HeadRead(0)'
      BY <2>7
    <3>1. channel' = Gathered(url, <<>>, <<>>, FALSE, {})
      <4>1. channel' = Virtual
        BY <2>1, <2>5 DEF Virtual
      <4> QED BY <1>3, <1>4, <1>7, <4>1, BehindPart
    <3>2. HeadRead(0)' = Gathered(url, <<>>, <<>>, FALSE, {})
      <4>1. Pairs(Reading.headers, 0) = {}
        BY <1>4, PairsGrow
      <4> QED BY <2>7, <4>1 DEF HeadRead, Partial, url
    <3>3. MoveHeader(Gathered(url, <<>>, <<>>, FALSE, {})) = Gathered(url, <<>>, <<>>, FALSE, {})
      BY NothingStored
    <3> QED BY <3>1, <3>2, <3>3, Zenon
  <2>15. AtLine(0)'
    BY <2>6, <2>7, <2>8, <2>9, <2>10, <2>11, <2>12, <2>13, <2>14 DEF AtLine
  <2> QED BY <2>6, <2>7, <2>15 DEF Arrives, Place
<1>8. CASE r # Len(url)
  <2>1. r \in 0..(Len(url) - 1)
    BY <1>3, <1>4, <1>8 DEF Text
  <2> DEFINE x == url[r + 1]
  <2>2. /\ x \in Symbols /\ r + 1 \in 1..Len(url) /\ r + 1 \in 0..Len(url) /\ r + 1 \in Nat
        /\ AfterMethod(r) = <<x>> \o AfterMethod(r + 1) /\ AfterMethod(r + 1) \in Text
        /\ Upto(url, r) \in Text /\ Upto(url, r + 1) = Upto(url, r) \o <<x>>
    BY <1>4, <2>1, InPart
  <2>3. x \notin Versions \cup {Eol, Bad}
    BY <1>5, <2>2
  <2> HIDE DEF x
  <2>4. Symbol = x /\ From(Written, pos + 1) = AfterMethod(r + 1)
    BY <1>1, <1>3, <2>2, Sees
  <2> DEFINE p == [parser EXCEPT !.state = "url"]
  <2>5. Read(p, Extend("url")) /\ channel' = channel
    BY <2>3, <2>4 DEF ReadUrl, EndsUrl
  <2>6. /\ p.state = "url" /\ p.flags = {} /\ p.contentLength = 0 /\ p.errno = "OK"
        /\ p.method = parser.method
    BY <1>1, <1>3 DEF Parser
  <2> HIDE DEF p
  <2>7. /\ parser' = p /\ mark' = Extend("url") /\ Current' = Current /\ script' = script
        /\ Reading' = Reading /\ Ahead' = From(Written, pos + 1)
        /\ \A i : PlainUpTo(i)' <=> PlainUpTo(i)
    BY <2>5, Moved
  <2>8. AfterMethod(r + 1)' = AfterMethod(r + 1)
    BY <2>7 DEF AfterMethod
  <2>9. (PlainUpTo(Current + 1) => Virtual = Gathered(Upto(Reading.url, r + 1), <<>>, <<>>, FALSE, {}))'
    <3> SUFFICES ASSUME PlainUpTo(Current + 1)
                 PROVE  Virtual' = Gathered(Upto(url, r + 1), <<>>, <<>>, FALSE, {})
      BY <2>7 DEF url
    <3> DEFINE b == IF mark.part = "url" THEN mark.bytes ELSE <<>>
    <3>1. Virtual = OnUrl(channel, b) /\ b \in Text
      <4>1. CASE parser.state = "url"
        BY <1>1, <1>6, <4>1 DEF Virtual, HeadAfter
      <4>2. CASE parser.state = "url_start"
        <5>1. mark = NoMark /\ b = <<>>
          BY <1>3, <4>2, NoMarkType
        <5>2. Virtual = channel
          BY <5>1 DEF Virtual, HeadAfter, NoMark
        <5> HIDE DEF b
        <5> QED BY <1>1, <2>2, <5>1, <5>2, UrlGrows, FlattenNone
      <4> QED BY <1>1, <4>1, <4>2
    <3> HIDE DEF b
    <3>2. OnUrl(channel, b) = Gathered(Upto(url, r), <<>>, <<>>, FALSE, {})
      BY <1>3, <3>1
    <3>3. OnUrl(channel, b \o <<x>>) = Gathered(Upto(url, r) \o <<x>>, <<>>, <<>>, FALSE, {})
      <4>1. \A u, f, v, e, H : OnUrl(channel, b) = Gathered(u, f, v, e, H) =>
              OnUrl(channel, b \o <<x>>) = Gathered(u \o <<x>>, f, v, e, H)
        BY <1>1, <2>2, <3>1, UrlGrows
      <4> QED BY <3>2, <4>1, Zenon
    <3>4. mark'.part = "url" /\ mark'.bytes = b \o <<x>>
      BY <2>4, <2>7 DEF Extend, b
    <3>5. Virtual' = OnUrl(channel, b \o <<x>>)
      BY <2>5, <3>4 DEF Virtual, HeadAfter
    <3> QED BY <2>2, <3>3, <3>5
  <2>10. InHead'
    BY <1>3, <2>6, <2>7 DEF InHead
  <2>11. AtUrl(r + 1)'
    <3>1. r + 1 # 0
      BY <1>2
    <3>2. r + 1 \in 0..Len(Reading'.url)
      BY <2>2, <2>7 DEF url
    <3> QED BY <2>4, <2>6, <2>7, <2>8, <2>9, <2>10, <3>1, <3>2 DEF AtUrl
  <2> QED BY <2>2, <2>6, <2>7, <2>11 DEF Arrives, Place
<1> QED BY <1>7, <1>8

-----------------------------------------------------------------------------
(* Headers and trailers *)

\* The fields that are read, and what is ahead in them.
LEMMA FieldsFacts ==
  ASSUME Inv, Fixed, InSection
  PROVE  /\ Fields \in Seq(Field) /\ Len(Fields) \in Nat /\ Behind \in Text
         /\ ~Trailing => /\ Current < Len(script) /\ Proper(Reading) /\ Fields = Reading.headers
                         /\ \A j \in 1..Len(Fields) : WellFormed(Fields[j])
         /\ Trailing => Current \in 1..Len(script) /\ Fields = Open.trailer
         /\ \A j \in 0..Len(Fields) : Lines(Fields, j, Behind) \in Text
         /\ Lines(Fields, Len(Fields), Behind) = <<Eol>> \o Behind
         /\ \A j \in 0..(Len(Fields) - 1) : Lines(Fields, j, Behind) = AfterName(j + 1, 0)
<1>1. /\ Fields \in Seq(Field) /\ Len(Fields) \in Nat /\ Behind \in Text
      /\ ~Trailing => /\ Current < Len(script) /\ Proper(Reading) /\ Fields = Reading.headers
                      /\ \A j \in 1..Len(Fields) : WellFormed(Fields[j])
      /\ Trailing => Current \in 1..Len(script) /\ Fields = Open.trailer
  <2>1. CASE Trailing
    <3>1. Current \in 1..Len(script)
      BY <2>1 DEF InSection, InTrailer, InOpen
    <3>2. Proper(Open) /\ Later(script, Current) \in Text
      BY <3>1, OpenFacts
    <3> QED BY <2>1, <3>1, <3>2, ProperParts DEF Fields, Behind
  <2>2. CASE ~Trailing
    <3>1. Current < Len(script)
      BY <2>2 DEF InSection, InHead
    <3>2. Proper(Reading) /\ Content(Reading) \o Later(script, Current + 1) \in Text
      BY <3>1, ReadingFacts
    <3> QED BY <2>2, <3>1, <3>2, ProperParts DEF Fields, Behind
  <2> QED BY <2>1, <2>2
<1> DEFINE n == Len(Fields)
<1>2. \A j \in 0..n : Lines(Fields, j, Behind) \in Text
  BY <1>1, LinesUnfold
<1>3. Lines(Fields, n, Behind) = <<Eol>> \o Behind
  <2>1. n \in 0..n
    BY <1>1
  <2> QED BY <1>1, <2>1, LinesUnfold
<1>4. ASSUME NEW j \in 0..(n - 1)
      PROVE  Lines(Fields, j, Behind) = AfterName(j + 1, 0)
  <2>1. j \in 0..n /\ j # n /\ j + 1 \in 1..n
    BY <1>1
  <2>2. Lines(Fields, j, Behind) =
          Fields[j + 1].name \o (<<":">> \o
            (Fields[j + 1].value \o (<<Eol>> \o Lines(Fields, j + 1, Behind))))
    BY <1>1, <2>1, LinesUnfold
  <2>3. Fields[j + 1].name \in Text /\ Fields[j + 1].value \in Text
    BY <1>1, <2>1, FieldParts
  <2>4. From(Fields[j + 1].name, 0) = Fields[j + 1].name
        /\ From(Fields[j + 1].value, 0) = Fields[j + 1].value
    BY <2>3, Extremes DEF Text
  <2> QED BY <2>2, <2>4 DEF AfterName, AfterColon
<1> QED BY <1>1, <1>2, <1>3, <1>4

\* One of them.
LEMMA FieldFacts ==
  ASSUME Inv, Fixed, InSection, NEW j \in 1..Len(Fields)
  PROVE  LET h == Fields[j]
             lines == <<Eol>> \o Lines(Fields, j, Behind)
         IN /\ h \in Field /\ h.name \in Text /\ h.name # <<>> /\ h.value \in Text
            /\ ~Trailing => WellFormed(h)
            /\ \A i \in 1..Len(h.name) : IsToken(h.name[i])
            /\ \A i \in 1..Len(h.value) : h.value[i] \in Symbols \ {Eol, Bad}
            /\ Lines(Fields, j, Behind) \in Text /\ lines \in Text
            /\ \A r : AfterColon(j, r) = From(h.value, r) \o lines
            /\ AfterColon(j, 0) \in Text
            /\ \A r : AfterName(j, r) = From(h.name, r) \o (<<":">> \o AfterColon(j, 0))
            /\ <<":">> \o AfterColon(j, 0) \in Text
<1> DEFINE h == Fields[j]
           lines == <<Eol>> \o Lines(Fields, j, Behind)
<1>1. h \in Field /\ Lines(Fields, j, Behind) \in Text /\ (~Trailing => WellFormed(h))
  <2>1. j \in 0..Len(Fields) /\ Fields[j] \in Field
    BY FieldsFacts
  <2> QED BY <2>1, FieldsFacts
<1>2. /\ h.name \in Text /\ h.name # <<>> /\ h.value \in Text
      /\ \A i \in 1..Len(h.name) : IsToken(h.name[i])
      /\ \A i \in 1..Len(h.value) : h.value[i] \in Symbols \ {Eol, Bad}
  BY <1>1, FieldParts
<1>3. lines \in Text
  BY <1>1, Separators, Vocabulary, Together
<1>4. \A r : AfterColon(j, r) = From(h.value, r) \o lines
  BY DEF AfterColon
<1>5. \A r : AfterName(j, r) = From(h.name, r) \o (<<":">> \o AfterColon(j, 0))
  BY DEF AfterName
<1> HIDE DEF h, lines
<1>6. AfterColon(j, 0) \in Text
  <2>1. From(h.value, 0) = h.value
    BY <1>2, Extremes DEF Text
  <2>2. AfterColon(j, 0) = h.value \o lines
    BY <1>4, <2>1, Zenon
  <2> QED BY <1>2, <1>3, <2>2, Together, Zenon
<1>7. <<":">> \o AfterColon(j, 0) \in Text
  BY <1>6, Separators, Vocabulary, Together
<1> QED BY <1>1, <1>2, <1>3, <1>4, <1>5, <1>6, <1>7 DEF h, lines

\* A step within the fields stays within them.
LEMMA SectionStays ==
  ASSUME Parsing, InSection, NEW p, NEW m, Read(p, m),
         "TRAILING" \in p.flags <=> "TRAILING" \in parser.flags,
         p.method = parser.method, p.version = parser.version, p.upgrade = parser.upgrade,
         Trailing => Open.trailer # <<>>
  PROVE  /\ InSection' /\ (Trailing' <=> Trailing) /\ Fields' = Fields /\ Behind' = Behind
         /\ \A j : Lines(Fields, j, Behind)' = Lines(Fields, j, Behind)
         /\ \A j, r : AfterColon(j, r)' = AfterColon(j, r)
         /\ \A j, r : AfterName(j, r)' = AfterName(j, r)
<1>1. /\ parser' = p /\ script' = script /\ received' = received /\ Current' = Current
      /\ Reading' = Reading /\ Open' = Open
      /\ Later(script, Current)' = Later(script, Current)
      /\ \A i : PlainUpTo(i)' <=> PlainUpTo(i)
  BY Moved
<1>2. Trailing' <=> Trailing
  BY <1>1 DEF Trailing
<1>3. Fields' = Fields /\ Behind' = Behind
  BY <1>1, <1>2 DEF Fields, Behind
<1>4. InSection'
  <2>1. CASE Trailing
    <3>1. InTrailer /\ Open.trailer # <<>>
      BY <2>1 DEF InSection
    <3>2. InTrailer'
      BY <1>1, <3>1 DEF InTrailer, InOpen
    <3> QED BY <1>2, <2>1, <3>2 DEF InSection
  <2>2. CASE ~Trailing
    <3>1. InHead /\ parser.version = Reading.version
      BY <2>2 DEF InSection
    <3>2. (InHead /\ parser.version = Reading.version)'
      BY <1>1, <3>1 DEF InHead
    <3> QED BY <1>2, <2>2, <3>2 DEF InSection
  <2> QED BY <2>1, <2>2
<1>5. \A j : Lines(Fields, j, Behind)' = Lines(Fields, j, Behind)
  BY <1>3
<1>6. \A j, r : AfterColon(j, r)' = AfterColon(j, r)
  BY <1>3 DEF AfterColon
<1>7. \A j, r : AfterName(j, r)' = AfterName(j, r)
  BY <1>3, <1>6 DEF AfterName
<1> QED BY <1>2, <1>3, <1>4, <1>5, <1>6, <1>7

\* A step that keeps the length and its flag.
LEMMA LengthStays ==
  ASSUME Parsing, LengthRead, NEW p, NEW m, Read(p, m), p.contentLength = parser.contentLength,
         "CONTENTLENGTH" \in p.flags <=> "CONTENTLENGTH" \in parser.flags
  PROVE  LengthRead'
<1>1. parser' = p /\ Reading' = Reading
  BY Moved
<1> QED BY <1>1 DEF LengthRead

\* What a step of the parser within a head has to do with.
LEMMA ParsingFacts ==
  ASSUME Parsing, NEW states, In(states)
  PROVE  /\ Inv /\ Fixed /\ Marked /\ pos < chunkEnd /\ pos + 1 # garbled
         /\ parser.state \in states /\ parser.errno = "OK"
         /\ parser \in Parser /\ channel \in HeadParts /\ mark.bytes \in Text
         /\ \A e : [parser EXCEPT !.errno = e].errno = e
BY DEF Parsing, In, Inv, TypeOK, Mark, Parser

\* After a trailer nothing is read in order.
LEMMA TrailerStops ==
  ASSUME Inv, Fixed, InSection, Trailing, Open.trailer # <<>>
  PROVE  ~Orderly \/ Stopped
<1>1. Current \in 1..Len(script)
  BY FieldsFacts
<1> SUFFICES ASSUME Orderly, ~(Current >= Len(script)) PROVE FALSE
  BY DEF Stopped
<1>2. Current \in 1..(Len(script) - 1)
  BY <1>1, StreamFacts
<1> QED BY <1>2 DEF Orderly, PlainUpTo, Open

\* A name begins.
LEMMA NameBegins ==
  ASSUME Parsing, ReadFieldStart
  PROVE  Arrives
<1>1. /\ Inv /\ Fixed /\ Marked /\ pos < chunkEnd /\ pos + 1 # garbled
      /\ parser.state = "field_start" /\ parser.errno = "OK" /\ parser \in Parser
      /\ channel \in HeadParts /\ Symbol # Eol
  BY ParsingFacts DEF ReadFieldStart
<1>2. PICK i \in Nat : AtLine(i)
  BY <1>1 DEF Parsing, Place
<1>3. /\ InSection /\ i \in 0..Len(Fields) /\ Ahead = Lines(Fields, i, Behind) /\ mark = NoMark
      /\ ~Trailing => /\ parser.flags = HeadFlags(Fields, i) /\ LengthRead
                      /\ PlainUpTo(Current + 1) => MoveHeader(channel) = HeadRead(i)
  BY <1>2 DEF AtLine
<1>4. i # Len(Fields)
  <2> SUFFICES ASSUME i = Len(Fields) PROVE FALSE
    OBVIOUS
  <2>1. Ahead = <<Eol>> \o Behind /\ Behind \in Text
    BY <1>1, <1>3, FieldsFacts
  <2>2. Symbol = Eol
    BY <1>1, <2>1, Sees, Separators
  <2> QED BY <1>1, <2>2
<1>5. /\ i \in 0..(Len(Fields) - 1) /\ i + 1 \in 1..Len(Fields) /\ (i + 1) - 1 = i
      /\ i + 1 \in Nat
  <2>1. Len(Fields) \in Nat
    BY <1>1, <1>3, FieldsFacts
  <2> QED BY <1>3, <1>4, <2>1
<1>6. PICK j \in Nat : j = i + 1 /\ j \in 1..Len(Fields) /\ j - 1 = i
  BY <1>5
<1> DEFINE name == Fields[j].name
<1>7. /\ name \in Text /\ name # <<>>
      /\ \A k \in 1..Len(name) : IsToken(name[k])
      /\ AfterName(j, 0) = From(name, 0) \o (<<":">> \o AfterColon(j, 0))
      /\ AfterName(j, 1) = From(name, 1) \o (<<":">> \o AfterColon(j, 0))
      /\ <<":">> \o AfterColon(j, 0) \in Text
  BY <1>1, <1>3, <1>6, FieldFacts
<1> HIDE DEF name
<1>8. 0 \in 0..(Len(name) - 1) /\ 1 \in 1..Len(name) /\ 0 + 1 = 1
  BY <1>7, EmptySeq DEF Text
<1>9. /\ name[1] \in Symbols /\ AfterName(j, 0) = <<name[1]>> \o AfterName(j, 1)
      /\ AfterName(j, 1) \in Text /\ Upto(name, 1) = Upto(name, 0) \o <<name[1]>>
  <2>1. /\ name[0 + 1] \in Symbols
        /\ From(name, 0) \o (<<":">> \o AfterColon(j, 0)) =
             <<name[0 + 1]>> \o (From(name, 0 + 1) \o (<<":">> \o AfterColon(j, 0)))
        /\ From(name, 0 + 1) \o (<<":">> \o AfterColon(j, 0)) \in Text
        /\ Upto(name, 0 + 1) = Upto(name, 0) \o <<name[0 + 1]>>
    BY <1>7, <1>8, InPart
  <2> QED BY <1>7, <1>8, <2>1
<1>10. Symbol = name[1] /\ From(Written, pos + 1) = AfterName(j, 1)
  <2>1. Ahead = AfterName(j, 0)
    BY <1>1, <1>3, <1>5, <1>6, FieldsFacts
  <2> QED BY <1>1, <1>9, <2>1, Sees
<1>11. IsToken(Symbol)
  BY <1>7, <1>8, <1>10
<1> DEFINE p == [parser EXCEPT !.state = "field",
                               !.headerState = IF Symbol \in Names THEN Symbol ELSE "general"]
<1>12. Read(p, Extend("field")) /\ channel' = channel
  BY <1>11 DEF ReadFieldStart
<1>13. /\ p.state = "field" /\ p.errno = "OK" /\ p.method = parser.method /\ p.version = parser.version
       /\ p.upgrade = parser.upgrade /\ p.flags = parser.flags
       /\ p.contentLength = parser.contentLength
       /\ p.headerState = IF Symbol \in Names THEN Symbol ELSE "general"
  BY <1>1 DEF Parser
<1> HIDE DEF p
<1>14. Trailing => Open.trailer # <<>>
  BY <1>1, <1>3, <1>6, FieldsFacts
<1>15. /\ InSection' /\ (Trailing' <=> Trailing) /\ Fields' = Fields
       /\ AfterName(j, 1)' = AfterName(j, 1)
  BY <1>3, <1>12, <1>13, <1>14, SectionStays
<1>16. /\ parser' = p /\ mark' = Extend("field") /\ Reading' = Reading /\ Current' = Current
       /\ Ahead' = From(Written, pos + 1)
       /\ \A k : PlainUpTo(k)' <=> PlainUpTo(k)
  BY <1>12, Moved
<1>17. p.headerState = Kind(Upto(name, 1))
  BY <1>7, <1>8, <1>10, <1>13, KindOfPart
<1>18. ~Trailing => LengthRead'
  BY <1>3, <1>12, <1>13, LengthStays
<1>19. ASSUME ~Trailing, PlainUpTo(Current + 1)
       PROVE  Virtual' = Partial(j - 1, Upto(name, 1), <<>>, FALSE)
  <2>1. OnHeaderField(channel, <<>>) = Partial(j - 1, <<>>, <<>>, FALSE)
    BY <1>1, <1>3, <1>6, <1>9, <1>19, FieldGrows, FlattenNone DEF HeadRead
  <2>2. \A u, f, v, b, H : OnHeaderField(channel, <<>>) = Gathered(u, f, v, b, H) =>
          OnHeaderField(channel, <<>> \o <<name[1]>>) = Gathered(u, f \o <<name[1]>>, v, b, H)
    BY <1>1, <1>9, FieldGrows, FlattenNone
  <2>3. OnHeaderField(channel, <<>> \o <<name[1]>>) = Partial(j - 1, <<>> \o <<name[1]>>, <<>>, FALSE)
    BY <2>1, <2>2, Zenon DEF Partial
  <2>4. mark'.part = "field" /\ mark'.bytes = <<>> \o <<name[1]>>
    BY <1>3, <1>10, <1>16, NoMarkType DEF Extend
  <2>5. Virtual' = OnHeaderField(channel, <<>> \o <<name[1]>>)
    BY <1>12, <2>4 DEF Virtual, HeadAfter
  <2>6. Upto(name, 0) = <<>>
    BY <1>7, Extremes DEF Text
  <2> QED BY <1>9, <2>3, <2>5, <2>6
<1>20. Partial(j - 1, Upto(name, 1), <<>>, FALSE)' = Partial(j - 1, Upto(name, 1), <<>>, FALSE)
  BY <1>15, <1>16 DEF Partial, name
<1>21. AtName(j, 1)'
  <2>1. j \in 1..Len(Fields') /\ 1 \in 1..Len(Fields'[j].name) /\ Fields'[j].name = name
    BY <1>6, <1>8, <1>15 DEF name
  <2>2. Ahead' = AfterName(j, 1)'
    BY <1>10, <1>15, <1>16
  <2>3. parser'.headerState = Kind(Upto(Fields'[j].name, 1))
    BY <1>16, <1>17, <2>1
  <2>4. ~Trailing' =>
          /\ parser'.flags = HeadFlags(Fields', j - 1) /\ LengthRead'
          /\ PlainUpTo(Current + 1)' => Virtual' = Partial(j - 1, Upto(name, 1), <<>>, FALSE)'
    BY <1>3, <1>6, <1>13, <1>15, <1>16, <1>18, <1>19, <1>20
  <2> QED BY <1>15, <2>1, <2>2, <2>3, <2>4, Zenon DEF AtName, name
<1> QED BY <1>6, <1>13, <1>16, <1>21 DEF Arrives, Place

\* A header that is complete is among those read.
LEMMA HeaderKept ==
  ASSUME Inv, Fixed, InSection, ~Trailing, PlainUpTo(Current + 1),
         NEW j \in 1..Len(Fields), NEW c,
         c = Partial(j - 1, Fields[j].name, Fields[j].value, TRUE)
  PROVE  MoveHeader(c) = HeadRead(j)
<1> DEFINE name == Reading.headers[j].name
           value == Reading.headers[j].value
           url == Reading.url
           H == Pairs(Reading.headers, j - 1)
<1>1. Fields = Reading.headers /\ Proper(Reading) /\ ~Repeats(Reading)
  <2>1. Current + 1 \in 1..(Current + 1)
    BY StreamFacts
  <2> QED BY <2>1, FieldsFacts DEF PlainUpTo, Reading
<1>2. Pairs(Reading.headers, j) = H \cup {<<name, value>>} /\ \A e \in H : e[1] # name
  BY <1>1, PairsGrow
<1> DEFINE yes == TRUE
           no == FALSE
           none == <<>>
<1>3. c = Gathered(url, name, value, yes, H)
  BY <1>1 DEF Partial
<1>4. HeadRead(j) = Gathered(url, none, none, no, Pairs(Reading.headers, j))
  BY DEF HeadRead, Partial
<1>5. \A u, f, v, G : (\A e \in G : e[1] # f) =>
        MoveHeader(Gathered(u, f, v, yes, G)) = Gathered(u, none, none, no, G \cup {<<f, v>>})
  BY HeaderStored
<1> HIDE DEF name, value, url, H, yes, no, none
<1>6. \A e \in H : e[1] # name
  BY <1>2
<1>7. MoveHeader(Gathered(url, name, value, yes, H)) =
        Gathered(url, none, none, no, H \cup {<<name, value>>})
  BY <1>5, <1>6
<1> QED BY <1>2, <1>3, <1>4, <1>7

\* A name goes on, or ends.
LEMMA NameGoesOn ==
  ASSUME Parsing, ReadField
  PROVE  Arrives
<1>1. /\ Inv /\ Fixed /\ Marked /\ pos < chunkEnd /\ pos + 1 # garbled
      /\ parser.state = "field" /\ parser.errno = "OK" /\ parser \in Parser
      /\ channel \in HeadParts /\ mark.bytes \in Text
  BY ParsingFacts DEF ReadField
<1>2. PICK j \in Nat, r \in Nat : AtName(j, r)
  BY <1>1 DEF Parsing, Place
<1> DEFINE name == Fields[j].name
           colon == <<":">> \o AfterColon(j, 0)
<1>3. /\ InSection /\ j \in 1..Len(Fields) /\ r \in 1..Len(name)
      /\ parser.headerState = Kind(Upto(name, r)) /\ Ahead = AfterName(j, r)
      /\ ~Trailing => /\ parser.flags = HeadFlags(Fields, j - 1) /\ LengthRead
                      /\ PlainUpTo(Current + 1) =>
                           Virtual = Partial(j - 1, Upto(name, r), <<>>, FALSE)
  BY <1>2 DEF AtName
<1>4. /\ name \in Text /\ \A k \in 1..Len(name) : IsToken(name[k])
      /\ AfterColon(j, 0) \in Text
      /\ \A k : AfterName(j, k) = From(name, k) \o colon
      /\ colon \in Text
  BY <1>1, <1>3, FieldFacts
<1>5. Trailing => Open.trailer # <<>>
  BY <1>1, <1>3, FieldsFacts
<1>6. mark.part = "field"
  BY <1>1 DEF Marked
<1>7. Virtual = OnHeaderField(channel, mark.bytes)
  BY <1>6 DEF Virtual, HeadAfter
<1>n. name = Fields[j].name
  OBVIOUS
<1>c. colon = <<":">> \o AfterColon(j, 0)
  OBVIOUS
<1> HIDE DEF name, colon
<1>8. CASE r = Len(name)
  <2>1. Ahead = <<":">> \o AfterColon(j, 0)
    <3>1. From(name, Len(name)) \o colon = colon
      BY <1>4, BehindPart
    <3> QED BY <1>3, <1>4, <1>8, <1>c, <3>1, Zenon
  <2>2. Symbol = ":" /\ From(Written, pos + 1) = AfterColon(j, 0)
    BY <1>1, <1>4, <2>1, Sees, Separators
  <2>3. ~IsToken(Symbol)
    BY <2>2, Separators
  <2> DEFINE p == [parser EXCEPT !.state = "value_start"]
  <2>4. Read(p, NoMark) /\ channel' = HeadAfter("field", mark.bytes)
    BY <2>2, <2>3 DEF ReadField
  <2>5. /\ p.state = "value_start" /\ p.errno = "OK" /\ p.method = parser.method
        /\ p.version = parser.version /\ p.upgrade = parser.upgrade /\ p.flags = parser.flags
        /\ p.contentLength = parser.contentLength /\ p.headerState = parser.headerState
    BY <1>1 DEF Parser
  <2> HIDE DEF p
  <2>6. /\ InSection' /\ (Trailing' <=> Trailing) /\ Fields' = Fields
        /\ AfterColon(j, 0)' = AfterColon(j, 0)
    BY <1>3, <1>5, <2>4, <2>5, SectionStays
  <2>7. /\ parser' = p /\ mark' = NoMark /\ Reading' = Reading /\ Current' = Current
        /\ Ahead' = From(Written, pos + 1)
        /\ \A k : PlainUpTo(k)' <=> PlainUpTo(k)
    BY <2>4, Moved
  <2>8. p.headerState = Kind(name)
    BY <1>3, <1>4, <1>8, <2>5, KindOfPart
  <2>9. ~Trailing => LengthRead'
    BY <1>3, <2>4, <2>5, LengthStays
  <2>10. ASSUME ~Trailing, PlainUpTo(Current + 1)
         PROVE  channel' = Partial(j - 1, name, <<>>, FALSE)
    <3>1. channel' = Virtual
      BY <1>6, <2>4 DEF Virtual
    <3>2. Upto(name, r) = name
      BY <1>4, <1>8, BehindPart
    <3> QED BY <1>3, <2>10, <3>1, <3>2
  <2>11. Partial(j - 1, name, <<>>, FALSE)' = Partial(j - 1, name, <<>>, FALSE)
    BY <1>n, <2>6, <2>7 DEF Partial, name
  <2>12. ~Trailing' =>
           /\ parser'.flags = HeadFlags(Fields', j - 1) /\ LengthRead'
           /\ PlainUpTo(Current + 1)' => channel' = Partial(j - 1, name, <<>>, FALSE)'
    BY <1>3, <2>5, <2>6, <2>7, <2>9, <2>10, <2>11
  <2>13. AtColon(j)'
    <3>1. j \in 1..Len(Fields') /\ parser'.headerState = Kind(Fields'[j].name)
          /\ Ahead' = AfterColon(j, 0)'
      BY <1>3, <1>n, <2>2, <2>6, <2>7, <2>8
    <3> QED BY <2>6, <2>7, <2>12, <3>1, Zenon DEF AtColon, name
  <2> QED BY <2>5, <2>7, <2>13 DEF Arrives, Place
<1>9. CASE r # Len(name)
  <2>1. r \in 0..(Len(name) - 1)
    BY <1>3, <1>4, <1>9 DEF Text
  <2>2. PICK q \in Nat : q = r + 1
    OBVIOUS
  <2> DEFINE x == name[q]
  <2>3. /\ x \in Symbols /\ q \in 1..Len(name)
        /\ AfterName(j, r) = <<x>> \o AfterName(j, q) /\ AfterName(j, q) \in Text
        /\ Upto(name, r) \in Text /\ Upto(name, q) = Upto(name, r) \o <<x>>
    <3>1. /\ name[r + 1] \in Symbols /\ r + 1 \in 1..Len(name)
          /\ From(name, r) \o colon = <<name[r + 1]>> \o (From(name, r + 1) \o colon)
          /\ From(name, r + 1) \o colon \in Text
          /\ Upto(name, r) \in Text /\ Upto(name, r + 1) = Upto(name, r) \o <<name[r + 1]>>
      BY <1>4, <2>1, InPart
    <3>2. AfterName(j, r) = From(name, r) \o colon /\ AfterName(j, q) = From(name, q) \o colon
      BY <1>4
    <3> QED BY <2>2, <3>1, <3>2
  <2>4. IsToken(x) /\ x # ":"
    BY <1>4, <2>3, Separators
  <2> HIDE DEF x
  <2>5. Symbol = x /\ From(Written, pos + 1) = AfterName(j, q)
    BY <1>1, <1>3, <2>3, Sees
  <2> DEFINE p == [parser EXCEPT !.headerState = "general"]
  <2>6. Read(p, Extend("field")) /\ channel' = channel
    BY <2>4, <2>5 DEF ReadField
  <2>7. /\ p.state = "field" /\ p.errno = "OK" /\ p.method = parser.method
        /\ p.version = parser.version /\ p.upgrade = parser.upgrade /\ p.flags = parser.flags
        /\ p.contentLength = parser.contentLength /\ p.headerState = "general"
    BY <1>1 DEF Parser
  <2> HIDE DEF p
  <2>8. /\ InSection' /\ (Trailing' <=> Trailing) /\ Fields' = Fields
        /\ AfterName(j, q)' = AfterName(j, q)
    BY <1>3, <1>5, <2>6, <2>7, SectionStays
  <2>9. /\ parser' = p /\ mark' = Extend("field") /\ Reading' = Reading /\ Current' = Current
        /\ Ahead' = From(Written, pos + 1)
        /\ \A k : PlainUpTo(k)' <=> PlainUpTo(k)
    BY <2>6, Moved
  <2>10. p.headerState = Kind(Upto(name, q))
    <3>1. q # 1
      BY <1>3, <2>2
    <3> QED BY <1>4, <2>3, <2>7, <3>1, KindOfPart
  <2>11. ~Trailing => LengthRead'
    BY <1>3, <2>6, <2>7, LengthStays
  <2>12. ASSUME ~Trailing, PlainUpTo(Current + 1)
         PROVE  Virtual' = Partial(j - 1, Upto(name, q), <<>>, FALSE)
    <3>1. OnHeaderField(channel, mark.bytes) = Partial(j - 1, Upto(name, r), <<>>, FALSE)
      BY <1>3, <1>7, <2>12
    <3>2. \A u, f, v, b, H : OnHeaderField(channel, mark.bytes) = Gathered(u, f, v, b, H) =>
            OnHeaderField(channel, mark.bytes \o <<x>>) = Gathered(u, f \o <<x>>, v, b, H)
      BY <1>1, <2>3, FieldGrows
    <3>3. OnHeaderField(channel, mark.bytes \o <<x>>) = Partial(j - 1, Upto(name, r) \o <<x>>, <<>>, FALSE)
      BY <3>1, <3>2, Zenon DEF Partial
    <3>4. mark'.part = "field" /\ mark'.bytes = mark.bytes \o <<x>>
      BY <1>6, <2>5, <2>9 DEF Extend
    <3>5. Virtual' = OnHeaderField(channel, mark.bytes \o <<x>>)
      BY <2>6, <3>4 DEF Virtual, HeadAfter
    <3> QED BY <2>3, <3>3, <3>5
  <2>13. Partial(j - 1, Upto(name, q), <<>>, FALSE)' = Partial(j - 1, Upto(name, q), <<>>, FALSE)
    BY <1>n, <2>8, <2>9 DEF Partial, name
  <2>14. ~Trailing' =>
           /\ parser'.flags = HeadFlags(Fields', j - 1) /\ LengthRead'
           /\ PlainUpTo(Current + 1)' => Virtual' = Partial(j - 1, Upto(name, q), <<>>, FALSE)'
    BY <1>3, <2>7, <2>8, <2>9, <2>11, <2>12, <2>13
  <2>15. AtName(j, q)'
    <3>1. j \in 1..Len(Fields') /\ q \in 1..Len(Fields'[j].name)
          /\ parser'.headerState = Kind(Upto(Fields'[j].name, q))
          /\ Ahead' = AfterName(j, q)'
      BY <1>3, <1>n, <2>3, <2>5, <2>8, <2>9, <2>10
    <3> QED BY <2>8, <2>14, <3>1, Zenon DEF AtName, name
  <2> QED BY <2>2, <2>7, <2>9, <2>15 DEF Arrives, Place
<1> QED BY <1>8, <1>9

\* A value that is empty.
LEMMA ValueIsEmpty ==
  ASSUME Parsing, ReadEmptyValue
  PROVE  Arrives
<1>1. /\ Inv /\ Fixed /\ Marked /\ pos < chunkEnd /\ pos + 1 # garbled
      /\ parser.state = "value_start" /\ parser.errno = "OK" /\ parser \in Parser
      /\ channel \in HeadParts /\ Symbol = Eol
  BY ParsingFacts DEF ReadEmptyValue
<1>2. PICK j \in Nat : AtColon(j)
  BY <1>1 DEF Parsing, Place
<1> DEFINE h == Fields[j]
           lines == Lines(Fields, j, Behind)
<1>3. /\ InSection /\ j \in 1..Len(Fields) /\ Ahead = AfterColon(j, 0) /\ mark = NoMark
      /\ ~Trailing => /\ parser.flags = HeadFlags(Fields, j - 1) /\ LengthRead
                      /\ PlainUpTo(Current + 1) => channel = Partial(j - 1, h.name, <<>>, FALSE)
  BY <1>2 DEF AtColon
<1>4. /\ h.value \in Text /\ lines \in Text /\ <<Eol>> \o lines \in Text
      /\ AfterColon(j, 0) = From(h.value, 0) \o (<<Eol>> \o lines)
      /\ \A i \in 1..Len(h.value) : h.value[i] # Eol
  BY <1>1, <1>3, FieldFacts
<1>5. Trailing => Open.trailer # <<>>
  BY <1>1, <1>3, FieldsFacts
<1> HIDE DEF lines
<1>6. h.value = <<>>
  <2> DEFINE v == h.value
  <2> SUFFICES ASSUME v # <<>> PROVE FALSE
    OBVIOUS
  <2>1. v \in Text /\ \A i \in 1..Len(v) : v[i] # Eol
    BY <1>4
  <2>v. AfterColon(j, 0) = From(v, 0) \o (<<Eol>> \o lines)
    BY <1>4
  <2> HIDE DEF v
  <2>2. 0 \in 0..(Len(v) - 1) /\ 0 + 1 \in 1..Len(v)
    BY <2>1, EmptySeq DEF Text
  <2>3. /\ v[0 + 1] \in Symbols /\ From(v, 0 + 1) \o (<<Eol>> \o lines) \in Text
        /\ Ahead = <<v[0 + 1]>> \o (From(v, 0 + 1) \o (<<Eol>> \o lines))
    BY <1>3, <1>4, <2>1, <2>v, <2>2, InPart
  <2>4. Symbol = v[0 + 1]
    BY <1>1, <2>3, Sees
  <2> QED BY <1>1, <2>1, <2>2, <2>4
<1>7. From(Written, pos + 1) = lines
  <2>1. Ahead = <<Eol>> \o lines
    <3>1. From(h.value, 0) = <<>>
      BY <1>4, <1>6, Extremes DEF Text
    <3> QED BY <1>3, <1>4, <3>1, Together
  <2> QED BY <1>1, <1>4, <2>1, Sees, Separators
<1> DEFINE p == [parser EXCEPT !.state = "field_start"]
<1>8. Read(p, NoMark) /\ channel' = HeadAfter("value", <<>>)
  BY DEF ReadEmptyValue
<1>9. /\ p.state = "field_start" /\ p.errno = "OK" /\ p.method = parser.method
      /\ p.version = parser.version /\ p.upgrade = parser.upgrade /\ p.flags = parser.flags
      /\ p.contentLength = parser.contentLength
  BY <1>1 DEF Parser
<1> HIDE DEF p
<1>10. /\ InSection' /\ (Trailing' <=> Trailing) /\ Fields' = Fields
       /\ Lines(Fields, j, Behind)' = Lines(Fields, j, Behind)
  BY <1>3, <1>5, <1>8, <1>9, SectionStays
<1>11. /\ parser' = p /\ mark' = NoMark /\ Reading' = Reading /\ Current' = Current
       /\ Ahead' = From(Written, pos + 1)
       /\ \A k : PlainUpTo(k)' <=> PlainUpTo(k)
  BY <1>8, Moved
<1>12. ~Trailing => LengthRead'
  BY <1>3, <1>8, <1>9, LengthStays
<1>13. HeadFlags(Fields, j) = HeadFlags(Fields, j - 1)
  <2>1. j - 1 \in Nat /\ (j - 1) + 1 = j
    BY <1>3
  <2>2. HeadFlags(Fields, j) = HeadFlags(Fields, j - 1) \cup FieldFlags(h)
    BY <2>1, HeadFlagsIs
  <2> QED BY <1>6, <2>2 DEF FieldFlags
<1>14. ASSUME ~Trailing, PlainUpTo(Current + 1)
       PROVE  MoveHeader(channel') = HeadRead(j)
  <2> DEFINE c == channel'
  <2>1. channel = Gathered(Reading.url, h.name, <<>>, FALSE, Pairs(Reading.headers, j - 1))
    BY <1>3, <1>14 DEF Partial
  <2>2. c = OnHeaderValue(channel, <<>>)
    BY <1>8 DEF HeadAfter
  <2>3. c = Partial(j - 1, h.name, h.value, TRUE)
    <3>1. /\ channel.urlOrStatus = Reading.url /\ channel.field = h.name /\ channel.value = <<>>
          /\ channel.headers = Pairs(Reading.headers, j - 1)
      BY <2>1 DEF Gathered
    <3>2. \A x : OnHeaderValue(channel, x) =
                   Gathered(channel.urlOrStatus, channel.field, channel.value \o x, TRUE, channel.headers)
      BY <1>1, ValueParts
    <3>3. <<>> \o <<>> = <<>>
      BY FlattenNone, Together
    <3> QED BY <1>6, <2>2, <3>1, <3>2, <3>3, Zenon DEF Partial
  <2> HIDE DEF c, h
  <2>4. c = Partial(j - 1, Fields[j].name, Fields[j].value, TRUE)
    BY <2>3 DEF h
  <2>5. MoveHeader(c) = HeadRead(j)
    BY <1>1, <1>3, <1>14, <2>4, HeaderKept
  <2> QED BY <2>5 DEF c
<1>15. HeadRead(j)' = HeadRead(j)
  BY <1>11 DEF HeadRead, Partial
<1>16. AtLine(j)'
  <2>1. j \in 0..Len(Fields') /\ Ahead' = Lines(Fields, j, Behind)'
    <3>1. Len(Fields) \in Nat
      BY <1>1, <1>3, FieldsFacts
    <3> QED BY <1>3, <1>7, <1>10, <1>11, <3>1 DEF lines
  <2>2. ~Trailing' =>
          /\ parser'.flags = HeadFlags(Fields', j) /\ LengthRead'
          /\ PlainUpTo(Current + 1)' => MoveHeader(channel') = HeadRead(j)'
    BY <1>3, <1>9, <1>10, <1>11, <1>12, <1>13, <1>14, <1>15
  <2> QED BY <1>10, <1>11, <2>1, <2>2, Zenon DEF AtLine
<1> QED BY <1>9, <1>11, <1>16 DEF Arrives, Place

-----------------------------------------------------------------------------
(* Values *)

\* The symbol that is parsed in a value or at its end.
LEMMA SeesInValue ==
  ASSUME Parsing, pos < chunkEnd, InSection, NEW j \in 1..Len(Fields),
         NEW v, v = Fields[j].value, NEW r \in 0..Len(v), Ahead = AfterColon(j, r)
  PROVE  /\ v \in Text /\ Len(v) \in Nat
         /\ Symbol = Eol <=> r = Len(v)
         /\ r = Len(v) => From(Written, pos + 1) = Lines(Fields, j, Behind)
         /\ r # Len(v) =>
              /\ r + 1 \in 1..Len(v) /\ Symbol = v[r + 1]
              /\ Symbol \in Symbols \ {Eol, Bad}
              /\ From(Written, pos + 1) = AfterColon(j, r + 1)
              /\ Upto(v, r) \in Text /\ Upto(v, r + 1) = Upto(v, r) \o <<Symbol>>
<1> DEFINE lines == Lines(Fields, j, Behind)
           rear == <<Eol>> \o lines
<1>1. Inv /\ Fixed /\ pos + 1 # garbled
  BY DEF Parsing
<1>2. /\ v \in Text /\ Len(v) \in Nat /\ lines \in Text /\ rear \in Text
      /\ \A k : AfterColon(j, k) = From(v, k) \o rear
      /\ \A i \in 1..Len(v) : v[i] \in Symbols \ {Eol, Bad}
  <2>1. /\ v \in Text /\ lines \in Text /\ rear \in Text
        /\ \A k : AfterColon(j, k) = From(v, k) \o rear
        /\ \A i \in 1..Len(v) : v[i] \in Symbols \ {Eol, Bad}
    BY <1>1, FieldFacts
  <2> HIDE DEF lines, rear
  <2> QED BY <2>1 DEF Text
<1>3. rear = <<Eol>> \o lines /\ lines = Lines(Fields, j, Behind)
  OBVIOUS
<1> HIDE DEF lines, rear
<1>4. CASE r = Len(v)
  <2>1. Ahead = <<Eol>> \o lines
    <3>1. From(v, Len(v)) \o rear = rear
      BY <1>2, BehindPart
    <3> QED BY <1>2, <1>3, <1>4, <3>1, Zenon
  <2>2. Symbol = Eol /\ From(Written, pos + 1) = lines
    BY <1>1, <1>2, <2>1, Sees, Separators
  <2> QED BY <1>2, <1>3, <1>4, <2>2
<1>5. CASE r # Len(v)
  <2>1. r \in 0..(Len(v) - 1)
    BY <1>2, <1>5
  <2>2. /\ v[r + 1] \in Symbols /\ r + 1 \in 1..Len(v)
        /\ From(v, r) \o rear = <<v[r + 1]>> \o (From(v, r + 1) \o rear)
        /\ From(v, r + 1) \o rear \in Text
        /\ Upto(v, r) \in Text /\ Upto(v, r + 1) = Upto(v, r) \o <<v[r + 1]>>
    BY <1>2, <2>1, InPart
  <2>3. Ahead = <<v[r + 1]>> \o AfterColon(j, r + 1) /\ AfterColon(j, r + 1) \in Text
    BY <1>2, <2>2
  <2>4. Symbol = v[r + 1] /\ From(Written, pos + 1) = AfterColon(j, r + 1)
    BY <1>1, <2>2, <2>3, Sees
  <2> QED BY <1>2, <1>5, <2>2, <2>4
<1> QED BY <1>4, <1>5

\* The callback gets the first piece of a value.
LEMMA ValueStarted ==
  ASSUME NEW c \in HeadParts, NEW i, NEW name, c = Partial(i, name, <<>>, FALSE)
  PROVE  \A t \in Text : OnHeaderValue(c, t) = Partial(i, name, t, TRUE)
<1>1. /\ c.urlOrStatus = Reading.url /\ c.field = name /\ c.value = <<>>
      /\ c.headers = Pairs(Reading.headers, i)
  BY DEF Gathered, Partial
<1> SUFFICES ASSUME NEW t \in Text PROVE OnHeaderValue(c, t) = Partial(i, name, t, TRUE)
  OBVIOUS
<1>2. <<>> \o t = t
  BY Together
<1>3. \A x : OnHeaderValue(c, x) =
               Gathered(c.urlOrStatus, c.field, c.value \o x, TRUE, c.headers)
  BY ValueParts
<1>4. OnHeaderValue(c, t) = Gathered(c.urlOrStatus, c.field, c.value \o t, TRUE, c.headers)
  BY <1>3, Zenon
<1> QED BY <1>1, <1>2, <1>4 DEF Partial

\* The length of a value that is not a length is none.
LEMMA KindOfValue ==
  ASSUME NEW h, NEW r
  PROVE  ValueKind(h, r) = "content-length" <=> Kind(h.name) = "content-length"
<1>1. ElementKind(h.value, r) # "content-length"
  BY ElementKindIs
<1> QED BY <1>1 DEF ValueKind

\* A message that is refused is no longer in order.
LEMMA RefusedStops ==
  ASSUME Inv, Fixed, Current < Len(script), Refused(Reading)
  PROVE  ~Orderly
<1>1. Current + 1 \in 1..Len(script) /\ script \in Scripts
  BY ReadingFacts, StreamFacts
<1>2. Reading \in Range(script)
  BY <1>1, ScriptType DEF Reading
<1> QED BY <1>2 DEF Orderly

\* A value begins.
LEMMA ValueStarts ==
  ASSUME Parsing, ReadValueStart
  PROVE  Arrives
<1>1. /\ Inv /\ Fixed /\ Marked /\ pos < chunkEnd /\ pos + 1 # garbled
      /\ parser.state = "value_start" /\ parser.errno = "OK" /\ parser \in Parser
      /\ channel \in HeadParts /\ Symbol # Eol /\ parser.headerState # "content-length"
  BY ParsingFacts DEF ReadValueStart
<1>2. PICK j \in Nat : AtColon(j)
  BY <1>1 DEF Parsing, Place
<1>3. PICK h : h = Fields[j]
  OBVIOUS
<1>4. PICK v : v = h.value
  OBVIOUS
<1>5. /\ InSection /\ j \in 1..Len(Fields) /\ Ahead = AfterColon(j, 0) /\ mark = NoMark
      /\ parser.headerState = Kind(h.name)
      /\ ~Trailing => /\ parser.flags = HeadFlags(Fields, j - 1) /\ LengthRead
                      /\ PlainUpTo(Current + 1) => channel = Partial(j - 1, h.name, <<>>, FALSE)
  BY <1>2, <1>3 DEF AtColon
<1>6. ~Trailing => WellFormed(h)
  BY <1>1, <1>3, <1>5, FieldFacts
<1>7. Trailing => Open.trailer # <<>>
  BY <1>1, <1>5, FieldsFacts
<1>8. /\ v \in Text /\ Len(v) \in Nat /\ 1 \in 1..Len(v) /\ Symbol = v[1] /\ Symbol \in Symbols
      /\ From(Written, pos + 1) = AfterColon(j, 1) /\ Upto(v, 1) = <<>> \o <<Symbol>>
      /\ <<>> \o <<Symbol>> \in Text /\ v # <<>>
  <2>1. v \in Text
    BY <1>1, <1>3, <1>4, <1>5, FieldFacts
  <2>2. 0 \in 0..Len(v)
    BY <2>1 DEF Text
  <2>3. /\ Len(v) \in Nat /\ 0 + 1 \in 1..Len(v) /\ Symbol = v[0 + 1] /\ Symbol \in Symbols
        /\ From(Written, pos + 1) = AfterColon(j, 0 + 1)
        /\ Upto(v, 0 + 1) = Upto(v, 0) \o <<Symbol>>
    BY <1>1, <1>3, <1>4, <1>5, <2>2, SeesInValue
  <2>4. Upto(v, 0) = <<>> /\ 0 + 1 = 1
    BY <2>1, Extremes DEF Text
  <2>5. <<>> \o <<Symbol>> \in Text
    BY <2>3, Vocabulary, Together
  <2>6. v # <<>>
    BY <2>3
  <2> QED BY <2>1, <2>3, <2>4, <2>5, <2>6
<1> DEFINE new == IF parser.headerState = "upgrade" THEN {"UPGRADE"} ELSE {}
           p == [parser EXCEPT !.state = "value", !.flags = @ \cup new,
                               !.headerState = ElementState(@)]
<1>9. Read(p, Extend("value")) /\ channel' = channel
  BY DEF ReadValueStart
<1> HIDE DEF new
<1>10. /\ p.state = "value" /\ p.errno = "OK" /\ p.method = parser.method
       /\ p.version = parser.version /\ p.upgrade = parser.upgrade
       /\ p.flags = parser.flags \cup new /\ p.contentLength = parser.contentLength
       /\ p.headerState = ElementState(parser.headerState)
  BY <1>1 DEF Parser
<1> HIDE DEF p
<1>11. /\ "TRAILING" \in p.flags <=> "TRAILING" \in parser.flags
       /\ "CONTENTLENGTH" \in p.flags <=> "CONTENTLENGTH" \in parser.flags
  BY <1>10 DEF new
<1>12. /\ InSection' /\ (Trailing' <=> Trailing) /\ Fields' = Fields
       /\ AfterColon(j, 1)' = AfterColon(j, 1)
  BY <1>5, <1>7, <1>9, <1>10, <1>11, SectionStays
<1>13. /\ parser' = p /\ mark' = Extend("value") /\ Reading' = Reading /\ Current' = Current
       /\ Ahead' = From(Written, pos + 1)
       /\ \A k : PlainUpTo(k)' <=> PlainUpTo(k)
  BY <1>9, Moved
<1>14. ~Trailing => LengthRead'
  BY <1>5, <1>9, <1>10, <1>11, LengthStays
<1>15. ASSUME ~Trailing
       PROVE  /\ p.headerState = ValueKind(h, 1) /\ p.headerState # "content-length"
              /\ p.flags = HeadFlags(Fields, j - 1) \cup FlagsRead(h, 1)
  <2>1. /\ ElementState(Kind(h.name)) = ValueKind(h, 1)
        /\ FlagsRead(h, 1) = IF Kind(h.name) = "upgrade" THEN {"UPGRADE"} ELSE {}
    BY <1>1, <1>4, <1>5, <1>6, <1>8, <1>15, ValueBegins
  <2>2. ValueKind(h, 1) # "content-length"
    BY <1>1, <1>5, KindOfValue
  <2> QED BY <1>5, <1>10, <1>15, <2>1, <2>2 DEF new
<1>16. ASSUME ~Trailing, PlainUpTo(Current + 1)
       PROVE  Virtual' = Partial(j - 1, h.name, Upto(v, 1), TRUE)
  <2>1. mark'.part = "value" /\ mark'.bytes = <<>> \o <<Symbol>>
    BY <1>5, <1>13, NoMarkType DEF Extend
  <2>2. Virtual' = OnHeaderValue(channel, <<>> \o <<Symbol>>)
    BY <1>9, <2>1 DEF Virtual, HeadAfter
  <2>3. \A t \in Text : OnHeaderValue(channel, t) = Partial(j - 1, h.name, t, TRUE)
    BY <1>1, <1>5, <1>16, ValueStarted
  <2> QED BY <1>8, <2>2, <2>3
<1>17. Partial(j - 1, h.name, Upto(v, 1), TRUE)' = Partial(j - 1, h.name, Upto(v, 1), TRUE)
  BY <1>13 DEF Partial
<1>18. AtValue(j, 1)'
  <2>1. j \in 1..Len(Fields') /\ 1 \in 1..Len(v) /\ Fields'[j] = h /\ Ahead' = AfterColon(j, 1)'
    BY <1>3, <1>5, <1>8, <1>12, <1>13
  <2>2. ~Trailing' =>
          /\ parser'.headerState = ValueKind(h, 1) /\ parser'.headerState # "content-length"
          /\ parser'.flags = HeadFlags(Fields', j - 1) \cup FlagsRead(h, 1) /\ LengthRead'
          /\ PlainUpTo(Current + 1)' => Virtual' = Partial(j - 1, h.name, Upto(v, 1), TRUE)'
    BY <1>12, <1>13, <1>14, <1>15, <1>16, <1>17
  <2> QED BY <1>4, <1>12, <2>1, <2>2, Zenon DEF AtValue
<1> QED BY <1>10, <1>13, <1>18 DEF Arrives, Place

\* A length begins.
LEMMA LengthStarts ==
  ASSUME Parsing, ReadContentLength
  PROVE  Arrives
<1>1. /\ Inv /\ Fixed /\ Marked /\ pos < chunkEnd /\ pos + 1 # garbled
      /\ parser.state = "value_start" /\ parser.errno = "OK" /\ parser \in Parser
      /\ channel \in HeadParts /\ Symbol # Eol /\ parser.headerState = "content-length"
  BY ParsingFacts DEF ReadContentLength
<1>2. PICK j \in Nat : AtColon(j)
  BY <1>1 DEF Parsing, Place
<1>3. PICK h : h = Fields[j]
  OBVIOUS
<1>4. PICK v : v = h.value
  OBVIOUS
<1>5. /\ InSection /\ j \in 1..Len(Fields) /\ Ahead = AfterColon(j, 0) /\ mark = NoMark
      /\ Kind(h.name) = "content-length"
      /\ ~Trailing => /\ parser.flags = HeadFlags(Fields, j - 1) /\ LengthRead
                      /\ PlainUpTo(Current + 1) => channel = Partial(j - 1, h.name, <<>>, FALSE)
  BY <1>1, <1>2, <1>3 DEF AtColon
<1>6. ~Trailing => /\ Current < Len(script) /\ Proper(Reading)
                   /\ Fields = Reading.headers /\ Reading.headers[j] = h
  BY <1>1, <1>3, <1>5, FieldsFacts
<1>7. Trailing => Open.trailer # <<>>
  BY <1>1, <1>5, FieldsFacts
<1>8. /\ v \in Text /\ Len(v) \in Nat /\ 1 \in 1..Len(v) /\ Symbol = v[1] /\ Symbol \in Symbols
      /\ From(Written, pos + 1) = AfterColon(j, 1) /\ Upto(v, 1) = <<>> \o <<Symbol>>
      /\ <<>> \o <<Symbol>> \in Text /\ v # <<>>
  <2>1. v \in Text
    BY <1>1, <1>3, <1>4, <1>5, FieldFacts
  <2>2. 0 \in 0..Len(v)
    BY <2>1 DEF Text
  <2>3. /\ Len(v) \in Nat /\ 0 + 1 \in 1..Len(v) /\ Symbol = v[0 + 1] /\ Symbol \in Symbols
        /\ From(Written, pos + 1) = AfterColon(j, 0 + 1)
        /\ Upto(v, 0 + 1) = Upto(v, 0) \o <<Symbol>>
    BY <1>1, <1>3, <1>4, <1>5, <2>2, SeesInValue
  <2>4. Upto(v, 0) = <<>> /\ 0 + 1 = 1
    BY <2>1, Extremes DEF Text
  <2>5. <<>> \o <<Symbol>> \in Text
    BY <2>3, Vocabulary, Together
  <2>6. v # <<>>
    BY <2>3
  <2> QED BY <2>1, <2>3, <2>4, <2>5, <2>6
<1>9. CASE Symbol \in Digits /\ "CONTENTLENGTH" \notin parser.flags
  <2> DEFINE p == [parser EXCEPT !.state = "value", !.flags = @ \cup {"CONTENTLENGTH"},
                                 !.contentLength = Value[Symbol]]
  <2>1. Read(p, Extend("value")) /\ channel' = channel
    BY <1>9 DEF ReadContentLength
  <2>2. /\ p.state = "value" /\ p.errno = "OK" /\ p.method = parser.method
        /\ p.version = parser.version /\ p.upgrade = parser.upgrade
        /\ p.flags = parser.flags \cup {"CONTENTLENGTH"} /\ p.contentLength = Value[Symbol]
        /\ p.headerState = "content-length"
    BY <1>1 DEF Parser
  <2> HIDE DEF p
  <2>3. "TRAILING" \in p.flags <=> "TRAILING" \in parser.flags
    BY <2>2
  <2>4. /\ InSection' /\ (Trailing' <=> Trailing) /\ Fields' = Fields
        /\ AfterColon(j, 1)' = AfterColon(j, 1)
    BY <1>5, <1>7, <2>1, <2>2, <2>3, SectionStays
  <2>5. /\ parser' = p /\ mark' = Extend("value") /\ Reading' = Reading /\ Current' = Current
        /\ Ahead' = From(Written, pos + 1)
        /\ \A k : PlainUpTo(k)' <=> PlainUpTo(k)
    BY <2>1, Moved
  <2>6. p.headerState = ValueKind(h, 1) /\ FlagsRead(h, 1) = {"CONTENTLENGTH"}
    BY <1>5, <2>2, KindOfValue DEF FlagsRead
  <2>7. ASSUME ~Trailing, PlainUpTo(Current + 1)
        PROVE  Virtual' = Partial(j - 1, h.name, Upto(v, 1), TRUE)
    <3>1. mark'.part = "value" /\ mark'.bytes = <<>> \o <<Symbol>>
      BY <1>5, <2>5, NoMarkType DEF Extend
    <3>2. Virtual' = OnHeaderValue(channel, <<>> \o <<Symbol>>)
      BY <2>1, <3>1 DEF Virtual, HeadAfter
    <3>3. \A t \in Text : OnHeaderValue(channel, t) = Partial(j - 1, h.name, t, TRUE)
      BY <1>1, <1>5, <2>7, ValueStarted
    <3> QED BY <1>8, <3>2, <3>3
  <2>8. Partial(j - 1, h.name, Upto(v, 1), TRUE)' = Partial(j - 1, h.name, Upto(v, 1), TRUE)
    BY <2>5 DEF Partial
  <2>9. AtValue(j, 1)'
    <3>1. j \in 1..Len(Fields') /\ 1 \in 1..Len(v) /\ Fields'[j] = h /\ Ahead' = AfterColon(j, 1)'
      BY <1>3, <1>5, <1>8, <2>4, <2>5
    <3>2. ~Trailing' =>
            /\ parser'.headerState = ValueKind(h, 1) /\ parser'.headerState = "content-length"
            /\ parser'.contentLength = Value[v[1]]
            /\ parser'.flags = HeadFlags(Fields', j - 1) \cup FlagsRead(h, 1)
            /\ PlainUpTo(Current + 1)' => Virtual' = Partial(j - 1, h.name, Upto(v, 1), TRUE)'
      BY <1>5, <1>8, <2>2, <2>4, <2>5, <2>6, <2>7, <2>8
    <3> QED BY <1>4, <2>4, <3>1, <3>2, Zenon DEF AtValue
  <2> QED BY <2>2, <2>5, <2>9 DEF Arrives, Place
<1>10. CASE Symbol \notin Digits \/ "CONTENTLENGTH" \in parser.flags
  <2>1. Trailing => ~Orderly \/ Stopped
    BY <1>1, <1>5, <1>7, TrailerStops
  <2>2. ASSUME ~Trailing PROVE ~Orderly
    <3>1. j \in 1..Len(Reading.headers) /\ Proper(Reading)
      BY <1>5, <1>6, <2>2
    <3>2. /\ h.value \in Seq(Digits)
          /\ "CONTENTLENGTH" \in HeadFlags(Reading.headers, j - 1) => Refused(Reading)
      BY <1>5, <1>6, <2>2, <3>1, Lengths
    <3>3. Symbol \in Digits
      BY <1>4, <1>8, <3>2
    <3> QED BY <1>1, <1>5, <1>6, <1>10, <2>2, <3>2, <3>3, RefusedStops
  <2>3. parser'.errno # "OK"
    <3>1. PICK e \in Errors : e # "OK" /\ Fail(e)
      BY <1>10 DEF ReadContentLength, Errors
    <3> QED BY <3>1, Failed
  <2> QED BY <2>1, <2>2, <2>3 DEF Arrives
<1> QED BY <1>9, <1>10

\* A length goes on: its message is refused.
LEMMA LengthGoesOn ==
  ASSUME Parsing, ReadLengthDigit
  PROVE  Arrives
<1>1. /\ Inv /\ Fixed /\ Marked /\ pos < chunkEnd /\ pos + 1 # garbled
      /\ parser.state = "value" /\ parser.errno = "OK" /\ parser \in Parser
      /\ channel \in HeadParts /\ Symbol # Eol /\ parser.headerState = "content-length"
  BY ParsingFacts DEF ReadLengthDigit
<1>2. PICK j \in Nat, r \in Nat : AtValue(j, r)
  BY <1>1 DEF Parsing, Place
<1>3. PICK h : h = Fields[j]
  OBVIOUS
<1>4. PICK v : v = h.value
  OBVIOUS
<1>5. /\ InSection /\ j \in 1..Len(Fields) /\ r \in 1..Len(v) /\ Ahead = AfterColon(j, r)
      /\ ~Trailing => /\ ValueKind(h, r) = "content-length"
                      /\ r = 1 /\ parser.contentLength = Value[v[1]]
  BY <1>1, <1>2, <1>3, <1>4 DEF AtValue
<1>6. ~Trailing => /\ Current < Len(script) /\ Proper(Reading)
                   /\ Fields = Reading.headers /\ Reading.headers[j] = h
  BY <1>1, <1>3, <1>5, FieldsFacts
<1>7. Trailing => Open.trailer # <<>>
  BY <1>1, <1>5, FieldsFacts
<1>8. PICK q \in Nat : q = r + 1
  OBVIOUS
<1>9. /\ v \in Text /\ Len(v) \in Nat /\ r # Len(v) /\ q \in 1..Len(v)
      /\ From(Written, pos + 1) = AfterColon(j, q)
  <2>1. r \in 0..Len(v)
    BY <1>5
  <2>2. /\ v \in Text /\ Len(v) \in Nat /\ r # Len(v) /\ r + 1 \in 1..Len(v)
        /\ From(Written, pos + 1) = AfterColon(j, r + 1)
    BY <1>1, <1>3, <1>4, <1>5, <2>1, SeesInValue
  <2> QED BY <1>8, <2>2
<1>10. CASE Symbol \in Digits /\ Fits(10, parser.contentLength)
  <2> DEFINE p == [parser EXCEPT !.contentLength = 10 * @ + Value[Symbol]]
  <2>1. Trailing
    <3> SUFFICES ASSUME ~Trailing PROVE FALSE
      OBVIOUS
    <3>1. j \in 1..Len(Reading.headers) /\ Kind(h.name) = "content-length" /\ Len(v) # 1
      BY <1>5, <1>6, <1>9, KindOfValue
    <3>2. ~Fits(10, Value[h.value[1]])
      BY <1>4, <1>6, <3>1, Lengths
    <3> QED BY <1>4, <1>5, <1>10, <3>2
  <2>2. Read(p, Extend("value")) /\ channel' = channel
    BY <1>10 DEF ReadLengthDigit
  <2>3. /\ p.state = "value" /\ p.errno = "OK" /\ p.method = parser.method
        /\ p.version = parser.version /\ p.upgrade = parser.upgrade
        /\ p.flags = parser.flags
    BY <1>1 DEF Parser
  <2> HIDE DEF p
  <2>4. /\ InSection' /\ (Trailing' <=> Trailing) /\ Fields' = Fields
        /\ AfterColon(j, q)' = AfterColon(j, q)
    BY <1>5, <1>7, <2>2, <2>3, SectionStays
  <2>5. parser' = p /\ Ahead' = From(Written, pos + 1)
    BY <2>2, Moved
  <2>6. AtValue(j, q)'
    <3>1. j \in 1..Len(Fields') /\ q \in 1..Len(Fields'[j].value) /\ Ahead' = AfterColon(j, q)'
      BY <1>3, <1>4, <1>5, <1>9, <2>4, <2>5
    <3> QED BY <2>1, <2>4, <3>1, Zenon DEF AtValue
  <2> QED BY <1>8, <2>3, <2>5, <2>6 DEF Arrives, Place
<1>11. CASE ~(Symbol \in Digits /\ Fits(10, parser.contentLength))
  <2>1. Trailing => ~Orderly \/ Stopped
    BY <1>1, <1>5, <1>7, TrailerStops
  <2>2. ASSUME ~Trailing PROVE ~Orderly
    <3>1. j \in 1..Len(Reading.headers) /\ Kind(h.name) = "content-length" /\ Len(v) # 1
      BY <1>5, <1>6, <1>9, <2>2, KindOfValue
    <3>2. Refused(Reading)
      BY <1>4, <1>6, <2>2, <3>1, Lengths
    <3> QED BY <1>1, <1>6, <2>2, <3>2, RefusedStops
  <2>3. parser'.errno # "OK"
    <3>1. PICK e \in Errors : e # "OK" /\ Fail(e)
      BY <1>11 DEF ReadLengthDigit, Errors
    <3> QED BY <3>1, Failed
  <2> QED BY <2>1, <2>2, <2>3 DEF Arrives
<1> QED BY <1>10, <1>11

\* A value goes on.
LEMMA ValueGoes ==
  ASSUME Parsing, ReadValue
  PROVE  Arrives
<1>1. /\ Inv /\ Fixed /\ Marked /\ pos < chunkEnd /\ pos + 1 # garbled
      /\ parser.state = "value" /\ parser.errno = "OK" /\ parser \in Parser
      /\ channel \in HeadParts /\ mark.bytes \in Text
      /\ Symbol # Eol /\ parser.headerState # "content-length"
  BY ParsingFacts DEF ReadValue
<1>2. PICK j \in Nat, r \in Nat : AtValue(j, r)
  BY <1>1 DEF Parsing, Place
<1>3. PICK h : h = Fields[j]
  OBVIOUS
<1>4. PICK v : v = h.value
  OBVIOUS
<1>5. /\ InSection /\ j \in 1..Len(Fields) /\ r \in 1..Len(v) /\ Ahead = AfterColon(j, r)
      /\ ~Trailing => /\ parser.headerState = ValueKind(h, r)
                      /\ parser.flags = HeadFlags(Fields, j - 1) \cup FlagsRead(h, r)
                      /\ LengthRead
                      /\ PlainUpTo(Current + 1) =>
                           Virtual = Partial(j - 1, h.name, Upto(v, r), TRUE)
  BY <1>1, <1>2, <1>3, <1>4 DEF AtValue
<1>6. ~Trailing => WellFormed(h) /\ Kind(h.name) # "content-length"
  BY <1>1, <1>3, <1>5, FieldFacts, KindOfValue
<1>7. Trailing => Open.trailer # <<>>
  BY <1>1, <1>5, FieldsFacts
<1>8. PICK q \in Nat : q = r + 1
  OBVIOUS
<1>9. /\ v \in Text /\ Len(v) \in Nat /\ r # Len(v) /\ q \in 1..Len(v) /\ Symbol = v[q]
      /\ Symbol \in Symbols /\ Symbol # Bad
      /\ From(Written, pos + 1) = AfterColon(j, q)
      /\ Upto(v, r) \in Text /\ Upto(v, q) = Upto(v, r) \o <<Symbol>>
  <2>1. r \in 0..Len(v)
    BY <1>5
  <2>2. /\ v \in Text /\ Len(v) \in Nat /\ r # Len(v) /\ r + 1 \in 1..Len(v) /\ Symbol = v[r + 1]
        /\ Symbol \in Symbols \ {Eol, Bad}
        /\ From(Written, pos + 1) = AfterColon(j, r + 1)
        /\ Upto(v, r) \in Text /\ Upto(v, r + 1) = Upto(v, r) \o <<Symbol>>
    BY <1>1, <1>3, <1>4, <1>5, <2>1, SeesInValue
  <2> QED BY <1>8, <2>2
<1>10. mark.part = "value"
  BY <1>1 DEF Marked
<1> DEFINE p == [parser EXCEPT !.flags = @ \cup ElementFlag(parser.headerState),
                               !.headerState = ValueState(@)]
<1>11. Read(p, Extend("value")) /\ channel' = channel
  BY <1>9 DEF ReadValue
<1>12. /\ p.state = "value" /\ p.errno = "OK" /\ p.method = parser.method
       /\ p.version = parser.version /\ p.upgrade = parser.upgrade
       /\ p.flags = parser.flags \cup ElementFlag(parser.headerState)
       /\ p.contentLength = parser.contentLength
       /\ p.headerState = ValueState(parser.headerState)
  BY <1>1 DEF Parser
<1> HIDE DEF p
<1>13. /\ "TRAILING" \in p.flags <=> "TRAILING" \in parser.flags
       /\ "CONTENTLENGTH" \in p.flags <=> "CONTENTLENGTH" \in parser.flags
  <2>1. HeaderFlag(parser.headerState) \cap {"TRAILING", "UPGRADE", "CONTENTLENGTH"} = {}
    BY HeaderFlagIs
  <2> QED BY <1>12, <2>1 DEF ElementFlag
<1>14. /\ InSection' /\ (Trailing' <=> Trailing) /\ Fields' = Fields
       /\ AfterColon(j, q)' = AfterColon(j, q)
  BY <1>5, <1>7, <1>11, <1>12, <1>13, SectionStays
<1>15. /\ parser' = p /\ mark' = Extend("value") /\ Reading' = Reading /\ Current' = Current
       /\ Ahead' = From(Written, pos + 1)
       /\ \A k : PlainUpTo(k)' <=> PlainUpTo(k)
  BY <1>11, Moved
<1>16. ~Trailing => LengthRead'
  BY <1>5, <1>11, <1>12, <1>13, LengthStays
<1>17. ASSUME ~Trailing
       PROVE  /\ p.headerState = ValueKind(h, q) /\ p.headerState # "content-length"
              /\ p.flags = HeadFlags(Fields, j - 1) \cup FlagsRead(h, q)
  <2>1. r \in 1..(Len(h.value) - 1) /\ Symbol = h.value[r + 1]
    BY <1>4, <1>5, <1>8, <1>9
  <2>2. /\ ValueState(ValueKind(h, r)) = ValueKind(h, r + 1)
        /\ FlagsRead(h, r + 1) = FlagsRead(h, r) \cup ElementFlag(ValueKind(h, r))
    BY <1>6, <1>17, <2>1, ValueGoesOn
  <2>3. ValueKind(h, q) # "content-length"
    BY <1>6, <1>17, KindOfValue
  <2>4. p.flags = (HeadFlags(Fields, j - 1) \cup FlagsRead(h, r)) \cup ElementFlag(ValueKind(h, r))
    BY <1>5, <1>12, <1>17
  <2>5. p.headerState = ValueKind(h, q)
    BY <1>5, <1>8, <1>12, <1>17, <2>2
  <2>6. p.flags = HeadFlags(Fields, j - 1) \cup FlagsRead(h, q)
    BY <1>8, <2>2, <2>4
  <2> QED BY <2>3, <2>5, <2>6
<1>18. ASSUME ~Trailing, PlainUpTo(Current + 1)
       PROVE  Virtual' = Partial(j - 1, h.name, Upto(v, q), TRUE)
  <2> DEFINE yes == TRUE
             new == mark.bytes \o <<Symbol>>
  <2>1. OnHeaderValue(channel, mark.bytes) = Partial(j - 1, h.name, Upto(v, r), yes)
    BY <1>5, <1>10, <1>18 DEF Virtual, HeadAfter
  <2>2. \A u, f, w, b, H : OnHeaderValue(channel, mark.bytes) = Gathered(u, f, w, b, H) =>
          OnHeaderValue(channel, new) = Gathered(u, f, w \o <<Symbol>>, b, H)
    BY <1>1, <1>9, ValueGrows
  <2>3. mark'.part = "value" /\ mark'.bytes = new
    BY <1>10, <1>15 DEF Extend
  <2>4. Virtual' = OnHeaderValue(channel, new)
    BY <1>11, <2>3 DEF Virtual, HeadAfter
  <2> HIDE DEF yes, new
  <2>5. OnHeaderValue(channel, new) = Partial(j - 1, h.name, Upto(v, r) \o <<Symbol>>, yes)
    BY <2>1, <2>2, Zenon DEF Partial
  <2>6. Virtual' = Partial(j - 1, h.name, Upto(v, q), yes)
    BY <1>9, <2>4, <2>5, Zenon
  <2> QED BY <2>6 DEF yes
<1>19. Partial(j - 1, h.name, Upto(v, q), TRUE)' = Partial(j - 1, h.name, Upto(v, q), TRUE)
  BY <1>15 DEF Partial
<1>20. AtValue(j, q)'
  <2>1. j \in 1..Len(Fields') /\ q \in 1..Len(v) /\ Fields'[j] = h /\ Ahead' = AfterColon(j, q)'
    BY <1>3, <1>5, <1>9, <1>14, <1>15
  <2>2. ~Trailing' =>
          /\ parser'.headerState = ValueKind(h, q) /\ parser'.headerState # "content-length"
          /\ parser'.flags = HeadFlags(Fields', j - 1) \cup FlagsRead(h, q) /\ LengthRead'
          /\ PlainUpTo(Current + 1)' => Virtual' = Partial(j - 1, h.name, Upto(v, q), TRUE)'
    BY <1>14, <1>15, <1>16, <1>17, <1>18, <1>19
  <2> QED BY <1>4, <1>14, <2>1, <2>2, Zenon DEF AtValue
<1> QED BY <1>8, <1>12, <1>15, <1>20 DEF Arrives, Place

\* A value ends with its line.
LEMMA ValueEnds ==
  ASSUME Parsing, ReadValueEnd
  PROVE  Arrives
<1>1. /\ Inv /\ Fixed /\ Marked /\ pos < chunkEnd /\ pos + 1 # garbled
      /\ parser.state = "value" /\ parser.errno = "OK" /\ parser \in Parser
      /\ channel \in HeadParts /\ mark.bytes \in Text /\ Symbol = Eol
  BY ParsingFacts DEF ReadValueEnd
<1>2. PICK j \in Nat, r \in Nat : AtValue(j, r)
  BY <1>1 DEF Parsing, Place
<1>3. PICK h : h = Fields[j]
  OBVIOUS
<1>4. PICK v : v = h.value
  OBVIOUS
<1>5. /\ InSection /\ j \in 1..Len(Fields) /\ r \in 1..Len(v) /\ Ahead = AfterColon(j, r)
      /\ ~Trailing => /\ parser.headerState = ValueKind(h, r)
                      /\ parser.flags = HeadFlags(Fields, j - 1) \cup FlagsRead(h, r)
                      /\ IF parser.headerState = "content-length"
                           THEN r = 1 /\ parser.contentLength = Value[v[1]]
                           ELSE LengthRead
                      /\ PlainUpTo(Current + 1) =>
                           Virtual = Partial(j - 1, h.name, Upto(v, r), TRUE)
  BY <1>1, <1>2, <1>3, <1>4 DEF AtValue
<1>6. ~Trailing => /\ Current < Len(script) /\ Proper(Reading)
                   /\ Fields = Reading.headers /\ Reading.headers[j] = h
  BY <1>1, <1>3, <1>5, FieldsFacts
<1>7. Trailing => Open.trailer # <<>>
  BY <1>1, <1>5, FieldsFacts
<1>8. /\ v \in Text /\ Len(v) \in Nat /\ r = Len(v)
      /\ From(Written, pos + 1) = Lines(Fields, j, Behind)
  <2>1. r \in 0..Len(v)
    BY <1>5
  <2> QED BY <1>1, <1>3, <1>4, <1>5, <2>1, SeesInValue
<1>9. mark.part = "value"
  BY <1>1 DEF Marked
<1> DEFINE p == [parser EXCEPT !.state = "field_start",
                               !.flags = @ \cup HeaderFlag(parser.headerState)]
<1>10. Read(p, NoMark) /\ channel' = HeadAfter("value", mark.bytes)
  BY DEF ReadValueEnd
<1>11. /\ p.state = "field_start" /\ p.errno = "OK" /\ p.method = parser.method
       /\ p.version = parser.version /\ p.upgrade = parser.upgrade
       /\ p.flags = parser.flags \cup HeaderFlag(parser.headerState)
       /\ p.contentLength = parser.contentLength
  BY <1>1 DEF Parser
<1> HIDE DEF p
<1>12. /\ "TRAILING" \in p.flags <=> "TRAILING" \in parser.flags
       /\ "CONTENTLENGTH" \in p.flags <=> "CONTENTLENGTH" \in parser.flags
  <2>1. HeaderFlag(parser.headerState) \cap {"TRAILING", "UPGRADE", "CONTENTLENGTH"} = {}
    BY HeaderFlagIs
  <2> QED BY <1>11, <2>1
<1>13. /\ InSection' /\ (Trailing' <=> Trailing) /\ Fields' = Fields
       /\ Lines(Fields, j, Behind)' = Lines(Fields, j, Behind)
  BY <1>5, <1>7, <1>10, <1>11, <1>12, SectionStays
<1>14. /\ parser' = p /\ mark' = NoMark /\ Reading' = Reading /\ Current' = Current
       /\ Ahead' = From(Written, pos + 1)
       /\ \A k : PlainUpTo(k)' <=> PlainUpTo(k)
  BY <1>10, Moved
<1>15. ASSUME ~Trailing PROVE p.flags = HeadFlags(Fields, j)
  <2>1. p.flags = (HeadFlags(Fields, j - 1) \cup FlagsRead(h, r)) \cup HeaderFlag(ValueKind(h, r))
    BY <1>5, <1>11, <1>15
  <2>2. h.value # <<>>
    BY <1>4, <1>5
  <2>3. FieldFlags(h) = FlagsRead(h, r) \cup HeaderFlag(ValueKind(h, r))
    BY <1>4, <1>8, <2>2 DEF FieldFlags
  <2>4. HeadFlags(Fields, j) = HeadFlags(Fields, j - 1) \cup FieldFlags(h)
    <3>1. PICK i \in Nat : i = j - 1 /\ i + 1 = j
      BY <1>5
    <3>2. HeadFlags(Fields, i + 1) = HeadFlags(Fields, i) \cup FieldFlags(Fields[i + 1])
      BY HeadFlagsIs
    <3> QED BY <1>3, <3>1, <3>2
  <2> QED BY <2>1, <2>3, <2>4
<1>16. ASSUME ~Trailing PROVE LengthRead'
  <2>1. CASE parser.headerState = "content-length"
    <3>1. /\ Kind(h.name) = "content-length" /\ r = 1 /\ parser.contentLength = Value[v[1]]
          /\ "CONTENTLENGTH" \in parser.flags
      BY <1>5, <1>16, <2>1, KindOfValue DEF FlagsRead
    <3>2. j \in 1..Len(Reading.headers) /\ Len(h.value) = 1
      BY <1>4, <1>5, <1>6, <1>8, <1>16, <3>1
    <3>3. Reading.chunks = <<>> => parser.contentLength = Len(Reading.body)
      BY <1>4, <1>6, <1>16, <3>1, <3>2, Lengths
    <3> QED BY <1>11, <1>12, <1>14, <3>1, <3>3 DEF LengthRead
  <2>2. CASE parser.headerState # "content-length"
    BY <1>5, <1>10, <1>11, <1>12, <1>16, <2>2, LengthStays
  <2> QED BY <2>1, <2>2
<1>17. ASSUME ~Trailing, PlainUpTo(Current + 1)
       PROVE  MoveHeader(channel') = HeadRead(j)
  <2> DEFINE c == channel'
  <2>1. c = Virtual
    BY <1>9, <1>10 DEF Virtual
  <2>2. Upto(v, r) = v
    BY <1>8, BehindPart
  <2>3. c = Partial(j - 1, h.name, Upto(v, r), TRUE)
    BY <1>5, <1>17, <2>1
  <2> HIDE DEF c
  <2>4. c = Partial(j - 1, Fields[j].name, Fields[j].value, TRUE)
    BY <1>3, <1>4, <2>2, <2>3
  <2>5. MoveHeader(c) = HeadRead(j)
    BY <1>1, <1>5, <1>17, <2>4, HeaderKept
  <2> QED BY <2>5 DEF c
<1>18. HeadRead(j)' = HeadRead(j)
  BY <1>14 DEF HeadRead, Partial
<1>19. AtLine(j)'
  <2>1. j \in 0..Len(Fields') /\ Ahead' = Lines(Fields, j, Behind)'
    <3>1. Len(Fields) \in Nat
      BY <1>1, <1>5, FieldsFacts
    <3> QED BY <1>5, <1>8, <1>13, <1>14, <3>1
  <2>2. ~Trailing' =>
          /\ parser'.flags = HeadFlags(Fields', j) /\ LengthRead'
          /\ PlainUpTo(Current + 1)' => MoveHeader(channel') = HeadRead(j)'
    BY <1>13, <1>14, <1>15, <1>16, <1>17, <1>18
  <2> QED BY <1>13, <1>14, <2>1, <2>2, Zenon DEF AtLine
<1> QED BY <1>11, <1>14, <1>19 DEF Arrives, Place

-----------------------------------------------------------------------------
(* The end of a head *)

\* At the end of a head or trailer all its fields have been read.
LEMMA AtLastLine ==
  ASSUME Parsing, HeadEnds
  PROVE  /\ Inv /\ Fixed /\ pos < chunkEnd /\ parser.errno = "OK" /\ parser \in Parser
         /\ parser.state = "field_start" /\ Symbol = Eol /\ mark = NoMark
         /\ InSection /\ AtLine(Len(Fields)) /\ Len(Fields) \in Nat
         /\ From(Written, pos + 1) = Behind
<1>1. /\ Inv /\ Fixed /\ pos < chunkEnd /\ parser.errno = "OK" /\ parser \in Parser
      /\ parser.state = "field_start" /\ Symbol = Eol /\ pos + 1 # garbled
  BY ParsingFacts DEF HeadEnds
<1>2. PICK j \in Nat : AtLine(j)
  BY <1>1 DEF Parsing, Place
<1>3. InSection /\ j \in 0..Len(Fields) /\ Ahead = Lines(Fields, j, Behind) /\ mark = NoMark
  BY <1>2 DEF AtLine
<1>4. /\ Len(Fields) \in Nat /\ Behind \in Text
      /\ Lines(Fields, Len(Fields), Behind) = <<Eol>> \o Behind
      /\ \A k \in 0..(Len(Fields) - 1) : Lines(Fields, k, Behind) = AfterName(k + 1, 0)
  BY <1>1, <1>3, FieldsFacts
<1>5. j = Len(Fields)
  <2> SUFFICES ASSUME j # Len(Fields) PROVE FALSE
    OBVIOUS
  <2>1. PICK i \in Nat : i = j + 1 /\ i \in 1..Len(Fields)
    BY <1>3, <1>4
  <2>2. Ahead = AfterName(i, 0)
    BY <1>3, <1>4, <2>1
  <2> DEFINE colon == <<":">> \o AfterColon(i, 0)
  <2>3. PICK n : n = Fields[i].name
    OBVIOUS
  <2>4. /\ n \in Text /\ n # <<>> /\ colon \in Text
        /\ \A k \in 1..Len(n) : IsToken(n[k])
        /\ AfterName(i, 0) = From(n, 0) \o colon
    BY <1>1, <1>3, <2>1, <2>3, FieldFacts
  <2> HIDE DEF colon
  <2>5. 0 \in 0..(Len(n) - 1) /\ 0 + 1 \in 1..Len(n)
    BY <2>4, EmptySeq DEF Text
  <2>6. /\ n[0 + 1] \in Symbols /\ From(n, 0 + 1) \o colon \in Text
        /\ Ahead = <<n[0 + 1]>> \o (From(n, 0 + 1) \o colon)
    BY <2>2, <2>4, <2>5, InPart
  <2>7. Symbol = n[0 + 1]
    BY <1>1, <2>6, Sees
  <2> QED BY <1>1, <2>4, <2>5, <2>7, Separators
<1>6. From(Written, pos + 1) = Behind
  BY <1>1, <1>3, <1>4, <1>5, Sees, Separators
<1> QED BY <1>1, <1>2, <1>3, <1>4, <1>5, <1>6

\* What the parser knows of a message whose head it has read.
LEMMA HeadKnown ==
  ASSUME Parsing, HeadEnds, ~Trailing
  PROVE  /\ Current \in Nat /\ Current < Len(script) /\ Current + 1 \in 1..Len(script)
         /\ Len(script) \in Nat /\ script \in Scripts
         /\ Proper(Reading) /\ Sound(Reading)
         /\ parser.method = Reading.method /\ parser.version = Reading.version
         /\ Content(Reading) \in Text /\ Later(script, Current + 1) \in Text
         /\ From(Written, pos + 1) = Content(Reading) \o Later(script, Current + 1)
         /\ parser.flags = HeadFlags(Reading.headers, Len(Reading.headers))
         /\ LengthRead
         /\ PlainUpTo(Current + 1) =>
              MoveHeader(channel) = Gathered(Reading.url, <<>>, <<>>, FALSE, HeadersOf(Reading))
<1>1. /\ Inv /\ Fixed /\ InSection /\ AtLine(Len(Fields))
      /\ From(Written, pos + 1) = Behind
  BY AtLastLine
<1>2. InHead /\ parser.version = Reading.version
  BY <1>1 DEF InSection
<1>3. Current < Len(script) /\ parser.method = Reading.method
  BY <1>2 DEF InHead
<1>4. /\ Current + 1 \in 1..Len(script) /\ Proper(Reading) /\ Sound(Reading)
      /\ Content(Reading) \in Text /\ Later(script, Current + 1) \in Text
  BY <1>1, <1>3, ReadingFacts
<1>5. Fields = Reading.headers /\ Behind = Content(Reading) \o Later(script, Current + 1)
  BY DEF Fields, Behind
<1>6. /\ parser.flags = HeadFlags(Reading.headers, Len(Reading.headers)) /\ LengthRead
      /\ PlainUpTo(Current + 1) => MoveHeader(channel) = HeadRead(Len(Reading.headers))
  BY <1>1, <1>5 DEF AtLine
<1>7. HeadRead(Len(Reading.headers)) = Gathered(Reading.url, <<>>, <<>>, FALSE, HeadersOf(Reading))
  BY <1>4, PairsGrow DEF HeadRead, Partial
<1>8. Current \in Nat /\ Len(script) \in Nat /\ script \in Scripts
  BY <1>1, StreamFacts
<1> QED BY <1>1, <1>2, <1>3, <1>4, <1>5, <1>6, <1>7, <1>8

\* What the flags of a head tell.
LEMMA HeadTells ==
  ASSUME Parsing, HeadEnds, ~Trailing
  PROVE  /\ {"CHUNKED", "CONTENTLENGTH"} \subseteq parser.flags => Refused(Reading)
         /\ Chunked(parser) <=> Reading.chunks # <<>>
         /\ ~Chunked(parser) => parser.contentLength = Len(Reading.body)
         /\ Chunked(parser) /\ "CONTENTLENGTH" \notin parser.flags => parser.contentLength = 0
         /\ KeepAlive(parser) <=> ~Closes(Reading)
         /\ Upgrades(parser) \/ parser.method = "CONNECT" => Switches(Reading)
<1>1. /\ Proper(Reading) /\ parser.method = Reading.method /\ parser.version = Reading.version
      /\ parser.flags = HeadFlags(Reading.headers, Len(Reading.headers)) /\ LengthRead
  BY HeadKnown
<1> DEFINE F == parser.flags
<1>2. /\ \A x \in Options : FlagOf(x) \in F <=> Lists(Reading, OptionOf(x))
      /\ "CHUNKED" \in F <=> Reading.chunks # <<>>
      /\ "CONTENTLENGTH" \notin F /\ Reading.chunks = <<>> => Reading.body = <<>>
      /\ {"CHUNKED", "CONTENTLENGTH"} \subseteq F => Refused(Reading)
  BY <1>1, FlagsOfHead
<1>3. ~Chunked(parser) => parser.contentLength = Len(Reading.body)
  <2>1. Len(<<>>) = 0
    OBVIOUS
  <2> QED BY <1>1, <1>2, <2>1 DEF LengthRead, Chunked
<1>4. Chunked(parser) /\ "CONTENTLENGTH" \notin F => parser.contentLength = 0
  BY <1>1 DEF LengthRead
<1>5. /\ KeepAlive(parser) <=> ~Closes(Reading)
      /\ Upgrades(parser) => Switches(Reading)
  BY <1>1, <1>2, HeadSays
<1>6. parser.method = "CONNECT" => Switches(Reading)
  BY <1>1 DEF Switches
<1> QED BY <1>2, <1>3, <1>4, <1>5, <1>6 DEF Chunked

\* Where the head ends.
LEMMA HeadEndsHere ==
  ASSUME Parsing, HeadEnds, ~Trailing
  PROVE  headEnd[Current + 1] = pos + 1
<1> DEFINE i == Current + 1
           rest == Content(Reading) \o Later(script, i)
<1>1. /\ i \in 1..Len(script) /\ script \in Scripts /\ Inv /\ Fixed /\ pos < chunkEnd
      /\ From(Written, pos + 1) = rest /\ DOMAIN script = 1..Len(script)
  BY AtLastLine, HeadKnown, ScriptType
<1>2. headEnd[i] = HeadEnd(script, i)
  BY <1>1 DEF Fixed
<1>3. HeadEnd(script, i) \in Nat /\ HeadEnd(script, i) + Len(rest) = Len(Written)
  <2>1. Reading = script[i]
    BY DEF Reading
  <2> HIDE DEF i
  <2> QED BY <1>1, <2>1, HeadEndIs DEF Written
<1>4. pos + 1 \in 0..Len(Written) /\ Written \in Text /\ Len(Written) \in Nat /\ pos \in Nat
  BY <1>1, StreamFacts
<1>5. Len(rest) = Len(Written) - (pos + 1)
  BY <1>1, <1>4, Pieces DEF Text
<1> HIDE DEF rest, i
<1> QED BY <1>2, <1>3, <1>4, <1>5 DEF i

\* A body follows the head, and is read.
HasBody(p) == Chunked(p) \/ p.contentLength > 0
EndsAtOnce(p) == ~HasBody(p) \/ p.method = "CONNECT"

\* Url and headers are moved into the call of onRequest.
LEMMA MovedOut ==
  ASSUME NEW u, NEW f, NEW v, NEW b, NEW H
  PROVE  MoveOut(Gathered(u, f, v, b, H)) = Gathered(<<>>, f, v, b, {})
<1> DEFINE none == <<>>
           g == Gathered(u, f, v, b, H)
           h == Gathered(none, f, v, b, H)
<1>1. MoveOut(g) = [[g EXCEPT !.urlOrStatus = none] EXCEPT !.headers = {}]
  BY DEF MoveOut
<1> HIDE DEF none
<1>2. [g EXCEPT !.urlOrStatus = none] = h
  BY DEF Gathered
<1>3. [h EXCEPT !.headers = {}] = Gathered(none, f, v, b, {})
  BY DEF Gathered
<1> HIDE DEF g, h
<1>4. MoveOut(g) = Gathered(none, f, v, b, {})
  BY <1>1, <1>2, <1>3
<1> QED BY <1>4 DEF g, none

\* onRequest is called with what was read.
LEMMA HeadReceived ==
  ASSUME Parsing, HeadEnds, ~Trailing, CompleteHead
  PROVE  /\ Current' = Current + 1 /\ script' = script /\ garbled' = garbled /\ headEnd' = headEnd
         /\ Open' = Reading /\ Written' = Written /\ mark' = NoMark
         /\ \A i \in 1..Current : received'[i] = received[i]
         /\ received'[Current + 1].method = Reading.method
         /\ received'[Current + 1].body = <<>>
         /\ received'[Current + 1].ended = EndsAtOnce(parser)
         /\ PlainUpTo(Current + 1) =>
              /\ channel' = Idle /\ received'[Current + 1].url = Reading.url
              /\ received'[Current + 1].headers = HeadersOf(Reading)
         /\ \A i : PlainUpTo(i)' <=> PlainUpTo(i)
<1>1. /\ Current \in Nat /\ parser.method = Reading.method
      /\ PlainUpTo(Current + 1) =>
           MoveHeader(channel) = Gathered(Reading.url, <<>>, <<>>, FALSE, HeadersOf(Reading))
  BY HeadKnown
<1> DEFINE c == MoveHeader(channel)
           r == [method |-> parser.method, url |-> c.urlOrStatus, headers |-> c.headers,
                 version |-> parser.version, chunked |-> Chunked(parser),
                 body |-> <<>>, ended |-> EndsAtOnce(parser)]
<1>2. /\ channel' = MoveOut(c) /\ received' = Append(received, r) /\ mark' = NoMark
      /\ script' = script /\ garbled' = garbled /\ headEnd' = headEnd
  BY DEF CompleteHead, HasBody, EndsAtOnce, Parsing, scriptVars
<1>3. /\ r.method = parser.method /\ r.url = c.urlOrStatus /\ r.headers = c.headers
      /\ r.body = <<>> /\ r.ended = EndsAtOnce(parser)
  OBVIOUS
<1>4. received \in Seq(Message) /\ Current = Len(received)
  BY DEF Parsing, Inv, TypeOK, Current
<1> HIDE DEF r
<1>5. /\ Len(received') = Len(received) + 1 /\ received'[Current + 1] = r
      /\ \A i \in 1..Current : received'[i] = received[i]
  <2>1. /\ Len(Append(received, r)) = Len(received) + 1
        /\ \A i \in 1..Len(received) : Append(received, r)[i] = received[i]
        /\ Append(received, r)[Len(received) + 1] = r
    BY <1>4, AppendProperties
  <2> QED BY <1>2, <1>4, <2>1
<1>6. Current' = Current + 1 /\ Open' = Reading /\ Written' = Written
  <2>1. Current' = Current + 1
    BY <1>4, <1>5 DEF Current
  <2> QED BY <1>2, <2>1 DEF Open, Reading, Written
<1>7. \A i : PlainUpTo(i)' <=> PlainUpTo(i)
  BY <1>2 DEF PlainUpTo
<1>8. ASSUME PlainUpTo(Current + 1)
      PROVE  channel' = Idle /\ c.urlOrStatus = Reading.url /\ c.headers = HeadersOf(Reading)
  <2> DEFINE url == Reading.url
             headers == HeadersOf(Reading)
  <2>1. c = Gathered(url, <<>>, <<>>, FALSE, headers)
    BY <1>1, <1>8
  <2> HIDE DEF url, headers, c
  <2>2. c.urlOrStatus = url /\ c.headers = headers
    BY <2>1 DEF Gathered
  <2>3. \A u, f, v, b, H : MoveOut(Gathered(u, f, v, b, H)) = Gathered(<<>>, f, v, b, {})
    BY MovedOut
  <2>6. MoveOut(c) = Idle
    BY <2>1, <2>3, Zenon DEF Idle
  <2> QED BY <1>2, <2>2, <2>6 DEF url, headers
<1> QED BY <1>1, <1>2, <1>3, <1>5, <1>6, <1>7, <1>8

\* Where the parser goes on.
LEMMA HeadLeft ==
  ASSUME Parsing, HeadEnds, ~Trailing, CompleteHead
  PROVE  /\ parser'.errno = "OK" /\ parser'.version = parser.version
         /\ parser'.flags = parser.flags /\ parser'.contentLength = parser.contentLength
         /\ parser'.upgrade = Upgrades(parser)
         /\ EndsAtOnce(parser) => parser'.state = NewMessage(parser)
         /\ ~EndsAtOnce(parser) =>
              parser'.state = IF Chunked(parser) THEN "chunk_size_start" ELSE "body_identity"
         /\ pos' >= pos + 1 /\ pos' \in Nat
         /\ ~Upgrades(parser) => pos' = pos + 1
<1>1. parser \in Parser /\ parser.errno = "OK" /\ pos < chunkEnd /\ pos \in Nat /\ chunkEnd \in Nat
  BY AtLastLine, StreamFacts
<1> DEFINE upgrade == Upgrades(parser)
           ends == EndsAtOnce(parser)
           state == CASE ends -> NewMessage(parser)
                      [] ~ends /\ Chunked(parser) -> "chunk_size_start"
                      [] OTHER -> "body_identity"
<1>2. /\ parser' = [parser EXCEPT !.upgrade = upgrade, !.state = state]
      /\ Leave(ends /\ upgrade)
  BY DEF CompleteHead, HasBody, EndsAtOnce
<1>3. /\ ends => state = NewMessage(parser)
      /\ ~ends => state = IF Chunked(parser) THEN "chunk_size_start" ELSE "body_identity"
  BY Zenon
<1>4. pos' = IF ends /\ upgrade THEN chunkEnd ELSE pos + 1
  BY <1>2 DEF Leave
<1> HIDE DEF state, ends, upgrade
<1>5. /\ parser'.errno = "OK" /\ parser'.version = parser.version
      /\ parser'.flags = parser.flags /\ parser'.contentLength = parser.contentLength
      /\ parser'.upgrade = upgrade /\ parser'.state = state
  BY <1>1, <1>2 DEF Parser
<1>6. /\ pos' >= pos + 1 /\ pos' \in Nat
      /\ ~upgrade => pos' = pos + 1
  BY <1>1, <1>4
<1> QED BY <1>3, <1>5, <1>6 DEF ends, upgrade

\* The parser is behind the head, unless the protocol is switched.
LEMMA HeadPlace ==
  ASSUME Parsing, HeadEnds, ~Trailing, CompleteHead, ~Switches(Reading),
         ~({"CHUNKED", "CONTENTLENGTH"} \subseteq parser.flags)
  PROVE  Place'
<1> PICK k : k = Current + 1
  OBVIOUS
<1>1. /\ Current' = k /\ script' = script /\ Open' = Reading /\ Written' = Written
      /\ mark' = NoMark /\ received'[k].body = <<>>
      /\ PlainUpTo(k) => channel' = Idle
      /\ \A i : PlainUpTo(i)' <=> PlainUpTo(i)
  BY HeadReceived
<1>2. /\ k \in 1..Len(script) /\ Len(script) \in Nat /\ Sound(Reading) /\ Proper(Reading)
      /\ parser.version = Reading.version
      /\ Content(Reading) \in Text /\ Later(script, k) \in Text
      /\ From(Written, pos + 1) = Content(Reading) \o Later(script, k)
      /\ parser.flags = HeadFlags(Reading.headers, Len(Reading.headers))
  BY HeadKnown
<1>3. ~Upgrades(parser) /\ parser.method # "CONNECT"
      /\ (Chunked(parser) <=> Reading.chunks # <<>>)
      /\ (~Chunked(parser) => parser.contentLength = Len(Reading.body))
  BY HeadTells
<1>4. /\ parser'.version = Reading.version /\ ~parser'.upgrade
      /\ parser'.flags = parser.flags /\ parser'.contentLength = parser.contentLength
      /\ pos' = pos + 1
      /\ EndsAtOnce(parser) => parser'.state = NewMessage(parser)
      /\ ~EndsAtOnce(parser) =>
           parser'.state = IF Chunked(parser) THEN "chunk_size_start" ELSE "body_identity"
  BY <1>2, <1>3, HeadLeft
<1>5. Ahead' = Content(Reading) \o Later(script, k) /\ Later(script, Current)' = Later(script, k)
  BY <1>1, <1>2, <1>4 DEF Ahead
<1>6. InBody'
  <2>1. InOpen'
    BY <1>1, <1>2, <1>4 DEF InOpen
  <2>2. HeadsFlags' = parser.flags
    BY <1>1, <1>2 DEF HeadsFlags
  <2> QED BY <1>1, <1>4, <2>1, <2>2 DEF InBody
<1>7. Reading.body \in Text /\ Len(Reading.body) \in Nat
  BY <1>2, ProperParts DEF Text
<1>8. CASE Chunked(parser)
  <2>1. parser'.state = "chunk_size_start" /\ Reading.chunks # <<>>
    BY <1>3, <1>4, <1>8 DEF EndsAtOnce, HasBody
  <2>2. Reading.chunks \in Seq(Text)
    BY <1>2 DEF Sound, Request
  <2>3. Ahead' = ChunkLines(Open, 0, Later(script, Current))'
    <3>1. Content(Reading) \o Later(script, k) = ChunkLines(Reading, 0, Later(script, k))
      BY <1>2, <2>1, MessageUnfolds
    <3>2. ChunkLines(Open, 0, Later(script, Current))' = ChunkLines(Reading, 0, Later(script, k))
      BY <1>1
    <3> QED BY <1>5, <3>1, <3>2
  <2>4. BodyUpto(0)' = <<>>
    <3>1. Upto(Reading.chunks, 0) = <<>>
      BY <2>2, Extremes
    <3> QED BY <1>1, <3>1, FlattenNone DEF BodyUpto
  <2>5. InChunks(0)'
    <3>1. 0 \in 0..Len(Reading.chunks)
      BY <2>2
    <3> QED BY <1>1, <1>6, <2>1, <3>1 DEF InChunks
  <2>6. AtChunk(0)'
    BY <1>1, <2>3, <2>4, <2>5 DEF AtChunk
  <2> QED BY <2>1, <2>6 DEF Place
<1>9. CASE ~Chunked(parser) /\ HasBody(parser)
  <2>1. parser'.state = "body_identity" /\ Reading.chunks = <<>>
        /\ parser.contentLength = Len(Reading.body) /\ parser.contentLength > 0
    BY <1>3, <1>4, <1>9 DEF EndsAtOnce, HasBody
  <2>2. Content(Reading) = Reading.body
    BY <2>1 DEF Content
  <2>3. From(Reading.body, 0) = Reading.body /\ Upto(Reading.body, 0) = <<>>
    BY <1>7, Extremes DEF Text
  <2>4. BodyRead' = <<>>
    <3>1. BodyRead' = received'[k].body \o <<>>
      BY <1>1 DEF BodyRead, NoMark
    <3>2. <<>> \o <<>> = <<>>
      BY FlattenNone, Together
    <3> QED BY <1>1, <3>1, <3>2
  <2>5. 0 \in 0..(Len(Reading.body) - 1) /\ Len(Reading.body) = Len(Reading.body) - 0
    BY <1>7, <2>1
  <2>6. AtBody(0)'
    BY <1>1, <1>4, <1>5, <1>6, <2>1, <2>2, <2>3, <2>4, <2>5 DEF AtBody
  <2> QED BY <2>1, <2>6 DEF Place
<1>10. CASE ~HasBody(parser)
  <2>1. parser'.state \in {"start_req", "dead"} /\ Reading.chunks = <<>>
        /\ Len(Reading.body) = 0
    <3>1. ~Chunked(parser) /\ ~(parser.contentLength > 0)
      BY <1>10 DEF HasBody
    <3>2. Len(Reading.body) = 0
      BY <1>3, <1>7, <3>1
    <3> QED BY <1>3, <1>4, <1>10, <3>1, <3>2, NewMessageFacts DEF EndsAtOnce
  <2>2. Content(Reading) = <<>>
    BY <1>7, <2>1, EmptySeq DEF Content, Text
  <2>3. Ahead' = Later(script, Current)'
    BY <1>2, <1>5, <2>2, Together
  <2>4. PlainUpTo(k + 1) => PlainUpTo(k)
    <3>1. \A j \in 1..k : j \in 1..(k + 1)
      BY <1>2
    <3>2. \A j \in 1..(k - 1) : j \in 1..((k + 1) - 1)
      BY <1>2
    <3>3. k <= Len(script)
      BY <1>2
    <3> QED BY <3>1, <3>2, <3>3 DEF PlainUpTo
  <2>5. AtStart'
    <3>1. k <= Len(script)
      BY <1>2
    <3> QED BY <1>1, <2>3, <2>4, <3>1 DEF AtStart
  <2> QED BY <2>1, <2>5 DEF Place
<1> QED BY <1>8, <1>9, <1>10 DEF HasBody

\* What was read of a body is a prefix of it.
LEMMA PrefixOf ==
  ASSUME NEW u \in Text, NEW v \in Text
  PROVE  IsPrefix(u, u \o v)
<1>1. u \o v \in Text /\ Len(u \o v) = Len(u) + Len(v) /\ Len(u) \in Nat /\ Len(v) \in Nat
  BY Together DEF Text
<1>2. /\ Upto(u \o v, Len(u)) \in Text /\ Len(Upto(u \o v, Len(u))) = Len(u)
      /\ \A i \in 1..Len(u) : Upto(u \o v, Len(u))[i] = (u \o v)[i]
  <2>1. Len(u) \in 0..Len(u \o v)
    BY <1>1
  <2> QED BY <1>1, <2>1, Pieces DEF Text
<1>3. \A i \in 1..Len(u) : (u \o v)[i] = u[i]
  BY ConcatProperties DEF Text
<1>4. Upto(u \o v, Len(u)) = u
  <2>1. \A i \in 1..Len(u) : Upto(u \o v, Len(u))[i] = u[i]
    BY <1>2, <1>3
  <2> QED BY <1>2, <2>1, SeqEqual DEF Text
<1>5. Upto(u, Len(u)) = u
  BY Extremes DEF Text
<1> QED BY <1>1, <1>4, <1>5 DEF IsPrefix, Upto

\* The type of a body.
LEMMA BodyType ==
  ASSUME NEW m, Sound(m)
  PROVE  /\ BodyOf(m) \in Text /\ m.chunks \in Seq(Text) /\ m.body \in Text
         /\ \A j \in 0..Len(m.chunks) : FlattenSeq(Upto(m.chunks, j)) \in Text
<1>1. m.chunks \in Seq(Text) /\ m.body \in Text
  BY DEF Sound, Request
<1>2. FlattenSeq(m.chunks) \in Text
  BY <1>1, FlattenType
<1>3. \A j \in 0..Len(m.chunks) : FlattenSeq(Upto(m.chunks, j)) \in Text
  BY <1>1, FlattenPrefix
<1> QED BY <1>1, <1>2, <1>3 DEF BodyOf

\* The message whose head ends is handled as it was sent.
LEMMA HeadSent ==
  ASSUME Parsing, HeadEnds, ~Trailing, CompleteHead, Sent,
         ~({"CHUNKED", "CONTENTLENGTH"} \subseteq parser.flags)
  PROVE  Sent'
<1> PICK k : k = Current + 1
  OBVIOUS
<1>1. /\ Current' = k /\ script' = script
      /\ \A i \in 1..Current : received'[i] = received[i]
      /\ received'[k].method = Reading.method /\ received'[k].body = <<>>
      /\ received'[k].ended = EndsAtOnce(parser)
      /\ PlainUpTo(k) =>
           received'[k].url = Reading.url /\ received'[k].headers = HeadersOf(Reading)
      /\ \A i : PlainUpTo(i)' <=> PlainUpTo(i)
  BY HeadReceived
<1>2. Current \in Nat /\ Sound(Reading) /\ Reading = script[k]
  BY HeadKnown DEF Reading
<1>3. ASSUME NEW i \in 1..Current, PlainUpTo(i) PROVE Same(i)'
  <2>1. Same(i) /\ received'[i] = received[i] /\ script' = script
    BY <1>1, <1>3 DEF Sent
  <2> QED BY <2>1 DEF Same
<1>4. ASSUME PlainUpTo(k) PROVE Same(k)'
  <2>1. /\ received'[k].method = script[k].method /\ received'[k].url = script[k].url
        /\ received'[k].headers = HeadersOf(script[k])
    BY <1>1, <1>2, <1>4
  <2>2. ASSUME ~Switches(script[k])
        PROVE  /\ IsPrefix(received'[k].body, BodyOf(script[k]))
               /\ received'[k].ended => received'[k].body = BodyOf(script[k])
    <3>1. BodyOf(Reading) \in Text /\ Reading.body \in Text /\ <<>> \in Text
      BY <1>2, BodyType, FlattenNone
    <3>2. IsPrefix(<<>>, BodyOf(Reading))
      <4>1. IsPrefix(<<>>, <<>> \o BodyOf(Reading))
        BY <3>1, PrefixOf, Zenon
      <4>2. <<>> \o BodyOf(Reading) = BodyOf(Reading)
        BY <3>1, Together
      <4> QED BY <4>1, <4>2
    <3>3. ASSUME EndsAtOnce(parser) PROVE BodyOf(Reading) = <<>>
      <4>1. /\ parser.method = "CONNECT" => Switches(Reading)
            /\ Chunked(parser) <=> Reading.chunks # <<>>
            /\ ~Chunked(parser) => parser.contentLength = Len(Reading.body)
        BY HeadTells
      <4>2. ~HasBody(parser)
        BY <1>2, <2>2, <3>3, <4>1 DEF EndsAtOnce
      <4>3. Reading.chunks = <<>> /\ ~(Len(Reading.body) > 0)
        BY <4>1, <4>2 DEF HasBody
      <4>4. Reading.body = <<>>
        BY <3>1, <4>3, EmptySeq DEF Text
      <4> QED BY <4>3, <4>4 DEF BodyOf
    <3> QED BY <1>1, <1>2, <3>2, <3>3
  <2> QED BY <1>1, <2>1, <2>2 DEF Same
<1>5. \A i \in 1..k : i \in 1..Current \/ i = k
  BY <1>2
<1> QED BY <1>1, <1>3, <1>4, <1>5 DEF Sent

\* A garbled byte is not in a head that was read.
LEMMA HeadUnharmed ==
  ASSUME Parsing, HeadEnds, ~Trailing, CompleteHead, Unharmed
  PROVE  Unharmed'
<1> PICK k : k = Current + 1
  OBVIOUS
<1>1. /\ Current' = k /\ script' = script /\ garbled' = garbled /\ headEnd' = headEnd
  BY HeadReceived
<1>2. /\ pos < chunkEnd /\ pos + 1 # garbled /\ parser.errno = "OK" /\ Inv /\ Fixed
      /\ pos \in Nat /\ garbled \in Nat
  <2>1. pos < chunkEnd /\ parser.errno = "OK" /\ Inv /\ Fixed
    BY AtLastLine
  <2>2. pos \in Nat /\ garbled \in Nat
    BY <2>1, StreamFacts
  <2> QED BY <2>1, <2>2 DEF Parsing
<1>3. /\ Current \in Nat /\ k \in 1..Len(script) /\ Len(script) \in Nat /\ script \in Scripts
      /\ headEnd[k] = pos + 1
  BY HeadKnown, HeadEndsHere
<1>4. garbled = 0 \/ pos + 1 < garbled
  <2>1. garbled = 0 \/ pos < garbled
    BY <1>2 DEF Unharmed
  <2> QED BY <1>2, <2>1
<1>5. garbled = 0 \/ pos' = pos + 1
  <2> SUFFICES ASSUME garbled # 0 PROVE ~Upgrades(parser)
    BY HeadLeft
  <2>1. script \in Garbled
    BY <1>2, StreamFacts
  <2>2. ~Switches(Reading)
    BY <1>3, <2>1, ScriptType DEF Reading
  <2> QED BY <2>2, HeadTells
<1>6. ASSUME garbled # 0, NEW i \in 1..k PROVE i <= Len(script) /\ headEnd[i] < garbled
  <2>1. CASE i \in 1..Current
    BY <1>6, <2>1 DEF Unharmed
  <2>2. CASE i = k
    BY <1>2, <1>3, <1>4, <1>6, <2>2
  <2> QED BY <1>3, <2>1, <2>2
<1>7. parser'.state \notin {"value_start", "value"}
  BY HeadLeft, NewMessageFacts
<1> QED BY <1>1, <1>4, <1>5, <1>6, <1>7 DEF Unharmed

\* The message whose head ends is handled then, and not behind one that closes.
LEMMA HeadPunctual ==
  ASSUME Parsing, HeadEnds, ~Trailing, CompleteHead, Punctual, ~Lost
  PROVE  Punctual'
<1> PICK k : k = Current + 1
  OBVIOUS
<1>1. /\ Current' = k /\ script' = script /\ garbled' = garbled /\ headEnd' = headEnd
      /\ \A i : PlainUpTo(i)' <=> PlainUpTo(i)
  BY HeadReceived
<1>2. /\ parser.state = "field_start" /\ parser.errno = "OK" /\ ~InMessage(parser)
      /\ Inv /\ Fixed /\ pos \in Nat
  <2>1. parser.state = "field_start" /\ parser.errno = "OK" /\ Inv /\ Fixed
    BY AtLastLine
  <2> QED BY <2>1, StreamFacts DEF InMessage, Trailing
<1>3. /\ Current \in Nat /\ k \in 1..Len(script) /\ Len(script) \in Nat
      /\ headEnd[k] = pos + 1 /\ Reading = script[k]
  BY HeadKnown, HeadEndsHere DEF Reading
<1>4. Orderly' <=> Orderly
  BY <1>1 DEF Orderly
<1>5. pos' >= pos + 1 /\ pos' \in Nat /\ parser'.errno = "OK"
  BY HeadLeft
<1>6. ASSUME PlainUpTo(Len(script))
      PROVE  /\ Lost' => k >= Len(script)
             /\ \A i \in 1..Len(script) : i <= k => headEnd[i] <= pos'
  <2>1. ASSUME Lost' PROVE k >= Len(script)
    <3>1. PICK i \in 1..k : Switches(script[i])
      BY <1>1, <2>1 DEF Lost
    <3>2. i = k
      BY <1>3, <3>1 DEF Lost
    <3>3. k \notin 1..(Len(script) - 1)
      BY <1>6, <3>1, <3>2 DEF PlainUpTo
    <3> QED BY <1>3, <3>3
  <2>2. ASSUME NEW i \in 1..Len(script), i <= k PROVE headEnd[i] <= pos'
    <3>1. CASE i = k
      BY <1>3, <1>5, <3>1
    <3>2. CASE i # k
      <4>1. i <= Current
        BY <1>3, <2>2, <3>2
      <4>2. headEnd[i] <= pos
        BY <1>6, <4>1 DEF Punctual
      <4>3. headEnd[i] \in Nat
        <5>1. script \in Scripts /\ DOMAIN script = 1..Len(script)
          BY <1>2, StreamFacts, ScriptType
        <5>2. headEnd[i] = HeadEnd(script, i)
          BY <1>2, <5>1 DEF Fixed
        <5> QED BY <5>1, <5>2, HeadEndIs
      <4> QED BY <1>2, <1>5, <4>2, <4>3
    <3> QED BY <3>1, <3>2
  <2> QED BY <2>1, <2>2
<1>7. ASSUME Orderly, NEW j \in 1..(Len(script) - 1), j < k PROVE ~Closes(script[j])
  <2>1. j <= Current
    BY <1>3, <1>7
  <2> QED BY <1>2, <1>7, <2>1 DEF Punctual
<1>8. /\ KeepAlive(parser) <=> ~Closes(script[k])
      /\ EndsAtOnce(parser) => parser'.state = NewMessage(parser)
      /\ ~EndsAtOnce(parser) => parser'.state \in {"chunk_size_start", "body_identity"}
  BY <1>3, HeadTells, HeadLeft
<1>9. parser'.state = "dead" => Closes(script[k])
  BY <1>8, NewMessageFacts
<1>10. ~InMessage(parser') /\ parser'.state # "dead" => ~Closes(script[k])
  BY <1>8, NewMessageFacts DEF InMessage
<1>11. ASSUME Orderly
       PROVE  /\ parser'.errno # "OK" \/ parser'.state = "dead" => Stopped'
              /\ parser'.errno = "OK" /\ ~InMessage(parser') /\ parser'.state # "dead" =>
                   \A j \in 1..(Len(script) - 1) : j <= k => ~Closes(script[j])
  <2>1. parser'.state = "dead" => Stopped'
    <3>1. k >= 1
      BY <1>3
    <3> QED BY <1>1, <1>9, <3>1 DEF Stopped
  <2>2. ASSUME ~InMessage(parser'), parser'.state # "dead", NEW j \in 1..(Len(script) - 1), j <= k
        PROVE  ~Closes(script[j])
    <3>1. j = k \/ j < k
      BY <1>3, <2>2
    <3> QED BY <1>7, <1>10, <1>11, <2>2, <3>1
  <2> QED BY <1>5, <2>1, <2>2
<1>12. PlainUpTo(Len(script))' <=> PlainUpTo(Len(script))
  BY <1>1 DEF PlainUpTo
<1>13. (PlainUpTo(Len(script)) =>
          /\ Lost => Current >= Len(script)
          /\ \A i \in 1..Len(script) : i <= Current => headEnd[i] <= pos)'
  BY <1>1, <1>6, <1>12
<1>14. (Orderly =>
          /\ \A j \in 1..(Len(script) - 1) : j < Current => ~Closes(script[j])
          /\ parser.errno # "OK" \/ parser.state = "dead" => Stopped
          /\ parser.errno = "OK" /\ ~InMessage(parser) /\ parser.state # "dead" =>
               \A j \in 1..(Len(script) - 1) : j <= Current => ~Closes(script[j]))'
  BY <1>1, <1>4, <1>7, <1>11
<1> QED BY <1>13, <1>14, Zenon DEF Punctual

-----------------------------------------------------------------------------
(* What a step of the parser leaves *)

\* The invariant behind a step, but for what never changes.
Holds ==
  /\ Marked
  /\ parser.errno = "OK" /\ ~Lost => Place
  /\ Sent
  /\ Unharmed
  /\ Punctual

\* After an error nothing changes any more.
LEMMA FailHolds ==
  ASSUME Inv, ClientInv, Rest, UNCHANGED scriptVars, NEW e \in Errors, e # "OK", Fail(e),
         ~Orderly \/ Stopped
  PROVE  Holds'
<1>1. /\ parser' = [parser EXCEPT !.errno = e] /\ mark' = NoMark /\ pos' = chunkEnd
      /\ received' = received /\ script' = script /\ garbled' = garbled /\ headEnd' = headEnd
  BY DEF Fail, scriptVars
<1>2. parser'.errno = e /\ parser'.state = parser.state /\ parser'.flags = parser.flags
  BY <1>1 DEF Inv, TypeOK, Parser
<1>3. Current' = Current
  BY <1>1 DEF Current
<1>4. Marked'
  BY <1>1, <1>2, NoMarkType DEF Marked
<1>5. Sent'
  BY <1>1, <1>3 DEF ClientInv, Sent, Same, PlainUpTo
<1>6. Unharmed'
  BY <1>1, <1>2, <1>3 DEF ClientInv, Unharmed
<1>7. Lost' <=> Lost
  BY <1>1, <1>3 DEF Lost
<1>8. /\ Orderly' <=> Orderly
      /\ Stopped' <=> Stopped
      /\ PlainUpTo(Len(script))' <=> PlainUpTo(Len(script))
  BY <1>1, <1>3 DEF Orderly, Stopped, PlainUpTo
<1>9. ASSUME PlainUpTo(Len(script)), NEW i \in 1..Len(script), i <= Current
      PROVE  headEnd[i] <= pos'
  <2>1. headEnd[i] <= pos /\ pos <= chunkEnd /\ pos \in Nat /\ chunkEnd \in Nat
    BY <1>9, StreamFacts DEF ClientInv, Punctual
  <2>2. headEnd[i] \in Nat
    <3>1. script \in Scripts /\ DOMAIN script = 1..Len(script)
      BY StreamFacts, ScriptType DEF ClientInv
    <3>2. headEnd[i] = HeadEnd(script, i)
      BY <3>1 DEF ClientInv, Fixed
    <3> QED BY <3>1, <3>2, HeadEndIs
  <2> QED BY <1>1, <2>1, <2>2
<1>10. Punctual'
  BY <1>1, <1>2, <1>3, <1>7, <1>8, <1>9 DEF ClientInv, Punctual
<1> QED BY <1>2, <1>4, <1>5, <1>6, <1>10 DEF Holds

\* Only the body of the message in progress changes, and whether it is at its end.
LEMMA BodyGrows ==
  ASSUME Inv, InMessage(parser), NEW bytes \in Text
  PROVE  /\ Current \in 1..Len(received)
         /\ Len(OnBody(bytes)) = Len(received) /\ Len(OnEnd(bytes)) = Len(received)
         /\ \A i \in 1..Len(received) : i # Current =>
              OnBody(bytes)[i] = received[i] /\ OnEnd(bytes)[i] = received[i]
         /\ \A s \in {OnBody(bytes), OnEnd(bytes)} :
              /\ s[Current].method = received[Current].method
              /\ s[Current].url = received[Current].url
              /\ s[Current].headers = received[Current].headers
              /\ s[Current].body = received[Current].body \o bytes
         /\ OnBody(bytes)[Current].ended = received[Current].ended
         /\ OnEnd(bytes)[Current].ended
<1>1. /\ Current \in 1..Len(received) /\ Len(OnBody(bytes)) = Len(received)
      /\ Len(OnEnd(bytes)) = Len(received)
      /\ OnBody(bytes)[Current].ended = received[Current].ended
      /\ OnEnd(bytes)[Current].ended = (received[Current].ended \/ Current = Current)
  BY BodyFacts
<1>2. received \in Seq(Message) /\ received[Current] \in Message
  BY <1>1 DEF Inv, TypeOK
<1> PICK c \in 1..Len(received) : c = Current
  BY <1>1
<1> DEFINE r == received[c]
           b == r.body \o bytes
           r1 == [r EXCEPT !.body = b]
           r2 == [r1 EXCEPT !.ended = TRUE]
<1>3. OnBody(bytes) = [received EXCEPT ![c] = r1]
  BY <1>1, <1>2 DEF OnBody
<1>4. OnEnd(bytes) = [received EXCEPT ![c] = r2]
  BY <1>1, <1>2 DEF OnEnd, Message
<1> HIDE DEF b
<1>5. r1.method = r.method /\ r1.url = r.url /\ r1.headers = r.headers /\ r1.body = b
  BY <1>2 DEF Message
<1>6. r2.method = r.method /\ r2.url = r.url /\ r2.headers = r.headers /\ r2.body = b
  BY <1>2 DEF Message
<1> HIDE DEF r1, r2
<1>7. /\ [received EXCEPT ![c] = r1][c] = r1 /\ [received EXCEPT ![c] = r2][c] = r2
      /\ \A i \in 1..Len(received) : i # c =>
           [received EXCEPT ![c] = r1][i] = received[i] /\ [received EXCEPT ![c] = r2][i] = received[i]
  BY <1>2
<1>8. /\ \A i \in 1..Len(received) : i # c =>
           OnBody(bytes)[i] = received[i] /\ OnEnd(bytes)[i] = received[i]
      /\ OnBody(bytes)[c] = r1 /\ OnEnd(bytes)[c] = r2
  BY <1>3, <1>4, <1>7
<1>9. \A s \in {OnBody(bytes), OnEnd(bytes)} :
              /\ s[Current].method = received[Current].method
              /\ s[Current].url = received[Current].url
              /\ s[Current].headers = received[Current].headers
              /\ s[Current].body = received[Current].body \o bytes
  BY <1>5, <1>6, <1>8 DEF r, b
<1> QED BY <1>1, <1>8, <1>9

\* What a step keeps of the messages.
Kept ==
  /\ Current' \in Nat /\ Current' >= Current
  /\ \A i \in 1..(Current - 1) : received'[i] = received[i]
  /\ \A i \in 1..Current :
       /\ received'[i].method = received[i].method /\ received'[i].url = received[i].url
       /\ received'[i].headers = received[i].headers

\* Messages that do not change are kept.
LEMMA SameKept ==
  ASSUME Inv, received' = received
  PROVE  Kept
<1>1. Current \in Nat /\ Current' = Current
  BY DEF Inv, TypeOK, Current
<1> QED BY <1>1 DEF Kept

\* A message whose body grows is kept.
LEMMA BodyKept ==
  ASSUME Inv, InMessage(parser), NEW bytes \in Text, received' \in {OnBody(bytes), OnEnd(bytes)}
  PROVE  Kept /\ Current' = Current
<1>1. /\ Current \in 1..Len(received) /\ Len(received') = Len(received)
      /\ \A i \in 1..Len(received) : i # Current => received'[i] = received[i]
      /\ received'[Current].method = received[Current].method
      /\ received'[Current].url = received[Current].url
      /\ received'[Current].headers = received[Current].headers
  BY BodyGrows
<1>2. Current' = Current /\ Current \in Nat /\ Current = Len(received)
  BY <1>1 DEF Current
<1>3. \A i \in 1..Current : i = Current \/ i # Current
  OBVIOUS
<1>4. \A i \in 1..(Current - 1) : i # Current /\ i \in 1..Len(received)
  BY <1>2
<1> QED BY <1>1, <1>2, <1>3, <1>4 DEF Kept

\* A step within a message that leaves the messages alone, and marks the part
\* that the symbol it reads belongs to.
Quiet ==
  /\ Marked' /\ received' = received /\ pos' \in Nat /\ pos' >= pos
  /\ parser'.errno = "OK" =>
       /\ pos' = pos + 1
       /\ InMessage(parser') <=> InMessage(parser)
       /\ parser'.state = "dead" <=> parser.state = "dead"

\* An error handles nothing.
LEMMA FailQuiet ==
  ASSUME Inv, Rest, NEW e \in Errors, e # "OK", Fail(e)
  PROVE  Quiet
<1>1. pos \in Nat /\ chunkEnd \in Nat /\ pos <= chunkEnd /\ parser \in Parser
  BY DEF Inv, TypeOK
<1>2. parser'.errno # "OK"
  BY <1>1 DEF Fail, Parser
<1> QED BY <1>1, <1>2, NoMarkType DEF Fail, Marked, Quiet

\* A symbol that is only read handles nothing.
LEMMA ReadQuiet ==
  ASSUME Inv, Rest, NEW p, NEW m, Read(p, m), p.errno = "OK",
         \/ m = NoMark /\ p.state \notin {"url", "field", "value"}
         \/ m.part \in {"url", "field", "value"} /\ p.state = m.part
         \/ m.part = "body" /\ p.state \notin {"url", "field", "value"},
         InMessage(p) <=> InMessage(parser), p.state = "dead" <=> parser.state = "dead"
  PROVE  Quiet
<1>1. pos \in Nat
  BY DEF Inv, TypeOK
<1>2. parser' = p /\ mark' = m /\ pos' = pos + 1 /\ received' = received
  BY DEF Read
<1>3. Marked'
  BY <1>2, NoMarkType DEF Marked
<1> QED BY <1>1, <1>2, <1>3 DEF Quiet

\* The states within a message are those in which it is open.
LEMMA StaysIn ==
  ASSUME NEW p, NEW q, p.state # "dead", q.state # "dead",
         \/ /\ p.state \in {"start_req", "url_start", "url"} \cup FieldStates
            /\ q.state \in {"start_req", "url_start", "url"} \cup FieldStates
            /\ "TRAILING" \in p.flags /\ p.state \in FieldStates
                 <=> "TRAILING" \in q.flags /\ q.state \in FieldStates
         \/ InMessage(p) /\ InMessage(q)
  PROVE  (InMessage(p) <=> InMessage(q)) /\ (p.state = "dead" <=> q.state = "dead")
BY DEF InMessage, FieldStates

\* The first line of a request.
LEMMA FirstLineQuiet ==
  ASSUME Inv, Rest, ReadMethod \/ ReadUrl
  PROVE  Quiet
<1>1. parser \in Parser /\ ParserInv(parser, mark)
  BY DEF Inv, TypeOK
<1>2. CASE ReadMethod
  <2>1. parser.errno = "OK" /\ parser.state = "start_req"
    BY <1>2 DEF ReadMethod, In
  <2> PICK p : p = Begin(parser)
    OBVIOUS
  <2>2. p.errno = "OK" /\ p.state = "url_start"
    BY <1>1, <2>1 DEF Begin, Parser
  <2>3. (InMessage(p) <=> InMessage(parser)) /\ (p.state = "dead" <=> parser.state = "dead")
    BY <2>1, <2>2, StaysIn DEF FieldStates
  <2>4. Read(p, NoMark) => Quiet
    BY <2>2, <2>3, ReadQuiet
  <2>5. Read(parser, NoMark) => Quiet
    BY <2>1, ReadQuiet
  <2> QED BY <1>2, <2>4, <2>5, FailQuiet DEF ReadMethod, Errors
<1>3. CASE ReadUrl
  <2>1. parser.errno = "OK" /\ parser.state \in {"url_start", "url"} /\ "TRAILING" \notin parser.flags
    BY <1>1, <1>3 DEF ReadUrl, In, ParserInv
  <2>2. Extend("url").part = "url"
    BY DEF Extend
  <2>3. ASSUME NEW v, Read([parser EXCEPT !.state = "field_start", !.version = v], NoMark)
        PROVE  Quiet
    <3> PICK p : p = [parser EXCEPT !.state = "field_start", !.version = v]
      OBVIOUS
    <3>1. p.errno = "OK" /\ p.state = "field_start" /\ p.flags = parser.flags
      BY <1>1, <2>1 DEF Parser
    <3>2. (InMessage(p) <=> InMessage(parser)) /\ (p.state = "dead" <=> parser.state = "dead")
      BY <2>1, <3>1, StaysIn DEF FieldStates
    <3> QED BY <2>3, <3>1, <3>2, ReadQuiet
  <2>4. ASSUME Read([parser EXCEPT !.state = "url"], Extend("url"))
        PROVE  Quiet
    <3> PICK p : p = [parser EXCEPT !.state = "url"]
      OBVIOUS
    <3>1. p.errno = "OK" /\ p.state = "url" /\ p.flags = parser.flags
      BY <1>1, <2>1 DEF Parser
    <3>2. (InMessage(p) <=> InMessage(parser)) /\ (p.state = "dead" <=> parser.state = "dead")
      BY <2>1, <3>1, StaysIn DEF FieldStates
    <3> QED BY <2>2, <2>4, <3>1, <3>2, ReadQuiet
  <2> QED BY <1>3, <2>3, <2>4, FailQuiet DEF ReadUrl, Errors
<1> QED BY <1>2, <1>3

\* Headers and trailers: one state of the fields after the other.
LEMMA FieldQuiet ==
  ASSUME Inv, Rest, parser.state \in FieldStates, parser.errno = "OK",
         NEW p, NEW m, Read(p, m), p.errno = "OK", p.state \in FieldStates,
         "TRAILING" \in p.flags <=> "TRAILING" \in parser.flags,
         \/ m = NoMark /\ p.state \in {"field_start", "value_start"}
         \/ m.part \in {"field", "value"} /\ p.state = m.part
  PROVE  Quiet
<1>1. (InMessage(p) <=> InMessage(parser)) /\ (p.state = "dead" <=> parser.state = "dead")
  BY StaysIn DEF FieldStates
<1> QED BY <1>1, ReadQuiet DEF FieldStates

\* Headers handle nothing.
LEMMA FieldsQuiet ==
  ASSUME Inv, Rest,
         \/ ReadFieldStart \/ ReadField \/ ReadEmptyValue \/ ReadValueStart
         \/ ReadContentLength \/ ReadLengthDigit \/ ReadValue \/ ReadValueEnd
  PROVE  Quiet
<1>1. parser \in Parser /\ parser.errno = "OK" /\ parser.state \in FieldStates
  BY DEF Inv, TypeOK, ReadFieldStart, ReadField, ReadEmptyValue, ReadValueStart, ReadContentLength,
         ReadLengthDigit, ReadValue, ReadValueEnd, In, FieldStates
<1>2. Extend("field").part = "field" /\ Extend("value").part = "value"
  BY DEF Extend
<1>3. CASE ReadFieldStart \/ ReadField
  <2>1. ASSUME NEW p, NEW s, p = [parser EXCEPT !.state = "field", !.headerState = s]
        PROVE  p.errno = "OK" /\ p.state = "field" /\ p.flags = parser.flags
    BY <1>1, <2>1 DEF Parser
  <2>2. ASSUME NEW p, p = [parser EXCEPT !.state = "value_start"]
        PROVE  p.errno = "OK" /\ p.state = "value_start" /\ p.flags = parser.flags
    BY <1>1, <2>2 DEF Parser
  <2>3. ASSUME NEW p, NEW s, p = [parser EXCEPT !.headerState = s]
        PROVE  p.errno = "OK" /\ p.state = parser.state /\ p.flags = parser.flags
    BY <1>1, <2>3 DEF Parser
  <2>4. CASE ReadFieldStart
    <3>1. CASE Read([parser EXCEPT !.state = "field",
                       !.headerState = IF Symbol \in Names THEN Symbol ELSE "general"],
                    Extend("field"))
      <4> PICK p : p = [parser EXCEPT !.state = "field",
                          !.headerState = IF Symbol \in Names THEN Symbol ELSE "general"]
        OBVIOUS
      <4>1. p.errno = "OK" /\ p.state = "field" /\ p.flags = parser.flags
        BY <2>1
      <4> QED BY <1>1, <1>2, <3>1, <4>1, FieldQuiet DEF FieldStates
    <3> QED BY <2>4, <3>1, FailQuiet DEF ReadFieldStart, Errors
  <2>5. CASE ReadField
    <3>0. parser.state = "field"
      BY <2>5 DEF ReadField, In
    <3>1. CASE Read([parser EXCEPT !.state = "value_start"], NoMark)
      <4> PICK p : p = [parser EXCEPT !.state = "value_start"]
        OBVIOUS
      <4>1. p.errno = "OK" /\ p.state = "value_start" /\ p.flags = parser.flags
        BY <2>2
      <4> QED BY <1>1, <3>1, <4>1, FieldQuiet DEF FieldStates
    <3>2. CASE Read([parser EXCEPT !.headerState = "general"], Extend("field"))
      <4> PICK p : p = [parser EXCEPT !.headerState = "general"]
        OBVIOUS
      <4>1. p.errno = "OK" /\ p.state = "field" /\ p.flags = parser.flags
        BY <2>3, <3>0
      <4> QED BY <1>1, <1>2, <3>2, <4>1, FieldQuiet DEF FieldStates
    <3> QED BY <2>5, <3>1, <3>2, FailQuiet DEF ReadField, Errors
  <2> QED BY <1>3, <2>4, <2>5
<1>4. CASE ReadEmptyValue
  <2> PICK p : p = [parser EXCEPT !.state = "field_start"]
    OBVIOUS
  <2>1. p.errno = "OK" /\ p.state = "field_start" /\ p.flags = parser.flags
    BY <1>1 DEF Parser
  <2> QED BY <1>1, <1>4, <2>1, FieldQuiet DEF ReadEmptyValue, FieldStates
<1>5. CASE ReadValueStart
  <2> DEFINE new == IF parser.headerState = "upgrade" THEN {"UPGRADE"} ELSE {}
  <2> PICK p : p = [parser EXCEPT !.state = "value", !.flags = @ \cup new,
                                  !.headerState = ElementState(@)]
    OBVIOUS
  <2>1. Read(p, Extend("value"))
    BY <1>5 DEF ReadValueStart
  <2>2. "TRAILING" \notin new
    OBVIOUS
  <2> HIDE DEF new
  <2>3. p.errno = "OK" /\ p.state = "value" /\ p.flags = parser.flags \cup new
    BY <1>1 DEF Parser
  <2> QED BY <1>1, <1>2, <2>1, <2>2, <2>3, FieldQuiet DEF FieldStates
<1>6. CASE ReadContentLength
  <2> PICK p : p = [parser EXCEPT !.state = "value", !.flags = @ \cup {"CONTENTLENGTH"},
                                  !.contentLength = Value[Symbol]]
    OBVIOUS
  <2>1. /\ p.errno = "OK" /\ p.state = "value"
        /\ "TRAILING" \in p.flags <=> "TRAILING" \in parser.flags
    BY <1>1 DEF Parser
  <2>2. Read(p, Extend("value")) => Quiet
    BY <1>1, <1>2, <2>1, FieldQuiet DEF FieldStates
  <2> QED BY <1>6, <2>2, FailQuiet DEF ReadContentLength, Errors
<1>7. CASE ReadLengthDigit
  <2> PICK p : p = [parser EXCEPT !.contentLength = 10 * @ + Value[Symbol]]
    OBVIOUS
  <2>1. p.errno = "OK" /\ p.state = "value" /\ p.flags = parser.flags
    BY <1>1, <1>7 DEF Parser, ReadLengthDigit, In
  <2>2. Read(p, Extend("value")) => Quiet
    BY <1>1, <1>2, <2>1, FieldQuiet DEF FieldStates
  <2> QED BY <1>7, <2>2, FailQuiet DEF ReadLengthDigit, Errors
<1>8. CASE ReadValue
  <2> PICK p : p = [parser EXCEPT !.flags = @ \cup ElementFlag(parser.headerState),
                                  !.headerState = ValueState(@)]
    OBVIOUS
  <2>1. p.errno = "OK" /\ p.state = "value"
        /\ p.flags = parser.flags \cup ElementFlag(parser.headerState)
    BY <1>1, <1>8 DEF Parser, ReadValue, In
  <2>2. "TRAILING" \notin ElementFlag(parser.headerState)
    BY HeaderFlagIs DEF ElementFlag
  <2>3. Read(p, Extend("value")) => Quiet
    BY <1>1, <1>2, <2>1, <2>2, FieldQuiet DEF FieldStates
  <2> QED BY <1>8, <2>3, FailQuiet DEF ReadValue, Errors
<1>9. CASE ReadValueEnd
  <2> PICK p : p = [parser EXCEPT !.state = "field_start",
                                  !.flags = @ \cup HeaderFlag(parser.headerState)]
    OBVIOUS
  <2>1. p.errno = "OK" /\ p.state = "field_start"
        /\ p.flags = parser.flags \cup HeaderFlag(parser.headerState)
    BY <1>1 DEF Parser
  <2>2. "TRAILING" \notin HeaderFlag(parser.headerState)
    BY HeaderFlagIs
  <2> QED BY <1>1, <1>9, <2>1, <2>2, FieldQuiet DEF ReadValueEnd, FieldStates
<1> QED BY <1>3, <1>4, <1>5, <1>6, <1>7, <1>8, <1>9

-----------------------------------------------------------------------------
(* Bodies *)

\* What is ahead in a body of chunks.
LEMMA ChunksFacts ==
  ASSUME Inv, Fixed, NEW j, InChunks(j)
  PROVE  LET rest == Later(script, Current)
             n == Len(Open.chunks)
             lines == Lines(Open.trailer, 0, rest)
         IN /\ Proper(Open) /\ Sound(Open) /\ Current \in 1..Len(script) /\ Current \in Nat
            /\ rest \in Text /\ n \in Nat /\ Open.chunks \in Seq(Text)
            /\ \A i \in 0..n : ChunkLines(Open, i, rest) \in Text
            /\ lines \in Text /\ <<Eol>> \o lines \in Text
            /\ ChunkLines(Open, n, rest) = <<"0">> \o (<<Eol>> \o lines)
            /\ \A i \in 1..n :
                 /\ i \in 0..n /\ i - 1 \in 0..n /\ i - 1 # n /\ i - 1 \in Nat
                 /\ Open.chunks[i] \in Text /\ Len(Open.chunks[i]) \in 1..2
                 /\ <<Eol>> \o ChunkLines(Open, i, rest) \in Text
                 /\ Open.chunks[i] \o (<<Eol>> \o ChunkLines(Open, i, rest)) \in Text
                 /\ <<Eol>> \o (Open.chunks[i] \o (<<Eol>> \o ChunkLines(Open, i, rest))) \in Text
                 /\ ChunkLines(Open, i - 1, rest) =
                      <<LengthDigit(Len(Open.chunks[i]))>> \o (<<Eol>> \o
                        (Open.chunks[i] \o (<<Eol>> \o ChunkLines(Open, i, rest))))
<1> DEFINE rest == Later(script, Current)
           n == Len(Open.chunks)
           lines == Lines(Open.trailer, 0, rest)
<1>1. Current \in 1..Len(script) /\ Current \in Nat
  BY StreamFacts DEF InChunks, InBody, InOpen
<1>2. Proper(Open) /\ Sound(Open) /\ rest \in Text
  BY <1>1, OpenFacts
<1>3. Open.chunks \in Seq(Text) /\ n \in Nat /\ Open.trailer \in Seq(Field)
  BY <1>2, BodyType, ProperParts
<1>4. \A i \in 0..n : ChunkLines(Open, i, rest) \in Text
  BY <1>2, ChunksUnfold
<1>5. lines \in Text
  <2>1. 0 \in 0..Len(Open.trailer)
    BY <1>3
  <2> QED BY <1>2, <1>3, <2>1, LinesUnfold
<1>6. <<Eol>> \in Text
  BY Vocabulary
<1> HIDE DEF lines
<1>7. <<Eol>> \o lines \in Text
  BY <1>5, <1>6, Together
<1>8. ChunkLines(Open, n, rest) = <<"0">> \o (<<Eol>> \o lines)
  <2>1. n \in 0..n
    BY <1>3
  <2> QED BY <1>2, <2>1, ChunksUnfold DEF lines
<1>9. ASSUME NEW i \in 1..n
      PROVE  /\ i \in 0..n /\ i - 1 \in 0..n /\ i - 1 # n /\ i - 1 \in Nat
             /\ Open.chunks[i] \in Text /\ Len(Open.chunks[i]) \in 1..2
             /\ <<Eol>> \o ChunkLines(Open, i, rest) \in Text
             /\ Open.chunks[i] \o (<<Eol>> \o ChunkLines(Open, i, rest)) \in Text
             /\ <<Eol>> \o (Open.chunks[i] \o (<<Eol>> \o ChunkLines(Open, i, rest))) \in Text
             /\ ChunkLines(Open, i - 1, rest) =
                  <<LengthDigit(Len(Open.chunks[i]))>> \o (<<Eol>> \o
                    (Open.chunks[i] \o (<<Eol>> \o ChunkLines(Open, i, rest))))
  <2>1. i \in 0..n /\ i - 1 \in 0..n /\ i - 1 # n /\ i - 1 \in Nat /\ (i - 1) + 1 = i
    BY <1>3
  <2> PICK k \in 0..n : k = i - 1 /\ k + 1 = i
    BY <2>1
  <2>2. Open.chunks[i] \in Text /\ Len(Open.chunks[i]) \in 1..2
    BY <1>2, ChunkTextsType
  <2> DEFINE t == ChunkLines(Open, i, rest)
             d == Open.chunks[i]
  <2>3. t \in Text /\ d \in Text
    BY <1>4, <2>1, <2>2
  <2>4. ChunkLines(Open, k, rest) =
          <<LengthDigit(Len(Open.chunks[k + 1]))>> \o (<<Eol>> \o
            (Open.chunks[k + 1] \o (<<Eol>> \o ChunkLines(Open, k + 1, rest))))
    BY <1>2, <2>1, ChunksUnfold
  <2> HIDE DEF t, d
  <2>5. <<Eol>> \o t \in Text
    BY <1>6, <2>3, Together
  <2>6. d \o (<<Eol>> \o t) \in Text
    BY <2>3, <2>5, Together
  <2>7. <<Eol>> \o (d \o (<<Eol>> \o t)) \in Text
    BY <1>6, <2>6, Together
  <2> QED BY <2>1, <2>2, <2>4, <2>5, <2>6, <2>7 DEF t, d
<1> QED BY <1>1, <1>2, <1>3, <1>4, <1>5, <1>7, <1>8, <1>9 DEF lines

\* A step within the chunks stays within them.
LEMMA ChunksStay ==
  ASSUME Parsing, NEW j, InChunks(j), NEW p, NEW m, Read(p, m),
         p.flags = parser.flags, p.version = parser.version, p.upgrade = parser.upgrade,
         channel' = channel
  PROVE  /\ InChunks(j)' /\ BodyUpto(j)' = BodyUpto(j)
         /\ \A i : ChunkLines(Open, i, Later(script, Current))' =
                     ChunkLines(Open, i, Later(script, Current))
         /\ Lines(Open.trailer, 0, Later(script, Current))' =
              Lines(Open.trailer, 0, Later(script, Current))
<1>1. /\ parser' = p /\ script' = script /\ received' = received /\ Current' = Current
      /\ Open' = Open /\ HeadsFlags' = HeadsFlags
      /\ Later(script, Current)' = Later(script, Current)
      /\ \A i : PlainUpTo(i)' <=> PlainUpTo(i)
  BY Moved
<1>2. InBody'
  BY <1>1 DEF InChunks, InBody, InOpen
<1> QED BY <1>1, <1>2 DEF InChunks, BodyUpto

\* A chunk has the length its size says.
LEMMA ChunkSizeRead ==
  ASSUME Parsing, ReadChunkSize
  PROVE  Arrives
<1>1. /\ Inv /\ Fixed /\ pos < chunkEnd /\ pos + 1 # garbled /\ parser.errno = "OK"
      /\ parser.state \in {"chunk_size_start", "chunk_size"} /\ parser \in Parser
  BY ParsingFacts DEF ReadChunkSize
<1>2. parser.state # "chunk_size"
  <2> SUFFICES ASSUME parser.state = "chunk_size" PROVE FALSE
    OBVIOUS
  <2>1. PICK j \in Nat : AtChunkSize(j)
    BY DEF Parsing, Place
  <2>2. InChunks(j)
    BY <2>1 DEF AtChunkSize
  <2>3. \E rest \in Text : Ahead = <<Eol>> \o rest
    <3>1. CASE j = Len(Open.chunks)
      BY <1>1, <2>1, <2>2, <3>1, ChunksFacts DEF AtChunkSize
    <3>2. CASE j # Len(Open.chunks)
      <4>1. j + 1 \in 1..Len(Open.chunks)
        BY <1>1, <2>2, <3>2, ChunksFacts DEF InChunks
      <4> QED BY <1>1, <2>1, <2>2, <3>2, <4>1, ChunksFacts DEF AtChunkSize
    <3> QED BY <3>1, <3>2
  <2>4. Symbol = Eol
    BY <1>1, <2>3, Sees, Separators
  <2> QED BY <2>4, Separators DEF ReadChunkSize
<1>3. PICK j \in Nat : AtChunk(j)
  BY <1>1, <1>2 DEF Parsing, Place
<1>4. /\ InChunks(j) /\ mark = NoMark /\ j \in 0..Len(Open.chunks)
      /\ Ahead = ChunkLines(Open, j, Later(script, Current))
      /\ PlainUpTo(Current) => received[Current].body = BodyUpto(j)
  BY <1>3 DEF AtChunk, InChunks
<1> DEFINE rest == Later(script, Current)
           n == Len(Open.chunks)
<1>5. PICK d, t : /\ Ahead = <<d>> \o t /\ d \in Digits /\ d \in Symbols /\ t \in Text
                  /\ IF j = n
                       THEN /\ Value[d] = 0
                            /\ t = <<Eol>> \o Lines(Open.trailer, 0, rest)
                       ELSE /\ Value[d] = Len(Open.chunks[j + 1])
                            /\ t = <<Eol>> \o (Open.chunks[j + 1] \o
                                     (<<Eol>> \o ChunkLines(Open, j + 1, rest)))
  <2>1. CASE j = n
    <3>1. "0" \in Digits /\ Value["0"] = 0 /\ "0" \in Symbols
      BY Vocabulary DEF Digits, Value
    <3>2. Ahead = <<"0">> \o (<<Eol>> \o Lines(Open.trailer, 0, rest))
          /\ <<Eol>> \o Lines(Open.trailer, 0, rest) \in Text
      BY <1>1, <1>4, <2>1, ChunksFacts
    <3> QED BY <2>1, <3>1, <3>2
  <2>2. CASE j # n
    <3>1. n \in Nat
      BY <1>1, <1>4, ChunksFacts
    <3> PICK i \in 1..n : i = j + 1 /\ i - 1 = j
      BY <1>4, <2>2, <3>1
    <3>2. /\ Len(Open.chunks[i]) \in 1..2
          /\ <<Eol>> \o (Open.chunks[i] \o (<<Eol>> \o ChunkLines(Open, i, rest))) \in Text
          /\ ChunkLines(Open, i - 1, rest) =
                <<LengthDigit(Len(Open.chunks[i]))>> \o (<<Eol>> \o
                  (Open.chunks[i] \o (<<Eol>> \o ChunkLines(Open, i, rest))))
      BY <1>1, <1>4, ChunksFacts
    <3>3. PICK d : d = LengthDigit(Len(Open.chunks[i]))
      OBVIOUS
    <3>4. d \in Digits /\ Value[d] = Len(Open.chunks[i])
      <4>1. Len(Open.chunks[i]) \in 0..2
        BY <3>2
      <4> QED BY <3>3, <4>1, DigitOfLength
    <3>5. d \in Symbols
      BY <3>4, Vocabulary
    <3> QED BY <1>4, <2>2, <3>2, <3>3, <3>4, <3>5
  <2> QED BY <2>1, <2>2
<1>6. Symbol = d /\ From(Written, pos + 1) = t
  BY <1>1, <1>5, Sees
<1> DEFINE p == [parser EXCEPT !.state = "chunk_size", !.contentLength = 0 + Value[d]]
<1>7. Read(p, NoMark) /\ channel' = channel
  <2>1. parser.state = "chunk_size_start"
    BY <1>1, <1>2
  <2> QED BY <1>5, <1>6, <2>1 DEF ReadChunkSize
<1>8. /\ p.state = "chunk_size" /\ p.errno = "OK" /\ p.contentLength = Value[d]
      /\ p.flags = parser.flags /\ p.version = parser.version /\ p.upgrade = parser.upgrade
  <2>1. 0 + Value[d] = Value[d]
    <3>1. Value[d] \in 0..2
      BY <1>5, ValueType
    <3> QED BY <3>1
  <2> QED BY <1>1, <2>1 DEF Parser
<1> HIDE DEF p
<1>9. /\ InChunks(j)' /\ BodyUpto(j)' = BodyUpto(j)
      /\ \A i : ChunkLines(Open, i, Later(script, Current))' =
                     ChunkLines(Open, i, Later(script, Current))
      /\ Lines(Open.trailer, 0, Later(script, Current))' =
              Lines(Open.trailer, 0, Later(script, Current))
  BY <1>4, <1>7, <1>8, ChunksStay
<1>10. /\ parser' = p /\ mark' = NoMark /\ Current' = Current /\ received' = received /\ Open' = Open
       /\ Ahead' = From(Written, pos + 1)
       /\ \A k : PlainUpTo(k)' <=> PlainUpTo(k)
  BY <1>7, Moved
<1>11. Open.chunks' = Open.chunks
  BY <1>10
<1>12. (PlainUpTo(Current) => received[Current].body = BodyUpto(j))'
  BY <1>4, <1>9, <1>10
<1>13. (IF j = Len(Open.chunks)
         THEN /\ parser.contentLength = 0
              /\ Ahead = <<Eol>> \o Lines(Open.trailer, 0, Later(script, Current))
         ELSE /\ parser.contentLength = Len(Open.chunks[j + 1])
              /\ Ahead = <<Eol>> \o (Open.chunks[j + 1] \o
                           (<<Eol>> \o ChunkLines(Open, j + 1, Later(script, Current)))))'
  <2>1. CASE j = n
    BY <1>5, <1>6, <1>8, <1>9, <1>10, <2>1
  <2>2. CASE j # n
    <3>1. ChunkLines(Open, j + 1, Later(script, Current))' = ChunkLines(Open, j + 1, rest)
      BY <1>9
    <3> QED BY <1>5, <1>6, <1>8, <1>10, <2>2, <3>1
  <2> QED BY <2>1, <2>2
<1>14. AtChunkSize(j)'
  BY <1>9, <1>10, <1>12, <1>13, Zenon DEF AtChunkSize
<1> QED BY <1>8, <1>10, <1>14 DEF Arrives, Place

\* The chunks up to one, and the part of the next that was read.
LEMMA BodyUptoIs ==
  ASSUME NEW m, m.chunks \in Seq(Text)
  PROVE  /\ FlattenSeq(Upto(m.chunks, Len(m.chunks))) = FlattenSeq(m.chunks)
         /\ \A j \in 0..Len(m.chunks) :
              /\ FlattenSeq(Upto(m.chunks, j)) \in Text
              /\ j > 0 => FlattenSeq(Upto(m.chunks, j)) =
                            FlattenSeq(Upto(m.chunks, j - 1)) \o m.chunks[j]
<1>1. Upto(m.chunks, Len(m.chunks)) = m.chunks
  BY Extremes
<1> QED BY <1>1, FlattenPrefix

\* Behind its size a chunk begins, or the trailer.
LEMMA ChunkHeaderRead ==
  ASSUME Parsing, ReadChunkHeader
  PROVE  Arrives
<1>1. /\ Inv /\ Fixed /\ pos < chunkEnd /\ pos + 1 # garbled /\ parser.errno = "OK"
      /\ parser.state = "chunk_size" /\ parser \in Parser /\ Symbol = Eol /\ channel' = channel
  BY ParsingFacts DEF ReadChunkHeader
<1>2. PICK j \in Nat : AtChunkSize(j)
  BY <1>1 DEF Parsing, Place
<1> DEFINE rest == Later(script, Current)
           n == Len(Open.chunks)
<1>3. /\ InChunks(j) /\ InBody /\ Open.chunks # <<>> /\ mark = NoMark /\ j \in 0..n
      /\ PlainUpTo(Current) => received[Current].body = BodyUpto(j)
  BY <1>2 DEF AtChunkSize, InChunks
<1>4. Sound(Open) /\ Open.chunks \in Seq(Text) /\ n \in Nat /\ Current \in 1..Len(script)
  BY <1>1, <1>3, ChunksFacts
<1>5. CASE j = n
  <2>1. /\ parser.contentLength = 0
        /\ Ahead = <<Eol>> \o Lines(Open.trailer, 0, rest)
    BY <1>2, <1>5 DEF AtChunkSize
  <2>2. Lines(Open.trailer, 0, rest) \in Text
    BY <1>1, <1>3, ChunksFacts
  <2>3. From(Written, pos + 1) = Lines(Open.trailer, 0, rest)
    BY <1>1, <2>1, <2>2, Sees, Separators
  <2> DEFINE p == [parser EXCEPT !.state = "field_start", !.flags = @ \cup {"TRAILING"}]
  <2>4. Read(p, NoMark)
    BY <2>1 DEF ReadChunkHeader
  <2>5. /\ p.state = "field_start" /\ p.errno = "OK" /\ p.flags = parser.flags \cup {"TRAILING"}
        /\ p.version = parser.version /\ p.upgrade = parser.upgrade
    BY <1>1 DEF Parser
  <2> HIDE DEF p
  <2>6. /\ parser' = p /\ mark' = NoMark /\ Current' = Current /\ received' = received
        /\ Open' = Open /\ script' = script
        /\ Ahead' = From(Written, pos + 1) /\ HeadsFlags' = HeadsFlags
        /\ Later(script, Current)' = rest
        /\ \A k : PlainUpTo(k)' <=> PlainUpTo(k)
    BY <2>4, Moved
  <2>7. Trailing' /\ Fields' = Open.trailer /\ Behind' = rest
    BY <2>5, <2>6 DEF Trailing, Fields, Behind
  <2>8. InTrailer'
    <3>1. InOpen'
      BY <1>3, <2>5, <2>6 DEF InBody, InOpen
    <3>2. BodyUpto(n) = BodyOf(Open)
      BY <1>3, <1>4, BodyUptoIs DEF BodyUpto, BodyOf
    <3>3. (PlainUpTo(Current) => received[Current].body = BodyOf(Open))'
      BY <1>3, <1>5, <2>6, <3>2
    <3>4. parser'.flags = HeadsFlags' \cup {"TRAILING"}
      BY <1>3, <2>5, <2>6 DEF InBody
    <3>5. (PlainUpTo(Current) => channel = Idle)'
      BY <1>1, <1>3, <2>6 DEF InBody
    <3> QED BY <1>3, <2>6, <3>1, <3>3, <3>4, <3>5 DEF InTrailer
  <2>9. AtLine(0)'
    <3>1. 0 \in 0..Len(Open.trailer)
      <4>1. Open.trailer \in Seq(Field)
        BY <1>4 DEF Sound, Request
      <4> QED BY <4>1
    <3>2. Ahead' = Lines(Fields, 0, Behind)'
      BY <2>3, <2>6, <2>7
    <3> QED BY <2>6, <2>7, <2>8, <3>1, <3>2 DEF AtLine, InSection
  <2> QED BY <2>5, <2>6, <2>9 DEF Arrives, Place
<1>6. CASE j # n
  <2>1. PICK i \in 1..n : i = j + 1 /\ i - 1 = j
    BY <1>3, <1>4, <1>6
  <2> PICK d : d = Open.chunks[i]
    OBVIOUS
  <2> DEFINE t == <<Eol>> \o ChunkLines(Open, i, rest)
  <2>2. /\ parser.contentLength = Len(d)
        /\ Ahead = <<Eol>> \o (d \o t)
    BY <1>2, <1>6, <2>1 DEF AtChunkSize
  <2>3. d \in Text /\ Len(d) \in 1..2 /\ t \in Text /\ d \o t \in Text
    BY <1>1, <1>3, ChunksFacts
  <2>4. From(Written, pos + 1) = d \o t
    BY <1>1, <2>2, <2>3, Sees, Separators
  <2> DEFINE p == [parser EXCEPT !.state = "chunk_data"]
  <2>5. Read(p, NoMark)
    <3>1. PICK k \in 1..2 : k = Len(d)
      BY <2>3
    <3>2. k # 0
      BY <3>1
    <3>3. parser.contentLength = k
      BY <2>2, <3>1
    <3> QED BY <3>2, <3>3 DEF ReadChunkHeader
  <2>6. /\ p.state = "chunk_data" /\ p.errno = "OK" /\ p.flags = parser.flags
        /\ p.version = parser.version /\ p.upgrade = parser.upgrade
        /\ p.contentLength = parser.contentLength
    BY <1>1 DEF Parser
  <2> HIDE DEF p
  <2>7. /\ InChunks(j)' /\ BodyUpto(j)' = BodyUpto(j)
        /\ ChunkLines(Open, i, Later(script, Current))' = ChunkLines(Open, i, rest)
    BY <1>1, <1>3, <2>5, <2>6, ChunksStay
  <2>8. /\ parser' = p /\ mark' = NoMark /\ Current' = Current /\ received' = received
        /\ Open' = Open /\ Ahead' = From(Written, pos + 1)
        /\ \A k : PlainUpTo(k)' <=> PlainUpTo(k)
    BY <2>5, Moved
  <2>9. From(d, 0) = d /\ Upto(d, 0) = <<>> /\ Len(d) - 0 = Len(d)
        /\ 0 \in 0..Len(d) /\ 0 # Len(d)
    <3>1. d \in Text
      BY <2>3
    <3>2. From(d, 0) = d /\ Upto(d, 0) = <<>>
      BY <3>1, Extremes DEF Text
    <3>3. PICK k \in 1..2 : k = Len(d)
      BY <2>3
    <3>4. k - 0 = k /\ 0 \in 0..k /\ 0 # k
      OBVIOUS
    <3> QED BY <3>2, <3>3, <3>4
  <2>10. InChunks(i)'
    BY <2>1, <2>7, <2>8 DEF InChunks
  <2>11. PlainUpTo(Current)' => BodyRead' = BodyUpto(i - 1)' \o Upto(d, 0)
    <3>1. BodyRead' = received[Current].body \o <<>>
      BY <2>8 DEF BodyRead, NoMark
    <3> QED BY <1>3, <2>1, <2>7, <2>8, <2>9, <3>1
  <2>12. Ahead' = From(d, 0) \o (<<Eol>> \o ChunkLines(Open, i, Later(script, Current))')
    BY <2>4, <2>7, <2>8, <2>9
  <2>13. AtChunkData(i, 0)'
    <3>1. /\ Open'.chunks[i] = d /\ i >= 1 /\ 0 \in 0..Len(d) /\ parser'.contentLength = Len(d) - 0
          /\ parser'.state = "chunk_data" <=> 0 # Len(d)
      BY <2>2, <2>6, <2>8, <2>9
    <3> QED BY <2>10, <2>11, <2>12, <3>1, Zenon DEF AtChunkData
  <2>14. i \in Nat
    OBVIOUS
  <2> QED BY <2>6, <2>8, <2>9, <2>13, <2>14 DEF Arrives, Place
<1> QED BY <1>5, <1>6

\* The body of a message grows by what was marked and the symbol read.
LEMMA BodyExtends ==
  ASSUME Inv, Fixed, pos < chunkEnd, Current >= 1
  PROVE  /\ received[Current].body \in Text /\ Extend("body").bytes \in Text
         /\ BodyRead \in Text /\ Extend("body").part = "body"
         /\ received[Current].body \o Extend("body").bytes = BodyRead \o <<Symbol>>
<1> DEFINE b == received[Current].body
           t == IF mark.part = "body" THEN mark.bytes ELSE <<>>
<1>1. received \in Seq(Message) /\ mark \in Mark /\ Current \in 1..Len(received)
  BY DEF Inv, TypeOK, Current
<1>2. received[Current] \in Message
  BY <1>1
<1>3. b \in Text /\ mark.bytes \in Text
  BY <1>1, <1>2 DEF Message, Mark
<1>4. t \in Text
  BY <1>3, FlattenNone
<1>5. <<Symbol>> \in Text
  BY SymbolType, Vocabulary DEF Inv
<1>6. Extend("body").part = "body" /\ Extend("body").bytes = t \o <<Symbol>>
  BY DEF Extend
<1>7. BodyRead = b \o t
  BY DEF BodyRead
<1> HIDE DEF b, t
<1>8. b \o (t \o <<Symbol>>) = (b \o t) \o <<Symbol>> /\ t \o <<Symbol>> \in Text /\ b \o t \in Text
  BY <1>3, <1>4, <1>5, Regroup, Together
<1> QED BY <1>3, <1>6, <1>7, <1>8 DEF b

\* The data of a chunk is collected.
LEMMA ChunkDataRead ==
  ASSUME Parsing, ReadChunkData
  PROVE  Arrives
<1>1. /\ Inv /\ Fixed /\ pos < chunkEnd /\ pos + 1 # garbled /\ parser.errno = "OK"
      /\ parser.state = "chunk_data" /\ parser \in Parser /\ channel' = channel
  BY ParsingFacts DEF ReadChunkData
<1>2. PICK j \in Nat, r \in Nat : AtChunkData(j, r)
  BY <1>1 DEF Parsing, Place
<1> DEFINE rest == Later(script, Current)
           n == Len(Open.chunks)
<1> PICK d : d = Open.chunks[j]
  OBVIOUS
<1> DEFINE t == <<Eol>> \o ChunkLines(Open, j, rest)
<1>3. /\ InChunks(j) /\ j \in 0..n /\ j >= 1 /\ r \in 0..Len(d) /\ r # Len(d)
      /\ parser.contentLength = Len(d) - r
      /\ Ahead = From(d, r) \o t
      /\ PlainUpTo(Current) => BodyRead = BodyUpto(j - 1) \o Upto(d, r)
  BY <1>1, <1>2 DEF AtChunkData, InChunks
<1>4. /\ Open.chunks \in Seq(Text) /\ n \in Nat /\ Current \in 1..Len(script) /\ j \in 1..n
      /\ j - 1 \in 0..n
  <2>1. n \in Nat
    BY <1>1, <1>3, ChunksFacts
  <2>2. j \in 1..n /\ j - 1 \in 0..n
    BY <1>3, <2>1
  <2> QED BY <1>1, <1>3, <2>1, <2>2, ChunksFacts
<1>5. d \in Text /\ Len(d) \in 1..2 /\ t \in Text
  BY <1>1, <1>3, <1>4, ChunksFacts
<1>6. r \in 0..(Len(d) - 1)
  BY <1>3, <1>5
<1> PICK q \in Nat : q = r + 1
  OBVIOUS
<1>7. /\ d[q] \in Symbols /\ q \in 0..Len(d)
      /\ From(d, r) \o t = <<d[q]>> \o (From(d, q) \o t) /\ From(d, q) \o t \in Text
      /\ Upto(d, r) \in Text /\ Upto(d, q) = Upto(d, r) \o <<d[q]>>
  BY <1>5, <1>6, InPart
<1> HIDE DEF t
<1>8. Symbol = d[q] /\ From(Written, pos + 1) = From(d, q) \o t
  BY <1>1, <1>3, <1>7, Sees
<1> DEFINE s == IF parser.contentLength = 1 THEN "chunk_data_done" ELSE parser.state
           p == [parser EXCEPT !.contentLength = @ - 1, !.state = s]
<1>9. Read(p, Extend("body"))
  BY DEF ReadChunkData
<1>10. s \in {"chunk_data", "chunk_data_done"} /\ (s = "chunk_data" <=> parser.contentLength # 1)
  BY <1>1
<1> HIDE DEF s
<1>11. /\ p.state = s /\ p.errno = "OK" /\ p.flags = parser.flags
       /\ p.version = parser.version /\ p.upgrade = parser.upgrade
       /\ p.contentLength = parser.contentLength - 1
  BY <1>1 DEF Parser
<1> HIDE DEF p
<1>12. /\ InChunks(j)' /\ BodyUpto(j)' = BodyUpto(j)
       /\ ChunkLines(Open, j, Later(script, Current))' = ChunkLines(Open, j, rest)
  BY <1>1, <1>3, <1>9, <1>11, ChunksStay
<1>13. /\ parser' = p /\ mark' = Extend("body") /\ Current' = Current /\ received' = received
       /\ Open' = Open /\ Ahead' = From(Written, pos + 1)
       /\ \A k : PlainUpTo(k)' <=> PlainUpTo(k)
  BY <1>9, Moved
<1>14. p.contentLength = Len(d) - q /\ (p.state = "chunk_data" <=> q # Len(d))
  BY <1>3, <1>5, <1>6, <1>10, <1>11
<1>15. ASSUME PlainUpTo(Current) PROVE BodyRead' = BodyUpto(j - 1) \o Upto(d, q)
  <2>1. Current >= 1
    BY <1>4
  <2>2. /\ received[Current].body \o Extend("body").bytes = BodyRead \o <<Symbol>>
        /\ Extend("body").part = "body"
    BY <1>1, <2>1, BodyExtends
  <2>3. BodyRead' = BodyRead \o <<Symbol>>
    BY <1>13, <2>2 DEF BodyRead
  <2>4. BodyUpto(j - 1) \in Text
    BY <1>4, BodyUptoIs DEF BodyUpto
  <2>5. <<d[q]>> \in Text
    BY <1>7, Vocabulary
  <2>6. BodyUpto(j - 1) \o (Upto(d, r) \o <<d[q]>>) = (BodyUpto(j - 1) \o Upto(d, r)) \o <<d[q]>>
    <3> PICK u \in Text, v \in Text, w \in Text :
               u = BodyUpto(j - 1) /\ v = Upto(d, r) /\ w = <<d[q]>>
      BY <1>7, <2>4, <2>5
    <3>1. (u \o v) \o w = u \o (v \o w)
      BY Regroup
    <3> QED BY <3>1
  <2> QED BY <1>3, <1>7, <1>8, <1>15, <2>3, <2>6
<1>16. BodyUpto(j - 1)' = BodyUpto(j - 1)
  BY <1>13 DEF BodyUpto
<1>17. AtChunkData(j, q)'
  <2>1. /\ Open'.chunks[j] = d /\ j >= 1 /\ q \in 0..Len(d) /\ parser'.contentLength = Len(d) - q
        /\ parser'.state = "chunk_data" <=> q # Len(d)
    BY <1>3, <1>7, <1>13, <1>14
  <2>2. Ahead' = From(d, q) \o (<<Eol>> \o ChunkLines(Open, j, Later(script, Current))')
    BY <1>8, <1>12, <1>13 DEF t
  <2>3. PlainUpTo(Current)' => BodyRead' = BodyUpto(j - 1)' \o Upto(d, q)
    BY <1>13, <1>15, <1>16
  <2> QED BY <1>12, <2>1, <2>2, <2>3, Zenon DEF AtChunkData
<1> QED BY <1>10, <1>11, <1>13, <1>17 DEF Arrives, Place

-----------------------------------------------------------------------------
(* The end of a message *)

\* Heads end at positions of the stream.
LEMMA HeadEndType ==
  ASSUME Inv, Fixed
  PROVE  \A i \in 1..Len(script) : headEnd[i] \in Nat
<1>1. script \in Scripts /\ DOMAIN script = 1..Len(script)
  BY StreamFacts, ScriptType
<1>2. \A i \in 1..Len(script) : headEnd[i] = HeadEnd(script, i)
  BY <1>1 DEF Fixed
<1> QED BY <1>1, <1>2, HeadEndIs

\* What was handled stays handled in time.
LEMMA HeadsPunctual ==
  ASSUME Inv, Fixed, Punctual, UNCHANGED scriptVars, Current' = Current, pos' \in Nat, pos' >= pos
  PROVE  /\ (Orderly' <=> Orderly) /\ (Stopped' <=> Stopped) /\ (Lost' <=> Lost)
         /\ (PlainUpTo(Len(script)) =>
              /\ Lost => Current >= Len(script)
              /\ \A i \in 1..Len(script) : i <= Current => headEnd[i] <= pos)'
         /\ (Orderly => \A j \in 1..(Len(script) - 1) : j < Current => ~Closes(script[j]))'
<1>1. script' = script /\ garbled' = garbled /\ headEnd' = headEnd
  BY DEF scriptVars
<1>2. (Orderly' <=> Orderly) /\ (Stopped' <=> Stopped) /\ (Lost' <=> Lost)
      /\ (PlainUpTo(Len(script))' <=> PlainUpTo(Len(script)))
  BY <1>1 DEF Orderly, Stopped, Lost, PlainUpTo
<1>3. ASSUME PlainUpTo(Len(script)), NEW i \in 1..Len(script), i <= Current
      PROVE  headEnd[i] <= pos'
  <2>1. headEnd[i] <= pos /\ headEnd[i] \in Nat /\ pos \in Nat
    BY <1>3, HeadEndType, StreamFacts DEF Punctual
  <2> QED BY <2>1
<1>4. PlainUpTo(Len(script)) /\ Lost => Current >= Len(script)
  BY DEF Punctual
<1>5. Orderly => \A j \in 1..(Len(script) - 1) : j < Current => ~Closes(script[j])
  BY DEF Punctual
<1>6. (PlainUpTo(Len(script)) =>
              /\ Lost => Current >= Len(script)
              /\ \A i \in 1..Len(script) : i <= Current => headEnd[i] <= pos)'
  BY <1>1, <1>2, <1>3, <1>4
<1>7. (Orderly => \A j \in 1..(Len(script) - 1) : j < Current => ~Closes(script[j]))'
  BY <1>1, <1>2, <1>5
<1> QED BY <1>2, <1>6, <1>7

\* The messages stay as they were sent when only a body changes.
LEMMA SentKept ==
  ASSUME Inv, Sent, Kept, UNCHANGED scriptVars, Current' = Current,
         Current >= 1 /\ PlainUpTo(Current) /\ ~Switches(Open) =>
           /\ IsPrefix(received'[Current].body, BodyOf(Open))
           /\ received'[Current].ended => received'[Current].body = BodyOf(Open)
  PROVE  Sent'
<1>1. script' = script /\ garbled' = garbled /\ Current \in Nat
  BY DEF scriptVars, Inv, TypeOK, Current
<1>2. \A i : PlainUpTo(i)' <=> PlainUpTo(i)
  BY <1>1 DEF PlainUpTo
<1>3. ASSUME NEW i \in 1..Current, PlainUpTo(i) PROVE Same(i)'
  <2>1. Same(i)
    BY <1>3 DEF Sent
  <2>2. CASE i = Current
    <3>1. /\ received'[i].method = received[i].method /\ received'[i].url = received[i].url
          /\ received'[i].headers = received[i].headers
      BY <1>3 DEF Kept
    <3>2. Current >= 1
      BY <1>3, <2>2
    <3> QED BY <1>1, <1>3, <2>1, <2>2, <3>1, <3>2 DEF Same, Open
  <2>3. CASE i # Current
    <3>1. i \in 1..(Current - 1)
      BY <1>1, <1>3, <2>3
    <3>2. received'[i] = received[i]
      BY <3>1 DEF Kept
    <3> QED BY <1>1, <2>1, <3>2 DEF Same
  <2> QED BY <2>2, <2>3
<1> QED BY <1>2, <1>3 DEF Sent

\* The parser goes on as the head of the message says.
LEMMA KeepsAlive ==
  ASSUME NEW m, Proper(m), NEW p, p.version = m.version,
         NEW F, F = HeadFlags(m.headers, Len(m.headers)), p.flags \in {F, F \cup {"TRAILING"}}
  PROVE  KeepAlive(p) <=> ~Closes(m)
<1>1. \A x \in Options : FlagOf(x) \in F <=> Lists(m, OptionOf(x))
  BY FlagsOfHead
<1>2. \A x \in Options : FlagOf(x) # "TRAILING"
  BY DEF Options, FlagOf
<1>3. \A x \in Options : FlagOf(x) \in p.flags <=> Lists(m, OptionOf(x))
  BY <1>1, <1>2
<1> QED BY <1>3, HeadSays

\* At its end a message is as it was sent, and the next one is ahead.
LEMMA MessageEnded ==
  ASSUME Parsing, Sent, Unharmed, Punctual, ~Lost, InMessage(parser), InOpen,
         NEW p \in Parser, p.errno = "OK",
         NEW bytes \in Text, EndMessage(p, bytes),
         From(Written, pos + 1) = Later(script, Current),
         Open.trailer = <<>> =>
           /\ KeepAlive(p) <=> ~Closes(Open)
           /\ PlainUpTo(Current) => channel = Idle,
         PlainUpTo(Current) => received[Current].body \o bytes = BodyOf(Open)
  PROVE  Holds'
<1>1. /\ Inv /\ Fixed /\ Current \in 1..Len(script) /\ Len(script) \in Nat /\ pos \in Nat
      /\ Current \in Nat /\ pos + 1 # garbled /\ garbled \in Nat
      /\ script' = script /\ garbled' = garbled /\ headEnd' = headEnd /\ UNCHANGED scriptVars
  <2>1. Inv /\ Fixed /\ pos + 1 # garbled /\ UNCHANGED scriptVars
    BY DEF Parsing
  <2> QED BY <2>1, StreamFacts DEF InOpen, scriptVars
<1>2. /\ received' = OnEnd(bytes) /\ parser' = [p EXCEPT !.state = NewMessage(p)]
      /\ mark' = NoMark /\ pos' = pos + 1 /\ channel' = channel
  BY DEF EndMessage, Leave, InOpen
<1>3. Kept /\ Current' = Current
  BY <1>1, <1>2, BodyKept
<1>4. /\ parser'.state = NewMessage(p) /\ parser'.errno = "OK"
      /\ parser'.state \in {"start_req", "dead"}
      /\ parser'.state = "dead" <=> ~KeepAlive(p)
  BY <1>2, NewMessageFacts DEF Parser
<1>5. Marked'
  BY <1>2, <1>4, NoMarkType DEF Marked
<1>6. \A i : PlainUpTo(i)' <=> PlainUpTo(i)
  BY <1>1 DEF PlainUpTo
<1>7. PlainUpTo(Current + 1) => PlainUpTo(Current) /\ Open.trailer = <<>>
  <2>1. \A j \in 1..Current : j \in 1..(Current + 1)
    BY <1>1
  <2>2. \A j \in 1..(Current - 1) : j \in 1..((Current + 1) - 1)
    BY <1>1
  <2>3. Current <= Len(script) /\ Current \in 1..((Current + 1) - 1)
    BY <1>1
  <2> QED BY <2>1, <2>2, <2>3 DEF PlainUpTo, Open
<1>8. Place'
  <2>1. Ahead' = Later(script, Current)'
    BY <1>1, <1>2, <1>3 DEF Ahead, Written
  <2>2. Current <= Len(script)
    BY <1>1
  <2>3. AtStart'
    BY <1>1, <1>2, <1>3, <1>6, <1>7, <2>1, <2>2 DEF AtStart
  <2> QED BY <1>4, <2>3 DEF Place
<1>9. Sent'
  <2> SUFFICES ASSUME PlainUpTo(Current)
               PROVE  /\ IsPrefix(received'[Current].body, BodyOf(Open))
                      /\ received'[Current].body = BodyOf(Open)
    BY <1>1, <1>3, SentKept
  <2>1. received'[Current].body = received[Current].body \o bytes
    BY <1>1, <1>2, BodyGrows
  <2>2. Proper(Open) /\ Sound(Open)
    BY <1>1, OpenFacts
  <2>3. BodyOf(Open) \in Text /\ <<>> \in Text
    BY <2>2, BodyType, FlattenNone
  <2>4. IsPrefix(BodyOf(Open), BodyOf(Open) \o <<>>)
    BY <2>3, PrefixOf
  <2>5. BodyOf(Open) \o <<>> = BodyOf(Open)
    BY <2>3, Together
  <2> QED BY <2>1, <2>4, <2>5
<1>10. Unharmed'
  <2>1. garbled = 0 \/ pos < garbled
    BY DEF Unharmed, Parsing
  <2>2. garbled = 0 \/ pos + 1 < garbled
    BY <1>1, <2>1
  <2>3. garbled # 0 => \A i \in 1..Current : i <= Len(script) /\ headEnd[i] < garbled
    BY DEF Unharmed
  <2>4. parser'.state \notin {"value_start", "value"}
    BY <1>4
  <2> QED BY <1>1, <1>2, <1>3, <2>2, <2>3, <2>4 DEF Unharmed
<1>11. Punctual'
  <2>1. /\ (Orderly' <=> Orderly) /\ (Stopped' <=> Stopped)
        /\ (PlainUpTo(Len(script)) =>
              /\ Lost => Current >= Len(script)
              /\ \A i \in 1..Len(script) : i <= Current => headEnd[i] <= pos)'
        /\ (Orderly => \A j \in 1..(Len(script) - 1) : j < Current => ~Closes(script[j]))'
    <3>1. pos' \in Nat /\ pos' >= pos
      BY <1>1, <1>2
    <3> QED BY <1>1, <1>3, <3>1, HeadsPunctual
  <2>2. ASSUME Orderly, ~(Current >= Len(script))
        PROVE  KeepAlive(p) <=> ~Closes(Open)
    <3>1. Current \in 1..(Len(script) - 1)
      BY <1>1, <2>2
    <3> QED BY <2>2, <3>1 DEF Orderly, PlainUpTo, Open
  <2>3. ASSUME Orderly, parser'.state = "dead" PROVE Stopped
    <3>1. Current >= 1
      BY <1>1
    <3> QED BY <1>4, <2>2, <2>3, <3>1 DEF Stopped, Open
  <2>4. ASSUME Orderly, parser'.state # "dead", NEW j \in 1..(Len(script) - 1), j <= Current
        PROVE  ~Closes(script[j])
    <3>1. CASE j < Current
      BY <1>1, <1>3, <2>1, <2>4, <3>1
    <3>2. CASE j = Current
      <4>1. ~(Current >= Len(script))
        BY <1>1, <3>2
      <4> QED BY <1>4, <2>2, <2>4, <3>2, <4>1 DEF Open
    <3> QED BY <1>1, <2>4, <3>1, <3>2
  <2>5. (Orderly => (parser.errno # "OK" \/ parser.state = "dead" => Stopped))'
    BY <1>4, <2>1, <2>3
  <2>6. (Orderly =>
           /\ parser.errno = "OK" /\ ~InMessage(parser) /\ parser.state # "dead" =>
                \A j \in 1..(Len(script) - 1) : j <= Current => ~Closes(script[j]))'
    BY <1>1, <1>3, <2>1, <2>4
  <2> QED BY <2>1, <2>5, <2>6, Zenon DEF Punctual
<1> QED BY <1>4, <1>5, <1>8, <1>9, <1>10, <1>11 DEF Holds

\* A message ends with its trailer.
LEMMA TrailerEnds ==
  ASSUME Parsing, Sent, Unharmed, Punctual, ~Lost, EndTrailer
  PROVE  Holds'
<1> DEFINE none == <<>>
<1>1. HeadEnds /\ Trailing /\ EndMessage(parser, none)
  BY DEF EndTrailer, Trailing
<1>2. /\ Inv /\ Fixed /\ pos < chunkEnd /\ parser.errno = "OK" /\ parser \in Parser
      /\ parser.state = "field_start" /\ InSection /\ From(Written, pos + 1) = Behind
  BY <1>1, AtLastLine
<1>3. InTrailer /\ InMessage(parser) /\ Behind = Later(script, Current)
  BY <1>1, <1>2 DEF InSection, InMessage, Trailing, Behind
<1>4. InOpen /\ Current \in 1..Len(script) /\ Current >= 1
  BY <1>3 DEF InTrailer, InOpen
<1>5. none \in Text /\ received[Current].body \in Text
  BY <1>2, <1>4, FlattenNone, BodyExtends
<1>6. ASSUME Open.trailer = <<>>
      PROVE  (KeepAlive(parser) <=> ~Closes(Open)) /\ (PlainUpTo(Current) => channel = Idle)
  <2>1. parser.version = Open.version /\ parser.flags = HeadsFlags \cup {"TRAILING"}
    BY <1>3, <1>4, <1>6 DEF InTrailer, InOpen
  <2>2. Proper(Open)
    BY <1>2, <1>4, OpenFacts
  <2> QED BY <1>3, <1>6, <2>1, <2>2, KeepsAlive DEF HeadsFlags, InTrailer
<1>7. ASSUME PlainUpTo(Current) PROVE received[Current].body \o none = BodyOf(Open)
  <2>1. received[Current].body \o none = received[Current].body
    BY <1>5, Together
  <2> QED BY <1>3, <1>7, <2>1 DEF InTrailer
<1> HIDE DEF none
<1> QED BY <1>1, <1>2, <1>3, <1>4, <1>5, <1>6, <1>7, MessageEnded

\* The symbol of a body that is read.
LEMMA SeesInBody ==
  ASSUME Parsing, In({"body_identity"})
  PROVE  \E d \in Text, r \in Nat, q \in Nat :
           /\ InBody /\ Current \in 1..Len(script) /\ Current >= 1 /\ Open.chunks = <<>>
           /\ d = Open.body /\ q = r + 1 /\ q \in 0..Len(d) /\ parser.contentLength = Len(d) - r
           /\ From(Written, pos + 1) = From(d, q) \o Later(script, Current)
           /\ PlainUpTo(Current) => BodyRead \o <<Symbol>> = Upto(d, q)
<1>1. /\ Inv /\ Fixed /\ pos < chunkEnd /\ pos + 1 # garbled /\ parser.state = "body_identity"
  BY ParsingFacts
<1>2. PICK r \in Nat : AtBody(r)
  BY <1>1 DEF Parsing, Place
<1> PICK d : d = Open.body
  OBVIOUS
<1>3. /\ InBody /\ Current \in 1..Len(script) /\ Open.chunks = <<>> /\ r \in 0..(Len(d) - 1)
      /\ parser.contentLength = Len(d) - r
      /\ Ahead = From(d, r) \o Later(script, Current)
      /\ PlainUpTo(Current) => BodyRead = Upto(d, r)
  BY <1>2 DEF AtBody, InBody, InOpen
<1>4. d \in Text /\ Later(script, Current) \in Text /\ Current >= 1
  BY <1>1, <1>3, OpenFacts, ProperParts
<1> PICK q \in Nat : q = r + 1
  OBVIOUS
<1> DEFINE t == Later(script, Current)
<1>5. /\ d[q] \in Symbols /\ q \in 0..Len(d)
      /\ From(d, r) \o t = <<d[q]>> \o (From(d, q) \o t) /\ From(d, q) \o t \in Text
      /\ Upto(d, q) = Upto(d, r) \o <<d[q]>>
  BY <1>3, <1>4, InPart
<1>6. Symbol = d[q] /\ From(Written, pos + 1) = From(d, q) \o t
  BY <1>1, <1>3, <1>5, Sees
<1> QED BY <1>3, <1>4, <1>5, <1>6

\* A body of known length is collected ...
LEMMA BodyGoesOn ==
  ASSUME Parsing, In({"body_identity"}), parser.contentLength > 1, channel' = channel,
         Read([parser EXCEPT !.contentLength = @ - 1], Extend("body"))
  PROVE  Arrives
<1>1. /\ Inv /\ Fixed /\ pos < chunkEnd /\ parser.state = "body_identity"
      /\ parser.errno = "OK" /\ parser \in Parser
  BY ParsingFacts
<1>2. PICK d \in Text, r \in Nat, q \in Nat :
           /\ InBody /\ Current \in 1..Len(script) /\ Current >= 1 /\ Open.chunks = <<>>
           /\ d = Open.body /\ q = r + 1 /\ q \in 0..Len(d) /\ parser.contentLength = Len(d) - r
           /\ From(Written, pos + 1) = From(d, q) \o Later(script, Current)
           /\ PlainUpTo(Current) => BodyRead \o <<Symbol>> = Upto(d, q)
  BY SeesInBody
<1>3. q \in 0..(Len(d) - 1) /\ parser.contentLength - 1 = Len(d) - q
  <2>0. Len(d) \in Nat
    BY FlattenNone, BehindPart
  <2>1. PICK n \in Nat : n = Len(d)
    BY <2>0
  <2>2. n - r > 1 /\ q = r + 1
    BY <1>2, <2>1
  <2>3. q \in 0..(n - 1) /\ (n - r) - 1 = n - q
    BY <2>2
  <2> QED BY <1>2, <2>1, <2>3
<1> PICK p : p = [parser EXCEPT !.contentLength = @ - 1]
  OBVIOUS
<1>4. /\ p.state = "body_identity" /\ p.errno = "OK" /\ p.flags = parser.flags
      /\ p.version = parser.version /\ p.upgrade = parser.upgrade
      /\ p.contentLength = parser.contentLength - 1
  BY <1>1 DEF Parser
<1>5. /\ parser' = p /\ mark' = Extend("body") /\ Current' = Current /\ received' = received
      /\ Open' = Open /\ Ahead' = From(Written, pos + 1) /\ script' = script
      /\ Later(script, Current)' = Later(script, Current) /\ HeadsFlags' = HeadsFlags
      /\ \A k : PlainUpTo(k)' <=> PlainUpTo(k)
  BY Moved
<1>6. InBody'
  BY <1>2, <1>4, <1>5 DEF InBody, InOpen
<1>7. BodyRead' = BodyRead \o <<Symbol>>
  <2>1. /\ received[Current].body \o Extend("body").bytes = BodyRead \o <<Symbol>>
        /\ Extend("body").part = "body"
    BY <1>1, <1>2, BodyExtends
  <2> QED BY <1>5, <2>1 DEF BodyRead
<1>8. AtBody(q)'
  <2>1. /\ Open'.chunks = <<>> /\ Open'.body = d /\ q \in 0..(Len(d) - 1)
        /\ parser'.contentLength = Len(d) - q
        /\ Ahead' = From(d, q) \o Later(script, Current)'
        /\ PlainUpTo(Current)' => BodyRead' = Upto(d, q)
    BY <1>2, <1>3, <1>4, <1>5, <1>7
  <2> QED BY <1>6, <2>1, Zenon DEF AtBody
<1> QED BY <1>4, <1>5, <1>8 DEF Arrives, Place

\* ... and ends with its last byte.
LEMMA BodyEnds ==
  ASSUME Parsing, Sent, Unharmed, Punctual, ~Lost,
         In({"body_identity"}), parser.contentLength = 1,
         EndMessage([parser EXCEPT !.contentLength = 0], Extend("body").bytes)
  PROVE  Holds'
<1>1. /\ Inv /\ Fixed /\ pos < chunkEnd /\ parser.state = "body_identity"
      /\ parser.errno = "OK" /\ parser \in Parser
  BY ParsingFacts
<1>2. PICK d \in Text, r \in Nat, q \in Nat :
           /\ InBody /\ Current \in 1..Len(script) /\ Current >= 1 /\ Open.chunks = <<>>
           /\ d = Open.body /\ q = r + 1 /\ q \in 0..Len(d) /\ parser.contentLength = Len(d) - r
           /\ From(Written, pos + 1) = From(d, q) \o Later(script, Current)
           /\ PlainUpTo(Current) => BodyRead \o <<Symbol>> = Upto(d, q)
  BY SeesInBody
<1>3. q = Len(d)
  <2>0. Len(d) \in Nat
    BY FlattenNone, BehindPart
  <2>1. PICK n \in Nat : n = Len(d)
    BY <2>0
  <2>2. n - r = 1 /\ q = r + 1
    BY <1>2, <2>1
  <2>3. q = n
    BY <2>2
  <2> QED BY <2>1, <2>3
<1> PICK p : p = [parser EXCEPT !.contentLength = 0]
  OBVIOUS
<1>4. /\ p \in Parser /\ p.errno = "OK" /\ p.flags = parser.flags /\ p.version = parser.version
  BY <1>1, LengthAssumption DEF Parser
<1>5. InMessage(parser) /\ InOpen /\ p.flags = HeadsFlags /\ p.version = Open.version
  BY <1>1, <1>2, <1>4 DEF InMessage, InBody, InOpen
<1>6. /\ Extend("body").bytes \in Text
      /\ received[Current].body \o Extend("body").bytes = BodyRead \o <<Symbol>>
  BY <1>1, <1>2, BodyExtends
<1>7. From(Written, pos + 1) = Later(script, Current) /\ Upto(d, q) = d
  <2>1. Later(script, Current) \in Text
    BY <1>1, <1>2, OpenFacts
  <2>2. From(d, Len(d)) \o Later(script, Current) = Later(script, Current) /\ Upto(d, Len(d)) = d
    BY <2>1, BehindPart
  <2> QED BY <1>2, <1>3, <2>2
<1>8. (KeepAlive(p) <=> ~Closes(Open)) /\ (PlainUpTo(Current) => channel = Idle)
  <2>1. Proper(Open)
    BY <1>1, <1>2, OpenFacts
  <2> QED BY <1>2, <1>5, <2>1, KeepsAlive DEF HeadsFlags, InBody
<1>9. PlainUpTo(Current) => received[Current].body \o Extend("body").bytes = BodyOf(Open)
  BY <1>2, <1>6, <1>7 DEF BodyOf
<1>10. EndMessage(p, Extend("body").bytes)
  OBVIOUS
<1> QED BY <1>4, <1>5, <1>6, <1>7, <1>8, <1>9, <1>10, MessageEnded

\* Behind a message that closes the parser stops.
LEMMA DeadEnds ==
  ASSUME Parsing, ReadDead, Punctual
  PROVE  Arrives
<1>1. /\ Inv /\ Fixed /\ pos < chunkEnd /\ pos + 1 # garbled /\ parser.state = "dead"
      /\ parser.errno = "OK"
  BY ParsingFacts DEF ReadDead
<1>2. AtStart
  BY <1>1 DEF Parsing, Place
<1>3. ~Orderly \/ Stopped
  BY <1>1 DEF Punctual
<1>4. Symbol # Eol
  <2> SUFFICES ASSUME Symbol = Eol PROVE FALSE
    OBVIOUS
  <2>1. Current < Len(script)
    <3> SUFFICES ASSUME ~(Current < Len(script)) PROVE FALSE
      OBVIOUS
    <3>1. Current = Len(script) /\ Current \in 0..Len(script) /\ script \in Scripts
      BY <1>1, <1>2, StreamFacts DEF AtStart
    <3>2. Ahead = <<>>
      BY <1>2, <3>1, LaterUnfolds DEF AtStart
    <3> QED BY <1>1, <3>2, SomethingAhead
  <2>2. PICK x, t : x \in Methods /\ x \in Symbols /\ t \in Text /\ Ahead = <<x>> \o t
    <3> DEFINE c == Content(Reading) \o Later(script, Current + 1)
               v == <<Reading.version>> \o Lines(Reading.headers, 0, c)
    <3>1. c \in Text /\ Proper(Reading)
          /\ Later(script, Current) = <<Reading.method>> \o (Reading.url \o v)
      BY <1>1, <2>1, ReadingFacts
    <3>2. /\ Reading.method \in Methods /\ Reading.method \in Symbols /\ Reading.url \in Text
          /\ Reading.version \in Symbols /\ Reading.headers \in Seq(Field)
      BY <3>1, ProperParts, Vocabulary
    <3>3. 0 \in 0..Len(Reading.headers)
      BY <3>2
    <3> HIDE DEF c
    <3>4. Lines(Reading.headers, 0, c) \in Text
      BY <3>1, <3>2, <3>3, LinesUnfold
    <3>5. v \in Text
      BY <3>2, <3>4, Vocabulary, Together
    <3> HIDE DEF v
    <3>6. Reading.url \o v \in Text
      BY <3>2, <3>5, Together
    <3> QED BY <1>2, <3>1, <3>2, <3>6 DEF AtStart
  <2>3. Symbol = x
    BY <1>1, <2>2, Sees
  <2> QED BY <2>2, <2>3, Separators
<1>5. Fail("CLOSED_CONNECTION")
  BY <1>4 DEF ReadDead
<1>6. parser'.errno # "OK"
  <2>1. "CLOSED_CONNECTION" \in Errors /\ "CLOSED_CONNECTION" # "OK"
    BY DEF Errors
  <2> QED BY <1>5, <2>1, Failed
<1> QED BY <1>3, <1>6 DEF Arrives

\* The lines and the data of chunks handle nothing.
LEMMA ChunksQuiet ==
  ASSUME Inv, Rest, ReadChunkSize \/ ReadChunkHeader \/ ReadChunkData
  PROVE  Quiet
<1>1. parser \in Parser /\ parser.errno = "OK" /\ parser.state \in ChunkStates
  BY DEF Inv, TypeOK, ReadChunkSize, ReadChunkHeader, ReadChunkData, In, ChunkStates
<1>2. ASSUME NEW p, NEW m, Read(p, m), p.errno = "OK",
             m = NoMark \/ m.part = "body",
             \/ p.state \in ChunkStates
             \/ p.state = "field_start" /\ "TRAILING" \in p.flags
      PROVE  Quiet
  <2>1. (InMessage(p) <=> InMessage(parser)) /\ (p.state = "dead" <=> parser.state = "dead")
    BY <1>1, <1>2, StaysIn DEF InMessage, ChunkStates
  <2> QED BY <1>2, <2>1, ReadQuiet DEF ChunkStates
<1>3. CASE ReadChunkSize
  <2> DEFINE first == parser.state = "chunk_size_start"
             n == (IF first THEN 0 ELSE 16 * parser.contentLength) + Value[Symbol]
  <2>1. \/ Read([parser EXCEPT !.state = "chunk_size", !.contentLength = n], NoMark)
        \/ Fail("INVALID_CHUNK_SIZE") \/ Fail("INVALID_CONTENT_LENGTH")
    BY <1>3 DEF ReadChunkSize
  <2> HIDE DEF n
  <2> PICK p : p = [parser EXCEPT !.state = "chunk_size", !.contentLength = n]
    OBVIOUS
  <2>2. p.errno = "OK" /\ p.state = "chunk_size"
    BY <1>1 DEF Parser
  <2>3. Read(p, NoMark) => Quiet
    BY <1>2, <2>2 DEF ChunkStates
  <2> QED BY <2>1, <2>3, FailQuiet DEF Errors
<1>4. CASE ReadChunkHeader
  <2>1. ASSUME NEW p, p = [parser EXCEPT !.state = "field_start", !.flags = @ \cup {"TRAILING"}]
        PROVE  p.errno = "OK" /\ p.state = "field_start" /\ "TRAILING" \in p.flags
    BY <1>1, <2>1 DEF Parser
  <2>2. ASSUME NEW p, p = [parser EXCEPT !.state = "chunk_data"]
        PROVE  p.errno = "OK" /\ p.state = "chunk_data"
    BY <1>1, <2>2 DEF Parser
  <2> PICK p : p = [parser EXCEPT !.state = "field_start", !.flags = @ \cup {"TRAILING"}]
    OBVIOUS
  <2> PICK q : q = [parser EXCEPT !.state = "chunk_data"]
    OBVIOUS
  <2>3. Read(p, NoMark) => Quiet
    BY <1>2, <2>1
  <2>4. Read(q, NoMark) => Quiet
    BY <1>2, <2>2 DEF ChunkStates
  <2> QED BY <1>4, <2>3, <2>4 DEF ReadChunkHeader
<1>5. CASE ReadChunkData
  <2> DEFINE s == IF parser.contentLength = 1 THEN "chunk_data_done" ELSE parser.state
             n == parser.contentLength - 1
  <2>1. s \in ChunkStates
    BY <1>1 DEF ChunkStates
  <2>2. Read([parser EXCEPT !.contentLength = n, !.state = s], Extend("body"))
    BY <1>5 DEF ReadChunkData
  <2> HIDE DEF s, n
  <2> PICK p : p = [parser EXCEPT !.contentLength = n, !.state = s]
    OBVIOUS
  <2>3. p.errno = "OK" /\ p.state = s
    BY <1>1 DEF Parser
  <2>4. Extend("body").part = "body"
    BY DEF Extend
  <2> QED BY <1>2, <2>1, <2>2, <2>3, <2>4
<1> QED BY <1>3, <1>4, <1>5

\* A byte of a body handles nothing.
LEMMA BodyQuiet ==
  ASSUME Inv, Rest, In({"body_identity"}),
         Read([parser EXCEPT !.contentLength = @ - 1], Extend("body"))
  PROVE  Quiet
<1>1. parser \in Parser /\ parser.errno = "OK" /\ parser.state = "body_identity"
  BY DEF Inv, TypeOK, In
<1> PICK p : p = [parser EXCEPT !.contentLength = @ - 1]
  OBVIOUS
<1>2. p.errno = "OK" /\ p.state = "body_identity"
  BY <1>1 DEF Parser
<1>3. Extend("body").part = "body"
  BY DEF Extend
<1>4. (InMessage(p) <=> InMessage(parser)) /\ (p.state = "dead" <=> parser.state = "dead")
  BY <1>1, <1>2 DEF InMessage
<1> QED BY <1>2, <1>3, <1>4, ReadQuiet

\* A dead parser handles nothing.
LEMMA DeadQuiet ==
  ASSUME Inv, Rest, ReadDead
  PROVE  Quiet
<1>1. parser.errno = "OK" /\ parser.state = "dead"
  BY DEF ReadDead, In
<1>2. Read(parser, NoMark) => Quiet
  BY <1>1, ReadQuiet
<1> QED BY <1>2, FailQuiet DEF ReadDead, Errors

\* What was marked of a body is passed on.
LEMMA BodyCopied ==
  ASSUME Inv, InMessage(parser),
         received' = IF mark.part = "body" THEN OnBody(mark.bytes) ELSE received
  PROVE  /\ Kept /\ Current' = Current /\ Current \in 1..Len(received)
         /\ received[Current].body \in Text /\ BodyRead \in Text
         /\ received'[Current].body = BodyRead /\ ~received'[Current].ended
<1>1. /\ mark \in Mark /\ mark.bytes \in Text /\ received \in Seq(Message)
      /\ Current \in 1..Len(received)
      /\ ~received[Current].ended
  <2>1. mark \in Mark /\ received \in Seq(Message) /\ ~received[Current].ended
    BY DEF Inv, TypeOK, MessageInv, MessagesAreFramed
  <2>2. mark.bytes \in Text
    BY <2>1 DEF Mark
  <2>3. Current \in 1..Len(received)
    BY <2>2, BodyGrows
  <2> QED BY <2>1, <2>2, <2>3
<1>2. received[Current].body \in Text
  <2>1. received[Current] \in Message
    BY <1>1
  <2> QED BY <2>1 DEF Message
<1>3. CASE mark.part = "body"
  <2>1. received' = OnBody(mark.bytes) /\ BodyRead = received[Current].body \o mark.bytes
    BY <1>3 DEF BodyRead
  <2>2. Kept /\ Current' = Current
    BY <1>1, <2>1, BodyKept
  <2>3. OnBody(mark.bytes)[Current].body = received[Current].body \o mark.bytes
        /\ OnBody(mark.bytes)[Current].ended = received[Current].ended
    BY <1>1, BodyGrows
  <2> QED BY <1>1, <1>2, <2>1, <2>2, <2>3, Together
<1>4. CASE mark.part # "body"
  <2>1. BodyRead = received[Current].body \o <<>>
    BY <1>4 DEF BodyRead
  <2>2. received[Current].body \o <<>> = received[Current].body
    BY <1>2, FlattenNone, Together
  <2>3. received' = received /\ Kept /\ Current' = Current
    BY <1>4, SameKept DEF Current
  <2> QED BY <1>1, <1>2, <2>1, <2>2, <2>3
<1> QED BY <1>3, <1>4

\* The data of a chunk ends with its line.
LEMMA ChunkEnds ==
  ASSUME Parsing, EndChunkData
  PROVE  /\ Symbol = Eol
         /\ Place' /\ (PlainUpTo(Current) => IsPrefix(received'[Current].body, BodyOf(Open)))
<1>1. /\ Inv /\ Fixed /\ pos < chunkEnd /\ pos + 1 # garbled /\ parser.errno = "OK"
      /\ parser.state = "chunk_data_done" /\ parser \in Parser
  BY ParsingFacts DEF EndChunkData
<1>2. PICK j \in Nat, r \in Nat : AtChunkData(j, r)
  BY <1>1 DEF Parsing, Place
<1> DEFINE rest == Later(script, Current)
           n == Len(Open.chunks)
<1> PICK d : d = Open.chunks[j]
  OBVIOUS
<1> DEFINE t == <<Eol>> \o ChunkLines(Open, j, rest)
<1>3. /\ InChunks(j) /\ InBody /\ j \in 0..n /\ j >= 1 /\ r = Len(d) /\ Open.chunks # <<>>
      /\ Ahead = From(d, r) \o t
      /\ PlainUpTo(Current) => BodyRead = BodyUpto(j - 1) \o Upto(d, r)
  BY <1>1, <1>2 DEF AtChunkData, InChunks
<1>4. n \in Nat
  BY <1>1, <1>3, ChunksFacts
<1>5. j \in 1..n
  BY <1>3, <1>4
<1>6. /\ Open.chunks \in Seq(Text) /\ d \in Text /\ t \in Text
      /\ ChunkLines(Open, j, rest) \in Text /\ Sound(Open)
  BY <1>1, <1>3, <1>5, ChunksFacts
<1>7. From(d, r) \o t = t /\ Upto(d, r) = d
  BY <1>3, <1>6, BehindPart
<1>8. Symbol = Eol /\ From(Written, pos + 1) = ChunkLines(Open, j, rest)
  BY <1>1, <1>3, <1>6, <1>7, Sees, Separators
<1>9. /\ pos' = pos + 1 /\ parser' = [parser EXCEPT !.state = "chunk_size_start"]
      /\ received' = IF mark.part = "body" THEN OnBody(mark.bytes) ELSE received
      /\ mark' = NoMark /\ channel' = channel
  BY <1>8 DEF EndChunkData
<1>10. /\ parser'.state = "chunk_size_start" /\ parser'.flags = parser.flags
       /\ parser'.version = parser.version /\ parser'.upgrade = parser.upgrade
  BY <1>1, <1>9 DEF Parser
<1>11. Current' = Current /\ received'[Current].body = BodyRead
  <2>1. InMessage(parser)
    BY <1>1 DEF InMessage
  <2> QED BY <1>1, <1>9, <2>1, BodyCopied
<1>12. script' = script /\ garbled' = garbled
  BY DEF Parsing, scriptVars
<1>13. /\ \A i : PlainUpTo(i)' <=> PlainUpTo(i)
       /\ Open' = Open /\ HeadsFlags' = HeadsFlags /\ Later(script, Current)' = rest
       /\ Ahead' = From(Written, pos + 1) /\ BodyUpto(j)' = BodyUpto(j)
  BY <1>9, <1>11, <1>12 DEF PlainUpTo, Open, HeadsFlags, Ahead, Written, BodyUpto
<1>14. InChunks(j)'
  <2>1. InBody'
    BY <1>3, <1>9, <1>10, <1>11, <1>12, <1>13 DEF InBody, InOpen
  <2> QED BY <1>3, <1>13, <2>1 DEF InChunks
<1>15. ASSUME PlainUpTo(Current) PROVE received'[Current].body = BodyUpto(j)
  <2>1. BodyUpto(j) = BodyUpto(j - 1) \o d
    <3>1. j \in 0..n /\ j > 0
      BY <1>3, <1>5
    <3> QED BY <1>6, <3>1, BodyUptoIs DEF BodyUpto
  <2> QED BY <1>3, <1>7, <1>11, <1>15, <2>1
<1>16. AtChunk(j)'
  <2>1. Ahead' = ChunkLines(Open, j, Later(script, Current))'
    BY <1>8, <1>13
  <2>2. (PlainUpTo(Current) => received[Current].body = BodyUpto(j))'
    BY <1>11, <1>13, <1>15
  <2> QED BY <1>9, <1>14, <2>1, <2>2 DEF AtChunk
<1>17. Place'
  BY <1>10, <1>16 DEF Place
<1>18. IsPrefix(BodyUpto(j), BodyOf(Open))
  <2>1. BodyOf(Open) = FlattenSeq(Open.chunks)
    BY <1>3 DEF BodyOf
  <2>2. PICK u, v : u = FlattenSeq(Upto(Open.chunks, j)) /\ v = FlattenSeq(From(Open.chunks, j))
    OBVIOUS
  <2>3. u \o v = FlattenSeq(Open.chunks)
    BY <1>3, <1>6, <2>2, FlattenWhole
  <2>4. u \in Text /\ v \in Text
    <3>1. From(Open.chunks, j) \in Seq(Text)
      BY <1>3, <1>6, Pieces
    <3> QED BY <1>3, <1>6, <2>2, <3>1, BodyUptoIs, FlattenType
  <2>5. IsPrefix(u, u \o v)
    BY <2>4, PrefixOf
  <2> QED BY <2>1, <2>2, <2>3, <2>5 DEF BodyUpto
<1> QED BY <1>8, <1>15, <1>17, <1>18

-----------------------------------------------------------------------------
(* The invariant is preserved *)

\* A step that ends neither a head nor a message.
Calm ==
  /\ Marked' /\ Kept /\ Current' = Current /\ Sent' /\ pos' \in Nat /\ pos' >= pos
  /\ parser'.errno = "OK" =>
       /\ pos' = pos + 1
       /\ InMessage(parser') <=> InMessage(parser)
       /\ parser'.state = "dead" <=> parser.state = "dead"

\* A step that handles nothing leaves the messages as they are.
LEMMA QuietIsCalm ==
  ASSUME Inv, Sent, UNCHANGED scriptVars, Quiet
  PROVE  Calm
<1>1. received' = received /\ Current' = Current /\ script' = script /\ garbled' = garbled
  BY DEF Quiet, Current, scriptVars
<1>2. Kept
  BY <1>1, SameKept
<1>3. Sent'
  BY <1>1 DEF Sent, Same, PlainUpTo
<1> QED BY <1>1, <1>2, <1>3 DEF Quiet, Calm

\* Such a step preserves the invariant when the parser arrives.
LEMMA CalmHolds ==
  ASSUME Inv, ClientInv, ~Lost, parser.errno = "OK", UNCHANGED scriptVars, Calm,
         parser'.errno = "OK" =>
           /\ pos + 1 # garbled /\ Place'
           /\ parser'.state \in {"value_start", "value"} => BehindColon',
         parser'.errno # "OK" => ~Orderly \/ Stopped
  PROVE  Holds'
<1>1. script' = script /\ garbled' = garbled /\ headEnd' = headEnd /\ Fixed
  BY DEF scriptVars, ClientInv
<1>2. Current' = Current /\ Marked' /\ Sent' /\ pos' \in Nat /\ pos' >= pos
  BY DEF Calm
<1>3. pos \in Nat /\ garbled \in Nat
  BY <1>1, StreamFacts
<1>4. Unharmed'
  <2>1. (garbled = 0 \/ pos < garbled) /\ (garbled # 0 => \A i \in 1..Current :
           i <= Len(script) /\ headEnd[i] < garbled)
    BY DEF ClientInv, Unharmed
  <2>2. ASSUME parser'.errno = "OK" PROVE garbled = 0 \/ pos' < garbled
    <3>1. pos' = pos + 1 /\ pos + 1 # garbled
      BY <2>2 DEF Calm
    <3> QED BY <1>3, <2>1, <3>1
  <2> QED BY <1>1, <1>2, <2>1, <2>2 DEF Unharmed
<1>5. Punctual'
  <2>1. Punctual /\ UNCHANGED scriptVars
    BY DEF ClientInv
  <2>2. /\ (Orderly' <=> Orderly) /\ (Stopped' <=> Stopped)
        /\ (PlainUpTo(Len(script)) =>
              /\ Lost => Current >= Len(script)
              /\ \A i \in 1..Len(script) : i <= Current => headEnd[i] <= pos)'
        /\ (Orderly => \A j \in 1..(Len(script) - 1) : j < Current => ~Closes(script[j]))'
    BY <1>1, <1>2, <2>1, HeadsPunctual
  <2>3. (Orderly => (parser.errno # "OK" \/ parser.state = "dead" => Stopped))'
    <3>1. ASSUME Orderly, parser'.errno = "OK", parser'.state = "dead" PROVE Stopped
      <4>1. parser.state = "dead"
        BY <3>1 DEF Calm
      <4> QED BY <2>1, <3>1, <4>1 DEF Punctual
    <3> QED BY <2>2, <3>1
  <2>4. (Orderly =>
           /\ parser.errno = "OK" /\ ~InMessage(parser) /\ parser.state # "dead" =>
                \A j \in 1..(Len(script) - 1) : j <= Current => ~Closes(script[j]))'
    <3>1. ASSUME Orderly, parser'.errno = "OK", ~InMessage(parser'), parser'.state # "dead"
          PROVE  \A j \in 1..(Len(script) - 1) : j <= Current => ~Closes(script[j])
      <4>1. ~InMessage(parser) /\ parser.state # "dead"
        BY <3>1 DEF Calm
      <4> QED BY <2>1, <3>1, <4>1 DEF Punctual
    <3> QED BY <1>1, <1>2, <2>2, <3>1
  <2> QED BY <2>2, <2>3, <2>4, Zenon DEF Punctual
<1> QED BY <1>2, <1>4, <1>5 DEF Holds

\* Nothing more is claimed once the protocol of a message was switched.
LEMMA LostHolds ==
  ASSUME Inv, ClientInv, Lost, UNCHANGED scriptVars, Marked', Kept, pos' \in Nat, pos' >= pos
  PROVE  Holds' /\ Lost'
<1>1. script' = script /\ garbled' = garbled /\ headEnd' = headEnd /\ Fixed
  BY DEF scriptVars, ClientInv
<1>2. garbled = 0
  BY <1>1, NothingLost DEF ClientInv
<1>3. Current \in Nat /\ Current' \in Nat /\ Current' >= Current /\ Len(script) \in Nat /\ pos \in Nat
  BY <1>1, StreamFacts DEF Kept
<1>4. PICK k \in 1..Current : Switches(script[k])
  BY DEF Lost
<1>5. Lost'
  <2>1. k \in 1..Current'
    BY <1>3
  <2> QED BY <1>1, <1>4, <2>1 DEF Lost
<1>6. \A i : PlainUpTo(i)' <=> PlainUpTo(i)
  BY <1>1 DEF PlainUpTo
<1>7. ASSUME NEW i \in 1..Current', PlainUpTo(i) PROVE Same(i)'
  <2>1. i <= k
    <3>1. k \notin 1..(i - 1)
      BY <1>4, <1>7 DEF PlainUpTo
    <3> QED BY <1>3, <3>1
  <2>2. i \in 1..Current
    BY <1>3, <2>1
  <2>3. Same(i)
    BY <1>7, <2>2 DEF ClientInv, Sent
  <2>4. CASE i = Current
    <3>1. i = k
      BY <1>3, <2>1, <2>4
    <3>2. /\ received'[i].method = received[i].method /\ received'[i].url = received[i].url
          /\ received'[i].headers = received[i].headers
      BY <2>2 DEF Kept
    <3> QED BY <1>1, <1>4, <2>3, <3>1, <3>2 DEF Same
  <2>5. CASE i # Current
    <3>1. i \in 1..(Current - 1)
      BY <1>3, <2>2, <2>5
    <3>2. received'[i] = received[i]
      BY <3>1 DEF Kept
    <3> QED BY <1>1, <2>3, <3>2 DEF Same
  <2> QED BY <2>4, <2>5
<1>8. Sent'
  BY <1>6, <1>7 DEF Sent
<1>9. Unharmed'
  BY <1>1, <1>2, <1>5 DEF Unharmed
<1>10. Punctual'
  <2>1. ASSUME PlainUpTo(Len(script)) PROVE Current >= Len(script) /\ Current' >= Len(script)
    <3>1. Current >= Len(script)
      BY <2>1 DEF ClientInv, Punctual
    <3> QED BY <1>3, <3>1
  <2>2. ASSUME PlainUpTo(Len(script)), NEW i \in 1..Len(script) PROVE headEnd[i] <= pos'
    <3>1. i <= Current
      BY <1>3, <2>1, <2>2
    <3>2. headEnd[i] <= pos /\ headEnd[i] \in Nat
      BY <1>1, <2>2, <3>1, HeadEndType DEF ClientInv, Punctual
    <3> QED BY <1>3, <3>2
  <2>3. ASSUME Orderly
        PROVE  Stopped' /\ \A j \in 1..(Len(script) - 1) : ~Closes(script[j])
    <3>1. Current >= Len(script) /\ Current' >= Len(script)
      BY <2>1, <2>3 DEF Orderly
    <3>2. \A j \in 1..(Len(script) - 1) : j < Current
      BY <1>3, <3>1
    <3> QED BY <1>1, <2>3, <3>1, <3>2 DEF ClientInv, Punctual, Stopped
  <2>4. (Orderly' <=> Orderly) /\ (PlainUpTo(Len(script))' <=> PlainUpTo(Len(script)))
    BY <1>1 DEF Orderly, PlainUpTo
  <2> QED BY <1>1, <2>1, <2>2, <2>3, <2>4 DEF Punctual
<1> QED BY <1>5, <1>8, <1>9, <1>10 DEF Holds

\* A step to a value goes behind its colon, and one in it not behind its end.
LEMMA ColonBehind ==
  ASSUME Inv, ClientInv, ~Lost, parser.errno = "OK", pos + 1 # garbled, pos < chunkEnd,
         UNCHANGED scriptVars, pos' = pos + 1,
         \/ Symbol = ":"
         \/ parser.state \in {"value_start", "value"} /\ Symbol # Eol
  PROVE  BehindColon'
<1>1. pos \in Nat /\ Written' = Written /\ Written[pos + 1] = Symbol
  <2>1. Fixed /\ script' = script
    BY DEF ClientInv, scriptVars
  <2>2. pos \in Nat /\ pos + 1 \in 1..Len(Written) /\ stream[pos + 1] = Written[pos + 1]
    BY <2>1, SomethingAhead, StreamFacts
  <2> QED BY <2>1, <2>2 DEF Written, Symbol
<1>2. CASE Symbol = ":"
  <2>1. pos + 1 \in 1..(pos + 1) /\ \A q \in (pos + 1)..(pos + 1) : q = pos + 1
    BY <1>1
  <2> QED BY <1>1, <1>2, <2>1, Separators DEF BehindColon
<1>3. CASE parser.state \in {"value_start", "value"} /\ Symbol # Eol
  <2>1. PICK k \in 1..pos : Written[k] = ":" /\ \A q \in k..pos : Written[q] # Eol
    BY <1>3 DEF ClientInv, Unharmed, BehindColon
  <2>2. k \in 1..(pos + 1) /\ \A q \in k..(pos + 1) : q \in k..pos \/ q = pos + 1
    BY <1>1
  <2> QED BY <1>1, <1>3, <2>1, <2>2 DEF BehindColon
<1> QED BY <1>2, <1>3

\* The steps that stay within a value, or come to one.
QuietParse ==
  \/ ReadMethod \/ ReadUrl \/ ReadFieldStart \/ ReadField
  \/ ReadEmptyValue \/ ReadValueStart \/ ReadContentLength
  \/ ReadLengthDigit \/ ReadValue \/ ReadValueEnd
  \/ ReadChunkSize \/ ReadChunkHeader \/ ReadChunkData \/ ReadDead

\* In a value the colon is behind.
LEMMA ToValue ==
  ASSUME Inv, QuietParse, parser'.errno = "OK", parser'.state \in {"value_start", "value"}
  PROVE  \/ Symbol = ":"
         \/ parser.state \in {"value_start", "value"} /\ Symbol # Eol
<1>1. parser \in Parser
  BY DEF Inv, TypeOK
<1>2. ASSUME NEW e \in Errors, Fail(e), e # "OK" PROVE FALSE
  BY <1>1, <1>2 DEF Fail, Parser
<1>3. ASSUME NEW p, NEW s, NEW m, p.state = s, s \notin {"value_start", "value"}, Read(p, m) PROVE FALSE
  BY <1>3 DEF Read
<1>4. CASE ReadValueStart \/ ReadContentLength \/ ReadLengthDigit \/ ReadValue
  BY <1>4 DEF ReadValueStart, ReadContentLength, ReadLengthDigit, ReadValue, In
<1>5. CASE ReadMethod
  <2>1. Begin(parser).state = "url_start"
    BY <1>1 DEF Begin, Parser
  <2> QED BY <1>2, <1>3, <1>5, <2>1 DEF ReadMethod, In, Errors
<1>6. CASE ReadUrl
  <2>1. \A v : [parser EXCEPT !.state = "field_start", !.version = v].state = "field_start"
    BY <1>1 DEF Parser
  <2>2. [parser EXCEPT !.state = "url"].state = "url"
    BY <1>1 DEF Parser
  <2> QED BY <1>2, <1>3, <1>6, <2>1, <2>2 DEF ReadUrl, Errors
<1>7. CASE ReadFieldStart
  <2>1. \A v : [parser EXCEPT !.state = "field", !.headerState = v].state = "field"
    BY <1>1 DEF Parser
  <2> QED BY <1>2, <1>3, <1>7, <2>1 DEF ReadFieldStart, Errors
<1>8. CASE ReadField
  <2>1. [parser EXCEPT !.headerState = "general"].state = parser.state /\ parser.state = "field"
    BY <1>1, <1>8 DEF Parser, ReadField, In
  <2> QED BY <1>2, <1>3, <1>8, <2>1 DEF ReadField, Errors
<1>9. CASE ReadEmptyValue
  <2>1. [parser EXCEPT !.state = "field_start"].state = "field_start"
    BY <1>1 DEF Parser
  <2> QED BY <1>3, <1>9, <2>1 DEF ReadEmptyValue
<1>10. CASE ReadValueEnd
  <2> PICK p : p = [parser EXCEPT !.state = "field_start",
                                  !.flags = @ \cup HeaderFlag(parser.headerState)]
    OBVIOUS
  <2>1. p.state = "field_start"
    BY <1>1 DEF Parser
  <2> QED BY <1>3, <1>10, <2>1 DEF ReadValueEnd
<1>11. CASE ReadChunkSize
  <2>1. \A n : [parser EXCEPT !.state = "chunk_size", !.contentLength = n].state = "chunk_size"
    BY <1>1 DEF Parser
  <2> QED BY <1>2, <1>3, <1>11, <2>1 DEF ReadChunkSize, Errors
<1>12. CASE ReadChunkHeader
  <2> PICK p : p = [parser EXCEPT !.state = "field_start", !.flags = @ \cup {"TRAILING"}]
    OBVIOUS
  <2>1. [parser EXCEPT !.state = "chunk_data"].state = "chunk_data" /\ p.state = "field_start"
    BY <1>1 DEF Parser
  <2> QED BY <1>3, <1>12, <2>1 DEF ReadChunkHeader
<1>13. CASE ReadChunkData
  <2> DEFINE s == IF parser.contentLength = 1 THEN "chunk_data_done" ELSE parser.state
             n == parser.contentLength - 1
  <2>1. s \notin {"value_start", "value"}
    BY <1>13 DEF ReadChunkData, In
  <2>2. Read([parser EXCEPT !.contentLength = n, !.state = s], Extend("body"))
    BY <1>13 DEF ReadChunkData
  <2> HIDE DEF s, n
  <2>3. [parser EXCEPT !.contentLength = n, !.state = s].state = s
    BY <1>1 DEF Parser
  <2> QED BY <1>3, <2>1, <2>2, <2>3
<1>14. CASE ReadDead
  <2>1. parser.state = "dead"
    BY <1>14 DEF ReadDead, In
  <2> QED BY <1>2, <1>3, <1>14, <2>1 DEF ReadDead, Errors
<1> QED BY <1>4, <1>5, <1>6, <1>7, <1>8, <1>9, <1>10, <1>11, <1>12, <1>13, <1>14 DEF QuietParse

\* These actions handle nothing, ...
LEMMA QuietParseQuiet == ASSUME Inv, Rest, QuietParse PROVE Quiet
BY FirstLineQuiet, FieldsQuiet, ChunksQuiet, DeadQuiet DEF QuietParse

\* ... lead where the parser should be, ...
LEMMA QuietParseArrives == ASSUME Parsing, Punctual, QuietParse PROVE Arrives
BY MethodRead, UrlRead, NameBegins, NameGoesOn, ValueIsEmpty, ValueStarts, LengthStarts,
   LengthGoesOn, ValueGoes, ValueEnds, ChunkSizeRead, ChunkHeaderRead, ChunkDataRead, DeadEnds
   DEF QuietParse

\* The symbol that was accepted was not garbled.
LEMMA ParsingBegins ==
  ASSUME Inv, ClientInv, Rest, UNCHANGED scriptVars, ~Lost, parser.errno = "OK",
         pos + 1 # garbled
  PROVE  Parsing
BY DEF Parsing, ClientInv

\* A byte that the parser accepts is not the garbled one.
LEMMA Accepted ==
  ASSUME Inv, ClientInv, parser.errno = "OK", Parse, parser'.errno = "OK"
  PROVE  pos + 1 # garbled
BY Detected DEF ClientInv

\* A byte that is garbled disturbs the order.
LEMMA GarbledIsNumber ==
  ASSUME Inv, ClientInv
  PROVE  pos + 1 = garbled => ~Orderly
<1>1. pos \in Nat
  BY StreamFacts DEF ClientInv
<1>2. pos + 1 # 0
  BY <1>1
<1> QED BY <1>2 DEF Orderly

\* ... and preserve the invariant.
LEMMA QuietParseHolds ==
  ASSUME Inv, ClientInv, Rest, UNCHANGED scriptVars, QuietParse
  PROVE  Holds'
<1>1. Quiet
  BY QuietParseQuiet
<1>2. parser.errno = "OK" /\ pos < chunkEnd /\ Parse
  BY DEF QuietParse, Parse, In, ReadMethod, ReadUrl, ReadFieldStart, ReadField,
         ReadEmptyValue, ReadValueStart, ReadContentLength, ReadLengthDigit, ReadValue,
         ReadValueEnd, ReadChunkSize, ReadChunkHeader, ReadChunkData, ReadDead
<1>3. CASE Lost
  <2>1. received' = received /\ Marked' /\ pos' \in Nat /\ pos' >= pos
    BY <1>1 DEF Quiet
  <2>2. Kept
    BY <2>1, SameKept
  <2> QED BY <1>3, <2>1, <2>2, LostHolds
<1>4. CASE ~Lost
  <2>1. Calm
    BY <1>1, QuietIsCalm DEF ClientInv
  <2>2. pos + 1 # garbled => Arrives
    BY <1>2, <1>4, ParsingBegins, QuietParseArrives DEF ClientInv
  <2>3. ASSUME parser'.errno = "OK"
        PROVE  /\ pos + 1 # garbled /\ Place'
               /\ parser'.state \in {"value_start", "value"} => BehindColon'
    <3>1. pos + 1 # garbled
      BY <1>2, <2>3, Accepted
    <3>2. Place'
      BY <2>2, <2>3, <3>1 DEF Arrives
    <3>3. pos' = pos + 1
      BY <1>1, <2>3 DEF Quiet
    <3>4. ASSUME parser'.state \in {"value_start", "value"} PROVE BehindColon'
      BY <1>2, <1>4, <2>3, <3>1, <3>3, <3>4, ToValue, ColonBehind
    <3> QED BY <3>1, <3>2, <3>4
  <2>4. ASSUME parser'.errno # "OK" PROVE ~Orderly \/ Stopped
    BY <2>2, <2>4, GarbledIsNumber DEF Arrives
  <2> QED BY <1>2, <1>4, <2>1, <2>3, <2>4, CalmHolds
<1> QED BY <1>3, <1>4

\* What the end of a message leaves, wherever the parser is.
LEMMA EndKeeps ==
  ASSUME Inv, Rest, pos < chunkEnd, InMessage(parser), NEW p \in Parser, p.errno = "OK",
         NEW bytes \in Text, EndMessage(p, bytes)
  PROVE  Marked' /\ Kept /\ pos' \in Nat /\ pos' >= pos /\ parser'.errno = "OK"
<1>1. pos \in Nat /\ chunkEnd \in Nat /\ pos < chunkEnd
  BY DEF Inv, TypeOK
<1>2. /\ received' = OnEnd(bytes) /\ parser' = [p EXCEPT !.state = NewMessage(p)]
      /\ mark' = NoMark /\ pos' \in {pos + 1, chunkEnd}
  BY DEF EndMessage, Leave
<1>3. Kept
  BY <1>2, BodyKept
<1>4. parser'.errno = "OK" /\ parser'.state \in {"start_req", "dead"}
  BY <1>2, NewMessageFacts DEF Parser
<1>5. pos' \in Nat /\ pos' >= pos
  BY <1>1, <1>2
<1>6. Marked'
  BY <1>2, <1>4, NoMarkType DEF Marked
<1> QED BY <1>3, <1>4, <1>5, <1>6

\* So do a body of known length, ...
LEMMA BodyHolds ==
  ASSUME Inv, ClientInv, Rest, UNCHANGED scriptVars, ReadBody
  PROVE  Holds'
<1>1. /\ parser.errno = "OK" /\ pos < chunkEnd /\ parser \in Parser /\ In({"body_identity"})
      /\ parser.state = "body_identity" /\ InMessage(parser) /\ Parse
  BY DEF ReadBody, In, Inv, TypeOK, InMessage, Parse
<1>2. CASE /\ parser.contentLength > 1 /\ channel' = channel
           /\ Read([parser EXCEPT !.contentLength = @ - 1], Extend("body"))
  <2>1. Quiet
    BY <1>1, <1>2, BodyQuiet
  <2>2. parser'.errno = "OK" /\ parser'.state = "body_identity"
    BY <1>1, <1>2 DEF Read, Parser
  <2>3. CASE Lost
    <3>1. received' = received /\ Marked' /\ pos' \in Nat /\ pos' >= pos
      BY <2>1 DEF Quiet
    <3>2. Kept
      BY <3>1, SameKept
    <3> QED BY <2>3, <3>1, <3>2, LostHolds
  <2>4. CASE ~Lost
    <3>1. Calm
      BY <2>1, QuietIsCalm DEF ClientInv
    <3>2. pos + 1 # garbled
      BY <1>1, <2>2, Accepted
    <3>3. Place'
      BY <1>1, <1>2, <2>2, <2>4, <3>2, ParsingBegins, BodyGoesOn DEF Arrives
    <3> QED BY <1>1, <2>2, <2>4, <3>1, <3>2, <3>3, CalmHolds
  <2> QED BY <2>3, <2>4
<1>3. CASE /\ parser.contentLength = 1
           /\ EndMessage([parser EXCEPT !.contentLength = 0], Extend("body").bytes)
  <2> PICK p : p = [parser EXCEPT !.contentLength = 0]
    OBVIOUS
  <2>1. p \in Parser /\ p.errno = "OK" /\ EndMessage(p, Extend("body").bytes)
    BY <1>1, <1>3, LengthAssumption DEF Parser
  <2>2. Extend("body").bytes \in Text
    BY <1>1, ExtendType DEF Inv, Parts
  <2>3. Marked' /\ Kept /\ pos' \in Nat /\ pos' >= pos /\ parser'.errno = "OK"
    BY <1>1, <2>1, <2>2, EndKeeps
  <2>4. CASE Lost
    BY <2>3, <2>4, LostHolds
  <2>5. CASE ~Lost
    <3>1. pos + 1 # garbled
      BY <1>1, <2>3, Accepted
    <3>2. Parsing /\ Sent /\ Unharmed /\ Punctual
      BY <1>1, <2>5, <3>1, ParsingBegins DEF ClientInv
    <3> QED BY <1>1, <1>3, <2>5, <3>2, BodyEnds
  <2> QED BY <2>4, <2>5
<1> QED BY <1>2, <1>3 DEF ReadBody

\* ... the end of a chunk of a body, ...
LEMMA ChunkEndHolds ==
  ASSUME Inv, ClientInv, Rest, UNCHANGED scriptVars, EndChunkData
  PROVE  Holds'
<1>1. /\ parser.errno = "OK" /\ pos < chunkEnd /\ parser \in Parser /\ pos \in Nat
      /\ parser.state = "chunk_data_done" /\ InMessage(parser) /\ Parse
  BY DEF EndChunkData, In, Inv, TypeOK, InMessage, Parse
<1>2. CASE Symbol = Eol
  <2>1. /\ pos' = pos + 1 /\ parser' = [parser EXCEPT !.state = "chunk_size_start"]
        /\ received' = IF mark.part = "body" THEN OnBody(mark.bytes) ELSE received
        /\ mark' = NoMark /\ channel' = channel
    BY <1>2 DEF EndChunkData
  <2>2. parser'.errno = "OK" /\ parser'.state = "chunk_size_start"
    BY <1>1, <2>1 DEF Parser
  <2>3. Kept /\ Current' = Current /\ ~received'[Current].ended
    BY <1>1, <2>1, BodyCopied
  <2>4. Marked' /\ pos' \in Nat /\ pos' >= pos
    <3>1. Marked'
      BY <2>1, <2>2, NoMarkType DEF Marked
    <3> QED BY <1>1, <2>1, <3>1
  <2>5. CASE Lost
    BY <2>3, <2>4, <2>5, LostHolds
  <2>6. CASE ~Lost
    <3>1. pos + 1 # garbled
      BY <1>1, <2>2, Accepted
    <3>2. Parsing
      BY <1>1, <2>6, <3>1, ParsingBegins
    <3>3. Place' /\ (PlainUpTo(Current) => IsPrefix(received'[Current].body, BodyOf(Open)))
      BY <3>2, ChunkEnds
    <3>4. Sent'
      BY <2>3, <3>3, SentKept DEF ClientInv
    <3>5. Calm
      <4>1. InMessage(parser') <=> InMessage(parser)
        BY <1>1, <2>2 DEF InMessage
      <4> QED BY <1>1, <2>1, <2>2, <2>3, <2>4, <3>4, <4>1 DEF Calm
    <3> QED BY <1>1, <2>2, <2>6, <3>1, <3>3, <3>5, CalmHolds
  <2> QED BY <2>5, <2>6
<1>3. CASE Symbol # Eol
  <2>1. Fail("STRICT")
    BY <1>3 DEF EndChunkData
  <2>2. Quiet
    BY <2>1, FailQuiet DEF Errors
  <2>3. CASE Lost
    <3>1. received' = received /\ Marked' /\ pos' \in Nat /\ pos' >= pos
      BY <2>2 DEF Quiet
    <3>2. Kept
      BY <3>1, SameKept
    <3> QED BY <2>3, <3>1, <3>2, LostHolds
  <2>4. CASE ~Lost
    <3>1. pos + 1 = garbled
      <4> SUFFICES ASSUME pos + 1 # garbled PROVE FALSE
        OBVIOUS
      <4>1. Parsing
        BY <1>1, <2>4, ParsingBegins
      <4> QED BY <1>3, <4>1, ChunkEnds
    <3>2. ~Orderly
      BY <3>1, GarbledIsNumber
    <3>3. "STRICT" \in Errors /\ "STRICT" # "OK"
      BY DEF Errors
    <3> QED BY <2>1, <3>2, <3>3, FailHolds
  <2> QED BY <2>3, <2>4
<1> QED BY <1>2, <1>3

\* ... the end of a trailer, ...
LEMMA TrailerHolds ==
  ASSUME Inv, ClientInv, Rest, UNCHANGED scriptVars, EndTrailer
  PROVE  Holds'
<1> DEFINE none == <<>>
<1>1. /\ parser.errno = "OK" /\ pos < chunkEnd /\ parser \in Parser
      /\ InMessage(parser) /\ Parse /\ EndMessage(parser, none)
  BY DEF EndTrailer, HeadEnds, In, Inv, TypeOK, InMessage, Parse
<1>2. none \in Text
  BY FlattenNone
<1> HIDE DEF none
<1>3. Marked' /\ Kept /\ pos' \in Nat /\ pos' >= pos /\ parser'.errno = "OK"
  BY <1>1, <1>2, EndKeeps
<1>4. CASE Lost
  BY <1>3, <1>4, LostHolds
<1>5. CASE ~Lost
  <2>1. pos + 1 # garbled
    BY <1>1, <1>3, Accepted
  <2>2. Parsing /\ Sent /\ Unharmed /\ Punctual
    BY <1>1, <1>5, <2>1, ParsingBegins DEF ClientInv
  <2> QED BY <1>5, <2>2, TrailerEnds
<1> QED BY <1>4, <1>5

\* What the end of a head leaves, wherever the parser is.
LEMMA HeadKept ==
  ASSUME Inv, Rest, pos < chunkEnd, parser.errno = "OK", CompleteHead
  PROVE  Marked' /\ Kept /\ pos' \in Nat /\ pos' >= pos /\ parser'.errno = "OK"
<1>1. /\ pos \in Nat /\ chunkEnd \in Nat /\ pos < chunkEnd /\ parser \in Parser
      /\ received \in Seq(Message) /\ Current = Len(received) /\ Current \in Nat
  BY DEF Inv, TypeOK, Current
<1> DEFINE upgrade == Upgrades(parser)
           ends == EndsAtOnce(parser)
           state == CASE ends -> NewMessage(parser)
                      [] ~ends /\ Chunked(parser) -> "chunk_size_start"
                      [] OTHER -> "body_identity"
<1>2. /\ parser' = [parser EXCEPT !.upgrade = upgrade, !.state = state]
      /\ mark' = NoMark /\ pos' \in {pos + 1, chunkEnd}
      /\ \E r : received' = Append(received, r)
  BY DEF CompleteHead, HasBody, EndsAtOnce, Leave
<1>3. state \notin {"url", "field", "value"}
  BY NewMessageFacts
<1> HIDE DEF state, ends, upgrade
<1>4. parser'.errno = "OK" /\ parser'.state = state
  BY <1>1, <1>2 DEF Parser
<1>5. Marked'
  BY <1>2, <1>3, <1>4, NoMarkType DEF Marked
<1>6. pos' \in Nat /\ pos' >= pos
  BY <1>1, <1>2
<1>7. Kept
  <2>1. PICK r : received' = Append(received, r)
    BY <1>2
  <2>2. Len(received') = Len(received) + 1 /\ \A i \in 1..Current : received'[i] = received[i]
    BY <1>1, <2>1
  <2>3. Current' = Current + 1 /\ Current' >= Current /\ Current' \in Nat
    BY <1>1, <2>2 DEF Current
  <2>4. \A i \in 1..(Current - 1) : i \in 1..Current
    BY <1>1
  <2> QED BY <2>2, <2>3, <2>4 DEF Kept
<1> QED BY <1>4, <1>5, <1>6, <1>7

\* ... the end of a head, ...
LEMMA HeadHolds ==
  ASSUME Inv, ClientInv, Rest, UNCHANGED scriptVars, EndHead
  PROVE  Holds'
<1>1. /\ parser.errno = "OK" /\ pos < chunkEnd /\ parser \in Parser /\ HeadEnds /\ ~Trailing
      /\ Symbol = Eol
  BY DEF EndHead, HeadEnds, In, Inv, TypeOK, Trailing
<1>2. pos + 1 # garbled
  <2> SUFFICES ASSUME pos + 1 = garbled PROVE FALSE
    OBVIOUS
  <2>1. garbled # 0 /\ stream[garbled] = Bad
    <3>1. pos \in Nat
      BY StreamFacts DEF ClientInv
    <3>2. pos + 1 # 0
      BY <3>1
    <3> QED BY <3>2, StreamFacts DEF ClientInv
  <2> QED BY <1>1, <2>1, Separators DEF Symbol
<1>3. ~Lost => Parsing /\ Sent /\ Unharmed /\ Punctual
  BY <1>1, <1>2, ParsingBegins DEF ClientInv
<1>4. CASE /\ ~({"CHUNKED", "CONTENTLENGTH"} \subseteq parser.flags)
           /\ CompleteHead
  <2>1. Marked' /\ Kept /\ pos' \in Nat /\ pos' >= pos /\ parser'.errno = "OK"
    BY <1>1, <1>4, HeadKept
  <2>2. CASE Lost
    BY <2>1, <2>2, LostHolds
  <2>3. CASE ~Lost
    <3>1. Sent' /\ Unharmed' /\ Punctual'
      BY <1>1, <1>3, <1>4, <2>3, HeadSent, HeadUnharmed, HeadPunctual
    <3>2. ASSUME ~Lost' PROVE Place'
      <4>1. Current' = Current + 1 /\ script' = script /\ Current \in Nat
        BY <1>1, <1>3, <1>4, <2>3, HeadReceived, HeadKnown
      <4>2. Current + 1 \in 1..Current'
        BY <4>1
      <4>3. ~Switches(Reading)
        BY <3>2, <4>1, <4>2 DEF Lost, Reading
      <4> QED BY <1>1, <1>3, <1>4, <2>3, <4>3, HeadPlace
    <3> QED BY <2>1, <3>1, <3>2 DEF Holds
  <2> QED BY <2>2, <2>3
<1>5. CASE /\ {"CHUNKED", "CONTENTLENGTH"} \subseteq parser.flags
           /\ Fail("UNEXPECTED_CONTENT_LENGTH")
  <2>1. Quiet
    BY <1>5, FailQuiet DEF Errors
  <2>2. CASE Lost
    <3>1. received' = received /\ Marked' /\ pos' \in Nat /\ pos' >= pos
      BY <2>1 DEF Quiet
    <3>2. Kept
      BY <3>1, SameKept
    <3> QED BY <2>2, <3>1, <3>2, LostHolds
  <2>3. CASE ~Lost
    <3>1. Refused(Reading) /\ Current < Len(script)
      BY <1>1, <1>3, <1>5, <2>3, HeadTells, HeadKnown
    <3>2. ~Orderly
      BY <3>1, RefusedStops DEF ClientInv
    <3>3. "UNEXPECTED_CONTENT_LENGTH" \in Errors /\ "UNEXPECTED_CONTENT_LENGTH" # "OK"
      BY DEF Errors
    <3> QED BY <1>5, <3>2, <3>3, FailHolds
  <2> QED BY <2>2, <2>3
<1> QED BY <1>4, <1>5 DEF EndHead

\* ... and all of the parser.
LEMMA WorkHolds ==
  ASSUME Inv, ClientInv, Rest, UNCHANGED scriptVars, Parse
  PROVE  Holds'
BY QuietParseHolds, BodyHolds, ChunkEndHolds, TrailerHolds, HeadHolds DEF Parse, QuietParse

-----------------------------------------------------------------------------
(* Chunks *)

\* What does not depend on the part that is marked.
LEMMA SameAhead ==
  ASSUME UNCHANGED scriptVars, parser' = parser, pos' = pos, Current' = Current
  PROVE  /\ script' = script /\ Ahead' = Ahead /\ Reading' = Reading /\ Open' = Open
         /\ (Trailing' <=> Trailing) /\ Fields' = Fields /\ Behind' = Behind
         /\ Later(script, Current)' = Later(script, Current) /\ HeadsFlags' = HeadsFlags
         /\ (InHead' <=> InHead) /\ (InOpen' <=> InOpen) /\ (LengthRead' <=> LengthRead)
         /\ \A i : PlainUpTo(i)' <=> PlainUpTo(i)
         /\ \A r : AfterMethod(r)' = AfterMethod(r)
         /\ \A j, r : AfterColon(j, r)' = AfterColon(j, r) /\ AfterName(j, r)' = AfterName(j, r)
         /\ \A j, f, v, b : Partial(j, f, v, b)' = Partial(j, f, v, b)
         /\ \A j : BodyUpto(j)' = BodyUpto(j) /\ HeadRead(j)' = HeadRead(j)
<1>1. script' = script /\ garbled' = garbled
  BY DEF scriptVars
<1>2. /\ Ahead' = Ahead /\ Reading' = Reading /\ Open' = Open
      /\ Later(script, Current)' = Later(script, Current)
      /\ (Trailing' <=> Trailing)
  BY <1>1 DEF Ahead, Written, Reading, Open, Trailing
<1>3. Fields' = Fields /\ Behind' = Behind /\ HeadsFlags' = HeadsFlags
  BY <1>1, <1>2 DEF Fields, Behind, HeadsFlags
<1>4. (InHead' <=> InHead) /\ (InOpen' <=> InOpen) /\ (LengthRead' <=> LengthRead)
  BY <1>1, <1>2 DEF InHead, InOpen, LengthRead
<1>5. \A i : PlainUpTo(i)' <=> PlainUpTo(i)
  BY <1>1 DEF PlainUpTo
<1>6. \A r : AfterMethod(r)' = AfterMethod(r)
  BY <1>1, <1>2 DEF AfterMethod
<1>7. \A j, r : AfterColon(j, r)' = AfterColon(j, r)
  BY <1>3 DEF AfterColon
<1>8. \A j, r : AfterName(j, r)' = AfterName(j, r)
  BY <1>3, <1>7 DEF AfterName
<1>9. \A j, f, v, b : Partial(j, f, v, b)' = Partial(j, f, v, b)
  BY <1>2 DEF Partial
<1>10. \A j : BodyUpto(j)' = BodyUpto(j) /\ HeadRead(j)' = HeadRead(j)
  BY <1>2 DEF BodyUpto, HeadRead, Partial
<1> QED BY <1>1, <1>2, <1>3, <1>4, <1>5, <1>6, <1>7, <1>8, <1>9, <1>10

\* The parser stays where it is when a part is only marked or passed on.
LEMMA PlaceStays ==
  ASSUME Inv, Place, UNCHANGED scriptVars, parser' = parser, pos' = pos, Current' = Current,
         mark' \in {mark, NoMark} \/ parser.state \in {"url", "field", "value"},
         parser.state \notin {"url", "field", "value"} => channel' = channel,
         parser.state \in {"body_identity", "chunk_data", "chunk_data_done"} => BodyRead' = BodyRead,
         parser.state \notin {"body_identity", "chunk_data", "chunk_data_done"} => received' = received,
         parser.state \in {"url", "field", "value"} /\ ~Trailing /\ PlainUpTo(Current + 1) =>
           Virtual' = Virtual
  PROVE  Place'
<1>1. /\ script' = script /\ Ahead' = Ahead /\ Reading' = Reading /\ Open' = Open
      /\ (Trailing' <=> Trailing) /\ Fields' = Fields /\ Behind' = Behind
      /\ Later(script, Current)' = Later(script, Current) /\ HeadsFlags' = HeadsFlags
      /\ (InHead' <=> InHead) /\ (InOpen' <=> InOpen) /\ (LengthRead' <=> LengthRead)
      /\ \A i : PlainUpTo(i)' <=> PlainUpTo(i)
      /\ \A r : AfterMethod(r)' = AfterMethod(r)
      /\ \A j, r : AfterColon(j, r)' = AfterColon(j, r) /\ AfterName(j, r)' = AfterName(j, r)
      /\ \A j, f, v, b : Partial(j, f, v, b)' = Partial(j, f, v, b)
      /\ \A j : BodyUpto(j)' = BodyUpto(j) /\ HeadRead(j)' = HeadRead(j)
  BY SameAhead
<1>2. CASE parser.state \in {"start_req", "dead"}
  <2>1. AtStart /\ mark' = NoMark /\ channel' = channel
    BY <1>2 DEF Place, AtStart
  <2>2. AtStart'
    BY <1>1, <2>1 DEF AtStart
  <2> QED BY <1>2, <2>2 DEF Place
<1>3. CASE parser.state \in {"url_start", "url"}
  <2>1. PICK r \in Nat : AtUrl(r)
    BY <1>3 DEF Place
  <2>2. parser.state = "url_start" => mark' = NoMark /\ mark = NoMark /\ channel' = channel
    BY <2>1 DEF AtUrl
  <2>3. ASSUME PlainUpTo(Current + 1) PROVE Virtual' = Virtual
    <3>1. ~Trailing
      BY <1>3 DEF Inv, ParserInv, Trailing
    <3>2. parser.state = "url_start" => Virtual' = Virtual
      BY <2>2 DEF Virtual, HeadAfter, NoMark
    <3> QED BY <1>3, <2>3, <3>1, <3>2
  <2>4. AtUrl(r)'
    BY <1>1, <2>1, <2>2, <2>3 DEF AtUrl
  <2> QED BY <1>3, <2>4 DEF Place
<1>4. ASSUME parser.state \in FieldStates, InSection, mark = NoMark => channel' = channel,
             Trailing /\ Open.trailer = <<>> => channel' = channel
      PROVE  InSection'
  <2>1. received' = received
    BY <1>4 DEF FieldStates
  <2>2. InTrailer /\ Trailing => InTrailer'
    BY <1>1, <1>4, <2>1 DEF InTrailer
  <2> QED BY <1>1, <1>4, <2>2 DEF InSection
<1>5. CASE parser.state = "field_start"
  <2>1. PICK j \in Nat : AtLine(j)
    BY <1>5 DEF Place
  <2>2. channel' = channel /\ mark' = NoMark /\ InSection
    BY <1>5, <2>1 DEF AtLine
  <2>3. InSection'
    BY <1>4, <1>5, <2>2 DEF FieldStates
  <2>4. AtLine(j)'
    <3>1. Lines(Fields, j, Behind)' = Lines(Fields, j, Behind)
      BY <1>1
    <3>2. HeadRead(j)' = HeadRead(j)
      BY <1>1
    <3> QED BY <1>1, <2>1, <2>2, <2>3, <3>1, <3>2 DEF AtLine
  <2> QED BY <1>5, <2>4 DEF Place
<1>6. ASSUME parser.state = "field", NEW j, NEW r, AtName(j, r)
      PROVE  AtName(j, r)'
  <2>1. InSection'
    <3>1. InSection /\ j \in 1..Len(Fields)
      BY <1>6 DEF AtName
    <3>2. Trailing => Open.trailer # <<>>
      BY <3>1 DEF Fields
    <3>3. InSection' <=> InSection
      <4>1. received' = received
        BY <1>6
      <4>2. Trailing => (InTrailer' <=> InTrailer)
        BY <1>1, <3>2, <4>1 DEF InTrailer
      <4> QED BY <1>1, <4>2 DEF InSection
    <3> QED BY <3>1, <3>3
  <2>2. /\ AfterName(j, r)' = AfterName(j, r) /\ Fields' = Fields
        /\ Partial(j - 1, Upto(Fields[j].name, r), <<>>, FALSE)' =
             Partial(j - 1, Upto(Fields[j].name, r), <<>>, FALSE)
    BY <1>1 DEF Partial
  <2>3. ~Trailing /\ PlainUpTo(Current + 1) => Virtual' = Virtual
    BY <1>6
  <2> QED BY <1>1, <1>6, <2>1, <2>2, <2>3 DEF AtName
<1>7. CASE parser.state = "value_start"
  <2>1. PICK j \in Nat : AtColon(j)
    BY <1>7 DEF Place
  <2>2. channel' = channel /\ mark' = NoMark /\ InSection
    BY <1>7, <2>1 DEF AtColon
  <2>3. InSection'
    BY <1>4, <1>7, <2>2 DEF FieldStates
  <2>4. AtColon(j)'
    <3>1. /\ AfterColon(j, 0)' = AfterColon(j, 0) /\ Fields' = Fields
          /\ Partial(j - 1, Fields[j].name, <<>>, FALSE)' =
               Partial(j - 1, Fields[j].name, <<>>, FALSE)
      BY <1>1 DEF Partial
    <3> QED BY <1>1, <2>1, <2>2, <2>3, <3>1 DEF AtColon
  <2> QED BY <1>7, <2>4 DEF Place
<1>8. ASSUME parser.state = "value", NEW j, NEW r, AtValue(j, r)
      PROVE  AtValue(j, r)'
  <2>1. InSection'
    <3>1. InSection /\ j \in 1..Len(Fields)
      BY <1>8 DEF AtValue
    <3>2. Trailing => Open.trailer # <<>>
      BY <3>1 DEF Fields
    <3>3. InSection' <=> InSection
      <4>1. received' = received
        BY <1>8
      <4>2. Trailing => (InTrailer' <=> InTrailer)
        BY <1>1, <3>2, <4>1 DEF InTrailer
      <4> QED BY <1>1, <4>2 DEF InSection
    <3> QED BY <3>1, <3>3
  <2>2. /\ AfterColon(j, r)' = AfterColon(j, r) /\ Fields' = Fields
        /\ Partial(j - 1, Fields[j].name, Upto(Fields[j].value, r), TRUE)' =
             Partial(j - 1, Fields[j].name, Upto(Fields[j].value, r), TRUE)
    BY <1>1 DEF Partial
  <2>3. ~Trailing /\ PlainUpTo(Current + 1) => Virtual' = Virtual
    BY <1>8
  <2> QED BY <1>1, <1>8, <2>1, <2>2, <2>3 DEF AtValue
<1>9. ASSUME InBody, channel' = channel PROVE InBody'
  BY <1>1, <1>9 DEF InBody
<1>10. CASE parser.state = "body_identity"
  <2>1. PICK r \in Nat : AtBody(r)
    BY <1>10 DEF Place
  <2>2. InBody'
    BY <1>9, <1>10, <2>1 DEF AtBody
  <2>3. AtBody(r)'
    BY <1>1, <1>10, <2>1, <2>2 DEF AtBody
  <2> QED BY <1>10, <2>3 DEF Place
<1>11. ASSUME NEW j, InChunks(j), channel' = channel
       PROVE  InChunks(j)' /\ ChunkLines(Open, j, Later(script, Current))' =
                                ChunkLines(Open, j, Later(script, Current))
              /\ ChunkLines(Open, j + 1, Later(script, Current))' =
                                ChunkLines(Open, j + 1, Later(script, Current))
              /\ Lines(Open.trailer, 0, Later(script, Current))' =
                                Lines(Open.trailer, 0, Later(script, Current))
  BY <1>1, <1>9, <1>11 DEF InChunks
<1>12. CASE parser.state = "chunk_size_start"
  <2>1. PICK j \in Nat : AtChunk(j)
    BY <1>12 DEF Place
  <2>2. channel' = channel /\ mark' = NoMark /\ received' = received /\ InChunks(j)
    BY <1>12, <2>1 DEF AtChunk
  <2>3. AtChunk(j)'
    BY <1>1, <1>11, <2>1, <2>2 DEF AtChunk
  <2> QED BY <1>12, <2>3 DEF Place
<1>13. CASE parser.state = "chunk_size"
  <2>1. PICK j \in Nat : AtChunkSize(j)
    BY <1>13 DEF Place
  <2>2. channel' = channel /\ mark' = NoMark /\ received' = received /\ InChunks(j)
    BY <1>13, <2>1 DEF AtChunkSize
  <2>3. AtChunkSize(j)'
    BY <1>1, <1>11, <2>1, <2>2 DEF AtChunkSize
  <2> QED BY <1>13, <2>3 DEF Place
<1>14. ASSUME parser.state \in {"chunk_data", "chunk_data_done"}, NEW j, NEW r, AtChunkData(j, r)
       PROVE  AtChunkData(j, r)'
  <2>1. InChunks(j) /\ channel' = channel /\ BodyRead' = BodyRead
    BY <1>14 DEF AtChunkData
  <2>2. BodyUpto(j - 1)' = BodyUpto(j - 1)
    BY <1>1
  <2> QED BY <1>1, <1>11, <1>14, <2>1, <2>2 DEF AtChunkData
<1>15. parser.state \in States
  BY DEF Inv, TypeOK, Parser
<1>16. CASE parser.state = "field"
  BY <1>6, <1>16 DEF Place
<1>17. CASE parser.state = "value"
  BY <1>8, <1>17 DEF Place
<1>18. CASE parser.state \in {"chunk_data", "chunk_data_done"}
  BY <1>14, <1>18 DEF Place
<1> QED BY <1>2, <1>3, <1>5, <1>7, <1>10, <1>12, <1>13, <1>15, <1>16, <1>17, <1>18 DEF States

\* A piece that was left unfinished is marked again; nothing else changes.
LEMMA DataHolds ==
  ASSUME Inv, ClientInv, OnData, UNCHANGED scriptVars
  PROVE  Holds'
<1>1. /\ script' = script /\ garbled' = garbled /\ headEnd' = headEnd /\ parser' = parser
      /\ received' = received /\ channel' = channel
      /\ pos \in Nat /\ chunkEnd \in Nat /\ pos = chunkEnd /\ mark = NoMark
      /\ Fixed
  BY StreamFacts DEF OnData, Resume, scriptVars, ClientInv, Handling
<1>2. PICK n \in (chunkEnd + 1)..Len(stream) : chunkEnd' = n
  BY DEF OnData
<1>3. chunkEnd' \in Nat /\ chunkEnd' > pos
  <2>1. Len(stream) \in Nat
    BY DEF Inv, TypeOK
  <2> QED BY <1>1, <1>2, <2>1
<1>4. IF parser.errno # "OK"
        THEN pos' = chunkEnd' /\ mark' = NoMark
        ELSE /\ pos' = pos
             /\ mark' = IF parser.state \in {"url", "field", "value"}
                          THEN [part |-> parser.state, bytes |-> <<>>] ELSE NoMark
  BY <1>1 DEF OnData
<1>5. Current' = Current /\ pos' \in Nat /\ pos' >= pos
  BY <1>1, <1>3, <1>4 DEF Current
<1>6. /\ mark'.bytes = <<>>
      /\ mark' = NoMark \/ mark'.part = parser.state
      /\ mark'.part = "none" => mark' = NoMark
      /\ mark'.part # "body"
      /\ parser.state \in {"url", "field", "value"} /\ parser.errno = "OK" => mark'.part = parser.state
      /\ parser.state \notin {"url", "field", "value"} \/ parser.errno # "OK" => mark' = NoMark
  <2>1. NoMark.bytes = <<>> /\ NoMark.part = "none"
    BY DEF NoMark
  <2>2. \A s : [part |-> s, bytes |-> <<>>].part = s /\ [part |-> s, bytes |-> <<>>].bytes = <<>>
    OBVIOUS
  <2>3. mark' = NoMark \/ (parser.state \in {"url", "field", "value"} /\ parser.errno = "OK"
                           /\ mark' = [part |-> parser.state, bytes |-> <<>>])
    BY <1>4
  <2>4. CASE mark' = NoMark
    <3>1. ~(parser.state \in {"url", "field", "value"} /\ parser.errno = "OK")
      <4> SUFFICES ASSUME parser.state \in {"url", "field", "value"}, parser.errno = "OK" PROVE FALSE
        OBVIOUS
      <4>1. mark' = [part |-> parser.state, bytes |-> <<>>]
        BY <1>4
      <4> QED BY <2>1, <2>2, <2>4, <4>1
    <3> QED BY <2>1, <2>4, <3>1
  <2>5. CASE parser.state \in {"url", "field", "value"} /\ parser.errno = "OK"
             /\ mark' = [part |-> parser.state, bytes |-> <<>>]
    BY <2>2, <2>5
  <2> QED BY <2>3, <2>4, <2>5
<1>7. Marked'
  BY <1>1, <1>6, NoMarkType DEF Marked
<1>8. CASE Lost
  <2>1. Kept
    BY <1>1, SameKept
  <2> QED BY <1>5, <1>7, <1>8, <2>1, LostHolds
<1>9. CASE ~Lost
  <2>1. Lost' <=> Lost
    BY <1>1, <1>5 DEF Lost
  <2>2. Sent'
    BY <1>1, <1>5 DEF ClientInv, Sent, Same, PlainUpTo
  <2>3. parser.errno = "OK" => pos' = pos
    BY <1>4
  <2>4. Unharmed'
    <3>1. BehindColon /\ pos' = pos => BehindColon'
      BY <1>1 DEF BehindColon, Written
    <3> QED BY <1>1, <1>5, <2>1, <2>3, <3>1 DEF ClientInv, Unharmed
  <2>5. Punctual'
    <3>1. /\ (Orderly' <=> Orderly) /\ (Stopped' <=> Stopped)
          /\ (PlainUpTo(Len(script)) =>
                /\ Lost => Current >= Len(script)
                /\ \A i \in 1..Len(script) : i <= Current => headEnd[i] <= pos)'
          /\ (Orderly => \A j \in 1..(Len(script) - 1) : j < Current => ~Closes(script[j]))'
      BY <1>1, <1>5, HeadsPunctual DEF ClientInv
    <3>2. (Orderly =>
             /\ parser.errno # "OK" \/ parser.state = "dead" => Stopped
             /\ parser.errno = "OK" /\ ~InMessage(parser) /\ parser.state # "dead" =>
                  \A j \in 1..(Len(script) - 1) : j <= Current => ~Closes(script[j]))'
      BY <1>1, <1>5, <3>1 DEF ClientInv, Punctual
    <3> QED BY <3>1, <3>2, Zenon DEF Punctual
  <2>6. ASSUME parser.errno = "OK" PROVE Place'
    <3>1. Place
      BY <1>9, <2>6 DEF ClientInv
    <3>2. ASSUME parser.state \in {"url", "field", "value"}, ~Trailing, PlainUpTo(Current + 1)
          PROVE  Virtual' = Virtual
      <4>1. mark'.part = parser.state /\ channel \in HeadParts
        BY <1>6, <2>6, <3>2 DEF Inv, TypeOK
      <4>2. Virtual = channel
        BY <1>1, NoMarkType DEF Virtual, HeadAfter
      <4> DEFINE none == <<>>
      <4>3. Virtual' = CASE parser.state = "url"   -> OnUrl(channel, none)
                         [] parser.state = "field" -> OnHeaderField(channel, none)
                         [] parser.state = "value" -> OnHeaderValue(channel, none)
        <5>1. mark'.bytes = none /\ channel' = channel
          BY <1>1, <1>6
        <5> HIDE DEF none
        <5> QED BY <3>2, <4>1, <5>1 DEF Virtual, HeadAfter
      <4>4. none \in Text /\ ":" \in Symbols
        BY FlattenNone, Separators
      <4>5. /\ OnUrl(channel, <<>>) = channel
            /\ OnHeaderField(channel, <<>>) = MoveHeader(channel)
            /\ channel.valueValid => OnHeaderValue(channel, <<>>) = channel
        BY <4>1, <4>4, UrlGrows, FieldGrows, ValueGrows
      <4> HIDE DEF none
      <4>6. CASE parser.state = "url"
        BY <4>2, <4>3, <4>5, <4>6 DEF none
      <4>7. CASE parser.state = "field"
        <5>1. PICK j \in Nat, r \in Nat : AtName(j, r)
          BY <3>1, <4>7 DEF Place
        <5>2. channel = Partial(j - 1, Upto(Fields[j].name, r), <<>>, FALSE)
          BY <3>2, <4>2, <5>1 DEF AtName
        <5>3. MoveHeader(channel) = channel
          BY <5>2, NothingStored DEF Partial
        <5> QED BY <4>2, <4>3, <4>5, <4>7, <5>3 DEF none
      <4>8. CASE parser.state = "value"
        <5>1. PICK j \in Nat, r \in Nat : AtValue(j, r)
          BY <3>1, <4>8 DEF Place
        <5>2. channel = Partial(j - 1, Fields[j].name, Upto(Fields[j].value, r), TRUE)
          BY <3>2, <4>2, <5>1 DEF AtValue
        <5>3. channel.valueValid
          BY <5>2 DEF Partial, Gathered
        <5> QED BY <4>2, <4>3, <4>5, <4>8, <5>3 DEF none
      <4> QED BY <3>2, <4>6, <4>7, <4>8
    <3>3. pos' = pos /\ UNCHANGED scriptVars
      BY <2>3, <2>6
    <3>4. mark' = NoMark \/ parser.state \in {"url", "field", "value"}
      BY <1>6
    <3>5. parser.state \notin {"url", "field", "value"} => BodyRead' = BodyRead
      BY <1>1, <1>5, <1>6 DEF BodyRead
    <3> QED BY <1>1, <1>5, <3>1, <3>2, <3>3, <3>4, <3>5, PlaceStays
  <2> QED BY <1>1, <1>7, <2>1, <2>2, <2>4, <2>5, <2>6 DEF Holds
<1> QED BY <1>8, <1>9

\* The bytes read of a body are a prefix of it.
LEMMA BodyIsPrefix ==
  ASSUME Inv, Fixed, Place, parser.state \in {"body_identity", "chunk_data", "chunk_data_done"},
         PlainUpTo(Current)
  PROVE  IsPrefix(BodyRead, BodyOf(Open))
<1>1. CASE parser.state = "body_identity"
  <2>1. PICK r \in Nat : AtBody(r)
    BY <1>1 DEF Place
  <2> PICK d : d = Open.body
    OBVIOUS
  <2>2. /\ InOpen /\ Open.chunks = <<>> /\ r \in 0..(Len(d) - 1) /\ BodyRead = Upto(d, r)
    BY <2>1 DEF AtBody, InBody
  <2>3. Current \in 1..Len(script) /\ BodyOf(Open) = d
    BY <2>2 DEF InOpen, BodyOf
  <2>4. d \in Text
    BY <2>3, OpenFacts, ProperParts
  <2>5. r \in 0..Len(d)
    <3>1. Len(d) \in Nat
      BY <2>4 DEF Text
    <3> QED BY <2>2, <3>1
  <2>6. Upto(d, r) \in Text /\ From(d, r) \in Text /\ Upto(d, r) \o From(d, r) = d
    BY <2>4, <2>5, Pieces, Whole DEF Text
  <2> PICK u, v : u = Upto(d, r) /\ v = From(d, r)
    OBVIOUS
  <2>7. IsPrefix(u, u \o v)
    BY <2>6, PrefixOf
  <2> QED BY <2>2, <2>3, <2>6, <2>7
<1>2. CASE parser.state \in {"chunk_data", "chunk_data_done"}
  <2>1. PICK j \in Nat, r \in Nat : AtChunkData(j, r)
    BY <1>2 DEF Place
  <2> PICK d : d = Open.chunks[j]
    OBVIOUS
  <2> PICK c : c = Open.chunks
    OBVIOUS
  <2>2. /\ InChunks(j) /\ c # <<>> /\ j \in 0..Len(c) /\ j >= 1 /\ r \in 0..Len(d)
        /\ BodyRead = BodyUpto(j - 1) \o Upto(d, r)
    BY <2>1 DEF AtChunkData, InChunks
  <2>3. c \in Seq(Text) /\ Len(c) \in Nat
    BY <2>2, ChunksFacts
  <2>4. j \in 1..Len(c) /\ j - 1 \in 0..Len(c)
    BY <2>2, <2>3
  <2>5. d \in Text
    BY <2>2, <2>4, ChunksFacts
  <2>6. PICK b \in Text, u \in Text, v \in Text, w \in Text :
           /\ b = FlattenSeq(Upto(c, j - 1)) /\ u = Upto(d, r) /\ v = From(d, r)
           /\ w = FlattenSeq(From(c, j))
    <3>1. FlattenSeq(Upto(c, j - 1)) \in Text
      BY <2>3, <2>4, FlattenPrefix
    <3>2. From(c, j) \in Seq(Text)
      BY <2>2, <2>3, Pieces
    <3>3. FlattenSeq(From(c, j)) \in Text
      BY <3>2, FlattenType
    <3>4. Upto(d, r) \in Text /\ From(d, r) \in Text
      BY <2>2, <2>5, Pieces DEF Text
    <3> QED BY <3>1, <3>3, <3>4
  <2>7. FlattenSeq(Upto(c, j)) = b \o (u \o v)
    <3>1. FlattenSeq(Upto(c, j)) = b \o d
      <4>1. \A i \in 0..Len(c) : i > 0 =>
              FlattenSeq(Upto(c, i)) = FlattenSeq(Upto(c, i - 1)) \o c[i]
        BY <2>3, FlattenPrefix
      <4>2. j \in 0..Len(c) /\ j > 0 /\ d = c[j]
        BY <2>2
      <4> QED BY <2>6, <4>1, <4>2
    <3>2. u \o v = d
      BY <2>2, <2>5, <2>6, Whole DEF Text
    <3> QED BY <3>1, <3>2
  <2>8. BodyOf(Open) = (b \o (u \o v)) \o w
    <3>1. FlattenSeq(Upto(c, j)) \o w = FlattenSeq(c)
      BY <2>2, <2>3, <2>6, FlattenWhole
    <3>2. BodyOf(Open) = FlattenSeq(c)
      BY <2>2 DEF BodyOf
    <3> QED BY <2>7, <3>1, <3>2
  <2>9. (b \o (u \o v)) \o w = (b \o u) \o (v \o w)
    <3>1. b \o (u \o v) = (b \o u) \o v
      BY Regroup
    <3>2. b \o u \in Text
      BY Together
    <3> PICK x \in Text : x = b \o u
      BY <3>2
    <3>3. (x \o v) \o w = x \o (v \o w)
      BY Regroup
    <3> QED BY <3>1, <3>3
  <2>10. BodyRead = b \o u
    BY <2>2, <2>6 DEF BodyUpto
  <2>11. b \o u \in Text /\ v \o w \in Text
    BY Together
  <2>12. IsPrefix(b \o u, (b \o u) \o (v \o w))
    BY <2>11, PrefixOf
  <2> QED BY <2>8, <2>9, <2>10, <2>12
<1> QED BY <1>1, <1>2

\* What is marked is passed on at the end of a chunk.
LEMMA ChunkHolds ==
  ASSUME Inv, ClientInv, EndOfChunk, UNCHANGED scriptVars
  PROVE  Holds'
<1>1. /\ script' = script /\ garbled' = garbled /\ headEnd' = headEnd /\ parser' = parser
      /\ pos' = pos /\ pos \in Nat /\ mark' = NoMark /\ mark # NoMark
      /\ received' = IF mark.part = "body" THEN OnBody(mark.bytes) ELSE received
      /\ channel' = HeadAfter(mark.part, mark.bytes) /\ Fixed
  BY StreamFacts DEF EndOfChunk, scriptVars, ClientInv
<1>2. /\ mark.part \in {"url", "field", "value", "body"} /\ parser.errno = "OK"
      /\ mark.part \in {"url", "field", "value"} => parser.state = mark.part
      /\ mark.part = "body" =>
           parser.state \in {"body_identity", "chunk_data", "chunk_data_done"}
  <2>1. mark.part \in {"none", "url", "field", "value", "body"}
    BY DEF Inv, TypeOK, Mark
  <2> QED BY <1>1, <2>1 DEF ClientInv, Marked, Inv, ParserInv
<1>3. Marked'
  <2>1. pos = chunkEnd /\ chunkEnd' = chunkEnd
    BY DEF EndOfChunk
  <2>2. ~(pos < chunkEnd)'
    BY <1>1, <2>1
  <2> QED BY <1>1, <2>2, NoMarkType DEF Marked
<1>4. /\ Kept /\ Current' = Current
      /\ mark.part # "body" => received' = received
      /\ mark.part = "body" =>
           /\ received'[Current].body = BodyRead /\ ~received'[Current].ended
           /\ BodyRead' = BodyRead
  <2>1. CASE mark.part = "body"
    <3>1. InMessage(parser)
      BY <1>2, <2>1 DEF InMessage
    <3>2. /\ Kept /\ Current' = Current /\ BodyRead \in Text
          /\ received'[Current].body = BodyRead /\ ~received'[Current].ended
      BY <1>1, <3>1, BodyCopied
    <3>3. BodyRead' = BodyRead
      <4>1. BodyRead' = received'[Current].body \o <<>>
        BY <1>1, <3>2, NoMarkType DEF BodyRead
      <4> QED BY <3>2, <4>1, Together
    <3> QED BY <2>1, <3>2, <3>3
  <2>2. CASE mark.part # "body"
    <3>1. received' = received
      BY <1>1, <2>2
    <3> QED BY <2>2, <3>1, SameKept DEF Current
  <2> QED BY <2>1, <2>2
<1>5. CASE Lost
  BY <1>1, <1>3, <1>4, <1>5, LostHolds
<1>6. CASE ~Lost
  <2>1. Lost' <=> Lost
    BY <1>1, <1>4 DEF Lost
  <2>2. Place
    BY <1>2, <1>6 DEF ClientInv
  <2>3. Sent'
    <3>1. CASE mark.part = "body"
      <4>1. PlainUpTo(Current) => IsPrefix(BodyRead, BodyOf(Open))
        BY <1>1, <1>2, <2>2, <3>1, BodyIsPrefix
      <4> QED BY <1>4, <3>1, <4>1, SentKept DEF ClientInv
    <3>2. CASE mark.part # "body"
      BY <1>1, <1>4, <3>2 DEF ClientInv, Sent, Same, PlainUpTo
    <3> QED BY <3>1, <3>2
  <2>4. Unharmed'
    <3>1. BehindColon => BehindColon'
      BY <1>1 DEF BehindColon, Written
    <3> QED BY <1>1, <1>4, <2>1, <3>1 DEF ClientInv, Unharmed
  <2>5. Punctual'
    <3>1. /\ (Orderly' <=> Orderly) /\ (Stopped' <=> Stopped)
          /\ (PlainUpTo(Len(script)) =>
                /\ Lost => Current >= Len(script)
                /\ \A i \in 1..Len(script) : i <= Current => headEnd[i] <= pos)'
          /\ (Orderly => \A j \in 1..(Len(script) - 1) : j < Current => ~Closes(script[j]))'
      BY <1>1, <1>4, HeadsPunctual DEF ClientInv
    <3>2. (Orderly =>
             /\ parser.errno # "OK" \/ parser.state = "dead" => Stopped
             /\ parser.errno = "OK" /\ ~InMessage(parser) /\ parser.state # "dead" =>
                  \A j \in 1..(Len(script) - 1) : j <= Current => ~Closes(script[j]))'
      BY <1>1, <1>4, <3>1 DEF ClientInv, Punctual
    <3> QED BY <3>1, <3>2, Zenon DEF Punctual
  <2>6. Place'
    <3>1. Virtual' = Virtual
      <4>1. mark'.part \notin {"url", "field", "value"}
        BY <1>1 DEF NoMark
      <4>3. Virtual' = channel'
        BY <4>1 DEF Virtual, HeadAfter
      <4> QED BY <1>1, <4>3 DEF Virtual
    <3>2. mark.part = "body" => channel' = channel
      BY <1>1 DEF HeadAfter
    <3> QED BY <1>1, <1>2, <1>4, <2>2, <3>1, <3>2, PlaceStays
  <2> QED BY <1>3, <2>1, <2>3, <2>4, <2>5, <2>6 DEF Holds
<1> QED BY <1>5, <1>6

-----------------------------------------------------------------------------
(* The end of the next head is still ahead *)

\* t is longer than n symbols, and so is what ends with t.
Long(t, n) == t \in Text /\ Len(t) > n

\* A longer text stays longer with more in front of it.
LEMMA LongerStill ==
  ASSUME NEW n \in Nat, NEW t, Long(t, n)
  PROVE  /\ \A u \in Text : Long(u \o t, n)
         /\ \A s \in Symbols : Long(<<s>> \o t, n)
<1>1. ASSUME NEW u \in Text PROVE Long(u \o t, n)
  <2>1. u \o t \in Text /\ Len(u \o t) = Len(u) + Len(t) /\ Len(u) \in Nat /\ Len(t) \in Nat
    BY Together DEF Long, Text
  <2> QED BY <2>1 DEF Long
<1>2. \A s \in Symbols : <<s>> \in Text
  BY Vocabulary
<1> QED BY <1>1, <1>2

\* Lines of headers are longer than what is behind them, ...
LEMMA LongLines ==
  ASSUME NEW n \in Nat, NEW headers \in Seq(Field), NEW rest \in Text, Len(rest) >= n,
         NEW j \in 0..Len(headers)
  PROVE  Long(Lines(headers, j, rest), n)
<1>1. Lines(headers, j, rest) \in Text /\ Len(Lines(headers, j, rest)) > Len(rest)
  BY LinesUnfold
<1>2. Len(Lines(headers, j, rest)) \in Nat /\ Len(rest) \in Nat
  BY <1>1 DEF Text
<1> QED BY <1>1, <1>2 DEF Long

\* ... and so are those of chunks.
LEMMA LongChunks ==
  ASSUME NEW n \in Nat, NEW m, Sound(m), NEW rest \in Text, Len(rest) >= n,
         NEW j \in 0..Len(m.chunks)
  PROVE  Long(ChunkLines(m, j, rest), n)
<1>1. ChunkTexts(m) \in Seq(Text) /\ j \in 0..Len(ChunkTexts(m)) /\ m.trailer \in Seq(Field)
  BY ChunkTextsType DEF Sound, Request
<1>2. From(ChunkTexts(m), j) \in Seq(Text)
  BY <1>1, Pieces
<1> PICK u : u = FlattenSeq(From(ChunkTexts(m), j))
  OBVIOUS
<1>3. u \in Text
  BY <1>2, FlattenType
<1> PICK l : l = Lines(m.trailer, 0, rest)
  OBVIOUS
<1>4. Long(l, n)
  <2>1. 0 \in 0..Len(m.trailer)
    BY <1>1
  <2> QED BY <1>1, <2>1, LongLines
<1>5. Long(<<Eol>> \o l, n)
  BY <1>4, LongerStill, Separators
<1>6. Long(<<"0">> \o (<<Eol>> \o l), n)
  BY <1>5, LongerStill, Vocabulary
<1>7. Long(u \o (<<"0">> \o (<<Eol>> \o l)), n)
  BY <1>3, <1>6, LongerStill
<1> QED BY <1>7 DEF ChunkLines

\* As long as the parser is where it should be, the next message's head is not
\* complete.
LEMMA HeadAhead ==
  ASSUME Inv, Fixed, Place, Current < Len(script)
  PROVE  Long(Ahead, Len(Content(Reading) \o Later(script, Current + 1)))
<1> PICK rest : rest = Content(Reading) \o Later(script, Current + 1)
  OBVIOUS
<1> PICK n : n = Len(rest)
  OBVIOUS
<1>1. /\ rest \in Text /\ n \in Nat /\ Len(rest) >= n /\ Proper(Reading)
      /\ Reading.method \in Symbols /\ Reading.version \in Symbols /\ Reading.url \in Text
      /\ Reading.headers \in Seq(Field) /\ 0 \in 0..Len(Reading.headers)
      /\ Later(script, Current) =
           <<Reading.method>> \o (Reading.url \o (<<Reading.version>> \o
              Lines(Reading.headers, 0, rest)))
  <2>1. /\ rest \in Text /\ Proper(Reading)
        /\ Later(script, Current) =
             <<Reading.method>> \o (Reading.url \o (<<Reading.version>> \o
                Lines(Reading.headers, 0, rest)))
    BY ReadingFacts
  <2>2. n \in Nat
    BY <2>1 DEF Text
  <2>3. /\ Reading.method \in Symbols /\ Reading.version \in Symbols /\ Reading.url \in Text
        /\ Reading.headers \in Seq(Field)
    BY <2>1, ProperParts, Vocabulary
  <2> QED BY <2>1, <2>2, <2>3
<1>2. Long(<<Reading.version>> \o Lines(Reading.headers, 0, rest), n)
  <2>1. Long(Lines(Reading.headers, 0, rest), n)
    BY <1>1, LongLines
  <2> QED BY <1>1, <2>1, LongerStill
<1>3. Long(Later(script, Current), n)
  <2>1. Long(Reading.url \o (<<Reading.version>> \o Lines(Reading.headers, 0, rest)), n)
    BY <1>1, <1>2, LongerStill
  <2> QED BY <1>1, <2>1, LongerStill
<1>4. Later(script, Current) \in Text /\ Len(Later(script, Current)) >= n
  <2> PICK t : t = Later(script, Current)
    OBVIOUS
  <2>1. t \in Text /\ Len(t) > n
    BY <1>3 DEF Long
  <2>2. Len(t) \in Nat
    BY <2>1 DEF Text
  <2>3. n \in Nat
    BY <1>1
  <2>4. \A l \in Nat : l > n => l >= n
    BY <2>3
  <2>5. Len(t) >= n
    BY <2>1, <2>2, <2>4
  <2> QED BY <2>1, <2>5
<1>5. ASSUME InSection
      PROVE  /\ \A j \in 0..Len(Fields) : Long(Lines(Fields, j, Behind), n)
             /\ \A j \in 1..Len(Fields) : /\ Fields[j].name \in Text /\ Fields[j].value \in Text
                                          /\ j \in 0..Len(Fields)
  <2>1. Fields \in Seq(Field) /\ Behind \in Text /\ Len(Fields) \in Nat
    BY <1>5, FieldsFacts
  <2>2. Len(Behind) >= n
    BY <1>1, <1>4 DEF Behind
  <2>3. \A j \in 0..Len(Fields) : Long(Lines(Fields, j, Behind), n)
    BY <1>1, <2>1, <2>2, LongLines
  <2>4. \A j \in 1..Len(Fields) : Fields[j] \in Field /\ j \in 0..Len(Fields)
    BY <2>1
  <2> QED BY <2>3, <2>4, HeaderUnfolds
<1>6. ASSUME InSection, NEW j \in 1..Len(Fields), NEW r \in 0..Len(Fields[j].value)
      PROVE  Long(AfterColon(j, r), n)
  <2>1. Long(Lines(Fields, j, Behind), n) /\ Fields[j].value \in Text
    BY <1>5, <1>6
  <2>2. Long(<<Eol>> \o Lines(Fields, j, Behind), n)
    BY <1>1, <2>1, LongerStill, Separators
  <2>3. From(Fields[j].value, r) \in Text
    BY <2>1, Pieces DEF Text
  <2> QED BY <1>1, <2>2, <2>3, LongerStill DEF AfterColon
<1>7. CASE parser.state \in {"start_req", "dead"}
  BY <1>3, <1>7 DEF Place, AtStart
<1>8. CASE parser.state \in {"url_start", "url"}
  <2>1. PICK r \in Nat : AtUrl(r)
    BY <1>8 DEF Place
  <2>2. Ahead = AfterMethod(r) /\ r \in 0..Len(Reading.url)
    BY <2>1 DEF AtUrl
  <2>3. From(Reading.url, r) \in Text
    BY <1>1, <2>2, Pieces DEF Text
  <2> QED BY <1>1, <1>2, <2>2, <2>3, LongerStill DEF AfterMethod
<1>9. CASE parser.state = "field_start"
  <2>1. PICK j \in Nat : AtLine(j)
    BY <1>9 DEF Place
  <2> QED BY <1>5, <2>1 DEF AtLine
<1>10. CASE parser.state = "field"
  <2>1. PICK j \in Nat, r \in Nat : AtName(j, r)
    BY <1>10 DEF Place
  <2>2. /\ InSection /\ j \in 1..Len(Fields) /\ r \in 1..Len(Fields[j].name)
        /\ Ahead = From(Fields[j].name, r) \o (<<":">> \o AfterColon(j, 0))
    BY <2>1 DEF AtName, AfterName
  <2>3. Fields[j].name \in Text /\ Fields[j].value \in Text
    BY <1>5, <2>2
  <2>4. r \in 0..Len(Fields[j].name) /\ 0 \in 0..Len(Fields[j].value)
    <3>1. Len(Fields[j].name) \in Nat /\ Len(Fields[j].value) \in Nat
      BY <2>3 DEF Text
    <3> QED BY <2>2, <3>1
  <2>5. From(Fields[j].name, r) \in Text
    BY <2>3, <2>4, Pieces DEF Text
  <2>6. Long(AfterColon(j, 0), n)
    BY <1>6, <2>2, <2>4
  <2>7. Long(<<":">> \o AfterColon(j, 0), n)
    BY <1>1, <2>6, LongerStill, Separators
  <2> QED BY <1>1, <2>2, <2>5, <2>7, LongerStill
<1>11. CASE parser.state = "value_start"
  <2>1. PICK j \in Nat : AtColon(j)
    BY <1>11 DEF Place
  <2>2. InSection /\ j \in 1..Len(Fields) /\ Ahead = AfterColon(j, 0)
    BY <2>1 DEF AtColon
  <2>3. 0 \in 0..Len(Fields[j].value)
    <3>1. Fields[j].value \in Text
      BY <1>5, <2>2
    <3> QED BY <3>1 DEF Text
  <2> QED BY <1>6, <2>2, <2>3
<1>12. CASE parser.state = "value"
  <2>1. PICK j \in Nat, r \in Nat : AtValue(j, r)
    BY <1>12 DEF Place
  <2>2. /\ InSection /\ j \in 1..Len(Fields) /\ Ahead = AfterColon(j, r)
        /\ r \in 1..Len(Fields[j].value)
    BY <2>1 DEF AtValue
  <2>3. r \in 0..Len(Fields[j].value)
    <3>1. Fields[j].value \in Text
      BY <1>5, <2>2
    <3>2. Len(Fields[j].value) \in Nat
      BY <3>1 DEF Text
    <3> QED BY <2>2, <3>2
  <2> QED BY <1>6, <2>2, <2>3
<1>13. CASE parser.state = "body_identity"
  <2>1. PICK r \in Nat : AtBody(r)
    BY <1>13 DEF Place
  <2> PICK d : d = Open.body
    OBVIOUS
  <2>2. /\ Current \in 1..Len(script) /\ r \in 0..(Len(d) - 1)
        /\ Ahead = From(d, r) \o Later(script, Current)
    BY <2>1 DEF AtBody, InBody, InOpen
  <2>3. d \in Text
    BY <2>2, OpenFacts, ProperParts
  <2>4. r \in 0..Len(d)
    <3>1. Len(d) \in Nat
      BY <2>3 DEF Text
    <3> QED BY <2>2, <3>1
  <2>5. From(d, r) \in Text
    BY <2>3, <2>4, Pieces DEF Text
  <2> QED BY <1>1, <1>3, <2>2, <2>5, LongerStill
<1>14. ASSUME NEW j, InChunks(j)
       PROVE  /\ Long(ChunkLines(Open, j, Later(script, Current)), n)
              /\ Sound(Open) /\ Open.chunks \in Seq(Text) /\ Open.trailer \in Seq(Field)
  <2>1. /\ Sound(Open) /\ Open.chunks \in Seq(Text) /\ j \in 0..Len(Open.chunks)
        /\ Later(script, Current) \in Text
    BY <1>14, ChunksFacts DEF InChunks
  <2>2. Open.trailer \in Seq(Field)
    BY <2>1 DEF Sound, Request
  <2> QED BY <1>1, <1>4, <2>1, <2>2, LongChunks
<1>15. CASE parser.state = "chunk_size_start"
  <2>1. PICK j \in Nat : AtChunk(j)
    BY <1>15 DEF Place
  <2> QED BY <1>14, <2>1 DEF AtChunk
<1>16. CASE parser.state = "chunk_size"
  <2>1. PICK j \in Nat : AtChunkSize(j)
    BY <1>16 DEF Place
  <2>2. InChunks(j) /\ j \in 0..Len(Open.chunks)
    BY <2>1 DEF AtChunkSize, InChunks
  <2>3. CASE j = Len(Open.chunks)
    <3>1. Ahead = <<Eol>> \o Lines(Open.trailer, 0, Later(script, Current))
      BY <2>1, <2>3 DEF AtChunkSize
    <3>2. 0 \in 0..Len(Open.trailer) /\ Open.trailer \in Seq(Field)
      BY <1>14, <2>2
    <3>3. Long(Lines(Open.trailer, 0, Later(script, Current)), n)
      BY <1>1, <1>4, <3>2, LongLines
    <3> QED BY <1>1, <3>1, <3>3, LongerStill, Separators
  <2>4. CASE j # Len(Open.chunks)
    <3>1. Ahead = <<Eol>> \o (Open.chunks[j + 1] \o
                    (<<Eol>> \o ChunkLines(Open, j + 1, Later(script, Current))))
      BY <2>1, <2>4 DEF AtChunkSize
    <3>2. j + 1 \in 1..Len(Open.chunks) /\ j + 1 \in 0..Len(Open.chunks)
      BY <1>14, <2>2, <2>4
    <3>3. Open.chunks[j + 1] \in Text
      BY <1>14, <2>2, <3>2
    <3>4. Long(ChunkLines(Open, j + 1, Later(script, Current)), n)
      BY <1>1, <1>4, <1>14, <2>2, <3>2, LongChunks
    <3>5. Long(<<Eol>> \o ChunkLines(Open, j + 1, Later(script, Current)), n)
      BY <1>1, <3>4, LongerStill, Separators
    <3>6. Long(Open.chunks[j + 1] \o
                    (<<Eol>> \o ChunkLines(Open, j + 1, Later(script, Current))), n)
      BY <1>1, <3>3, <3>5, LongerStill
    <3> QED BY <1>1, <3>1, <3>6, LongerStill, Separators
  <2> QED BY <2>3, <2>4
<1>17. CASE parser.state \in {"chunk_data", "chunk_data_done"}
  <2>1. PICK j \in Nat, r \in Nat : AtChunkData(j, r)
    BY <1>17 DEF Place
  <2> PICK d : d = Open.chunks[j]
    OBVIOUS
  <2>2. /\ InChunks(j) /\ j \in 0..Len(Open.chunks) /\ j >= 1 /\ r \in 0..Len(d)
        /\ Ahead = From(d, r) \o (<<Eol>> \o ChunkLines(Open, j, Later(script, Current)))
    BY <2>1 DEF AtChunkData, InChunks
  <2>3. d \in Text
    <3>1. Open.chunks \in Seq(Text)
      BY <1>14, <2>2
    <3>2. j \in 1..Len(Open.chunks)
      BY <2>2
    <3> QED BY <3>1, <3>2
  <2>4. From(d, r) \in Text
    BY <2>2, <2>3, Pieces DEF Text
  <2>5. Long(ChunkLines(Open, j, Later(script, Current)), n)
    BY <1>14, <2>2
  <2>6. Long(<<Eol>> \o ChunkLines(Open, j, Later(script, Current)), n)
    BY <1>1, <2>5, LongerStill, Separators
  <2> QED BY <1>1, <2>2, <2>4, <2>6, LongerStill
<1>18. parser.state \in States
  BY DEF Inv, TypeOK, Parser
<1> QED BY <1>7, <1>8, <1>9, <1>10, <1>11, <1>12, <1>13, <1>15, <1>16, <1>17, <1>18 DEF States

\* Heads end one behind the other.
LEMMA HeadsInOrder ==
  ASSUME NEW s \in Scripts, NEW k \in 1..Len(s)
  PROVE  \A i \in 1..Len(s) : k <= i => HeadEnd(s, k) <= HeadEnd(s, i)
<1>1. Len(s) \in Nat /\ \A i \in 1..Len(s) : HeadEnd(s, i) \in Nat
  BY ScriptType, HeadEndIs
<1>2. ASSUME NEW i \in 1..Len(s), i + 1 \in 1..Len(s)
      PROVE  HeadEnd(s, i) <= HeadEnd(s, i + 1)
  <2>1. i \in 0..Len(s) /\ i # Len(s)
    BY <1>1, <1>2
  <2>2. /\ Later(s, i) = HeadBytes(s[i + 1]) \o (Content(s[i + 1]) \o Later(s, i + 1))
        /\ Sound(s[i + 1]) /\ i + 1 \in 0..Len(s)
    BY <2>1, LaterUnfolds
  <2>3. PICK h \in Text, c \in Text, d \in Text, l \in Text :
          /\ h = HeadBytes(s[i + 1]) /\ c = Content(s[i + 1]) /\ l = Later(s, i + 1)
          /\ d = Content(s[i])
    <3>1. HeadBytes(s[i + 1]) \in Text /\ Content(s[i + 1]) \in Text
      BY <2>2, MessageUnfolds
    <3>2. Later(s, i + 1) \in Text
      BY <2>2, LaterUnfolds
    <3>3. Sound(s[i])
      BY ScriptType
    <3>4. Content(s[i]) \in Text
      BY <3>3, MessageUnfolds
    <3> QED BY <3>1, <3>2, <3>4
  <2>4. /\ HeadEnd(s, i) + Len(d \o (h \o (c \o l))) = Len(ScriptBytes(s))
        /\ HeadEnd(s, i + 1) + Len(c \o l) = Len(ScriptBytes(s))
    BY <1>2, <2>2, <2>3, HeadEndIs
  <2>5. c \o l \in Text /\ h \o (c \o l) \in Text
    BY Together
  <2>6. /\ Len(h \o (c \o l)) = Len(h) + Len(c \o l)
        /\ Len(d \o (h \o (c \o l))) = Len(d) + Len(h \o (c \o l))
    BY <2>5, Together
  <2>7. Len(h) \in Nat /\ Len(d) \in Nat /\ Len(c \o l) \in Nat
    BY <2>5 DEF Text
  <2>8. /\ HeadEnd(s, i) \in Nat /\ HeadEnd(s, i + 1) \in Nat
        /\ HeadEnd(s, i) + (Len(d) + (Len(h) + Len(c \o l))) = HeadEnd(s, i + 1) + Len(c \o l)
    BY <1>1, <1>2, <2>4, <2>6
  <2> QED BY <2>7, <2>8
<1> DEFINE S == {i \in Nat : i \in 1..Len(s) /\ k <= i => HeadEnd(s, k) <= HeadEnd(s, i)}
<1>3. ASSUME NEW i \in Nat, \A m \in 0..(i - 1) : m \in S
      PROVE  i \in S
  <2> SUFFICES ASSUME i \in 1..Len(s), k <= i PROVE HeadEnd(s, k) <= HeadEnd(s, i)
    OBVIOUS
  <2>1. CASE k = i
    BY <1>1, <2>1
  <2>2. CASE k # i
    <3>1. i - 1 \in 0..(i - 1) /\ i - 1 \in 1..Len(s) /\ k <= i - 1 /\ (i - 1) + 1 = i
      BY <1>1, <2>2
    <3>2. HeadEnd(s, k) <= HeadEnd(s, i - 1)
      BY <1>3, <3>1
    <3>3. HeadEnd(s, i - 1) <= HeadEnd(s, i)
      BY <1>2, <3>1
    <3>4. HeadEnd(s, k) \in Nat /\ HeadEnd(s, i - 1) \in Nat /\ HeadEnd(s, i) \in Nat
      BY <1>1, <3>1
    <3> QED BY <3>2, <3>3, <3>4
  <2> QED BY <2>1, <2>2
<1> HIDE DEF S
<1>4. \A i \in Nat : i \in S
  BY <1>3, StrongInduction
<1> SUFFICES ASSUME NEW i \in 1..Len(s), k <= i PROVE HeadEnd(s, k) <= HeadEnd(s, i)
  OBVIOUS
<1>5. i \in S
  BY <1>4
<1> QED BY <1>5 DEF S

-----------------------------------------------------------------------------
(* Every step *)

\* Nothing that the invariant is about changes.
LEMMA IdleHolds ==
  ASSUME Inv, ClientInv, UNCHANGED <<scriptVars, pos, chunkEnd, parser, mark, channel, received>>
  PROVE  Holds'
<1>1. /\ script' = script /\ garbled' = garbled /\ headEnd' = headEnd /\ pos' = pos
      /\ chunkEnd' = chunkEnd /\ parser' = parser /\ mark' = mark /\ channel' = channel
      /\ received' = received /\ Fixed /\ pos \in Nat
  BY StreamFacts DEF scriptVars, ClientInv
<1>2. Marked'
  BY <1>1 DEF ClientInv, Marked
<1>3. (Lost' <=> Lost) /\ Current' = Current
  BY <1>1 DEF Lost, Current
<1>4. Sent'
  BY <1>1, <1>3 DEF ClientInv, Sent, Same, PlainUpTo
<1>5. Unharmed'
  <2>1. BehindColon => BehindColon'
    BY <1>1 DEF BehindColon, Written
  <2> QED BY <1>1, <1>3, <2>1 DEF ClientInv, Unharmed
<1>6. Punctual'
  BY <1>1, <1>3 DEF ClientInv, Punctual, Orderly, Stopped, PlainUpTo, InMessage
<1>7. ASSUME Place PROVE Place'
  <2>1. BodyRead' = BodyRead /\ Virtual' = Virtual
    BY <1>1, <1>3 DEF BodyRead, Virtual, HeadAfter
  <2> QED BY <1>1, <1>3, <1>7, <2>1, PlaceStays
<1> QED BY <1>1, <1>2, <1>3, <1>4, <1>5, <1>6, <1>7 DEF Holds, ClientInv

\* At first nothing is read.
LEMMA ClientBegins ==
  ASSUME ClientInit
  PROVE  ClientInv
<1>1. /\ script \in Scripts /\ pos = 0 /\ chunkEnd = 0 /\ mark = NoMark /\ received = <<>>
      /\ channel = Idle /\ parser.state = "start_req" /\ parser.errno = "OK"
      /\ garbled \in {0} \cup IF script \in Garbled THEN Decisive(script) ELSE {}
      /\ headEnd = [i \in DOMAIN script |-> HeadEnd(script, i)]
      /\ stream = Garble(Written, garbled)
  BY DEF ClientInit, Init, Idle, Gathered, Written
<1>2. Current = 0 /\ Len(script) \in Nat
  BY <1>1, ScriptType DEF Current
<1>3. Fixed
  BY <1>1 DEF Fixed
<1>4. Marked
  BY <1>1, NoMarkType DEF Marked
<1>5. ~Lost
  BY <1>2 DEF Lost
<1>6. Place
  <2>1. Ahead = Later(script, Current)
    <3>1. /\ MessageTexts(script) \in Seq(Text) /\ Written \in Text
          /\ Written = FlattenSeq(MessageTexts(script))
      BY <1>1, MessageTextsType DEF Written
    <3>2. From(MessageTexts(script), 0) = MessageTexts(script)
      BY <3>1, Extremes
    <3>3. From(Written, 0) = Written
      BY <3>1, Extremes DEF Text
    <3> QED BY <1>1, <1>2, <3>1, <3>2, <3>3 DEF Ahead, Later
  <2>2. AtStart
    BY <1>1, <1>2, <2>1 DEF AtStart
  <2> QED BY <1>1, <2>2 DEF Place
<1>7. Sent
  BY <1>2 DEF Sent
<1>8. Unharmed
  <2>1. garbled = 0 \/ garbled >= 1
    <3>1. garbled \in {0} \/ garbled \in Decisive(script)
      BY <1>1
    <3> QED BY <3>1 DEF Decisive
  <2>2. garbled = 0 \/ 0 < garbled
    <3>1. garbled = 0 \/ garbled \in 1..Len(ScriptBytes(script))
      BY <1>1 DEF Decisive
    <3> QED BY <3>1
  <2> QED BY <1>1, <1>2, <2>2 DEF Unharmed
<1>9. Punctual
  <2>1. \A j \in 1..(Len(script) - 1) : ~(j < Current) /\ ~(j <= Current)
    BY <1>2
  <2>2. \A i \in 1..Len(script) : ~(i <= Current)
    BY <1>2
  <2> QED BY <1>1, <1>5, <2>1, <2>2 DEF Punctual
<1> QED BY <1>3, <1>4, <1>6, <1>7, <1>8, <1>9 DEF ClientInv

\* Every step keeps the invariant.
LEMMA ClientKeeps ==
  ASSUME Inv, ClientInv, [ClientNext]_clientVars
  PROVE  ClientInv'
<1>1. Fixed'
  <2>1. UNCHANGED scriptVars /\ stream' = stream
    BY DEF ClientNext, clientVars, vars, Next, OnData, Work, EndOfChunk, Close
  <2> QED BY <2>1 DEF scriptVars, ClientInv, Fixed, Written
<1>2. Holds'
  <2>1. CASE OnData /\ UNCHANGED scriptVars
    BY <2>1, DataHolds
  <2>2. CASE Work /\ UNCHANGED scriptVars
    <3>1. Parse /\ Rest
      BY <2>2 DEF Work, Rest
    <3> QED BY <2>2, <3>1, WorkHolds
  <2>3. CASE EndOfChunk /\ UNCHANGED scriptVars
    BY <2>3, ChunkHolds
  <2>4. CASE Close /\ UNCHANGED scriptVars
    BY <2>4, IdleHolds DEF Close
  <2>5. CASE UNCHANGED clientVars
    BY <2>5, IdleHolds DEF clientVars, vars
  <2> QED BY <2>1, <2>2, <2>3, <2>4, <2>5 DEF ClientNext, Next
<1> QED BY <1>1, <1>2 DEF Holds, ClientInv

\* The invariant holds in every state.
LEMMA ClientCorrect == ClientSpec => [](Inv /\ ClientInv)
<1>1. ClientInit => Init /\ ClientInv
  BY ClientBegins DEF ClientInit
<1>2. [ClientNext]_clientVars => [Next]_vars
  BY DEF ClientNext, clientVars
<1>3. Inv /\ ClientInv /\ [ClientNext]_clientVars => ClientInv'
  BY ClientKeeps
<1> QED BY <1>1, <1>2, <1>3, InvCorrect, PTL DEF ClientSpec, Spec

\* Whatever clients write and in whatever chunks it arrives: a request that is
\* handled has the method, url, headers and body of the message that was written.
THEOREM SentCorrect == ClientSpec => []MessagesAsSent
<1>1. Inv /\ ClientInv => MessagesAsSent
  <2> SUFFICES ASSUME Inv, ClientInv PROVE MessagesAsSent
    OBVIOUS
  <2>1. \A i \in 1..Len(received) : PlainUpTo(i) => Same(i)
    BY DEF ClientInv, Sent, Current
  <2> QED BY <2>1 DEF MessagesAsSent, Same
<1> QED BY <1>1, ClientCorrect, PTL

\* Wherever the grammar allows no other byte and one is garbled: once it was parsed
\* there is an error, and no message whose head ends at or behind it is handled.
THEOREM GarbledCorrect == ClientSpec => []GarbledIsRefused
<1>1. Inv /\ ClientInv => GarbledIsRefused
  <2> SUFFICES ASSUME Inv, ClientInv, garbled \in 1..pos
               PROVE  /\ parser.errno # "OK"
                      /\ \A i \in 1..Len(received) : headEnd[i] < garbled
    BY DEF GarbledIsRefused
  <2>1. pos \in Nat
    BY StreamFacts DEF ClientInv
  <2>2. garbled # 0 /\ ~(pos < garbled)
    BY <2>1
  <2> QED BY <2>2 DEF ClientInv, Unharmed, Current
<1> QED BY <1>1, ClientCorrect, PTL

\* However the stream is split: when a chunk was parsed, exactly the requests
\* whose heads are complete, up to the first that closes, were handled.  Said of
\* scripts without a garbled byte, repeated headers or a framing that is
\* refused, with a trailer or a switch of protocols in the last message at most.
THEOREM CompleteCorrect == ClientSpec => []HandledWhenComplete
<1>1. Inv /\ ClientInv => HandledWhenComplete
  <2> SUFFICES ASSUME Inv, ClientInv, PlainUpTo(Len(script)),
                      \A m \in Range(script) : ~Refused(m), NEW i \in 1..Len(script)
               PROVE  i <= Current <=>
                        headEnd[i] <= pos /\ \A j \in 1..(i - 1) : ~Closes(script[j])
    BY DEF HandledWhenComplete, Current
  <2>1. /\ Orderly /\ Fixed /\ Punctual /\ Len(script) \in Nat /\ Current \in Nat /\ pos \in Nat
        /\ script \in Scripts /\ Written \in Text /\ Len(Written) \in Nat /\ pos \in 0..Len(Written)
    BY StreamFacts DEF ClientInv, Orderly, PlainUpTo
  <2>2. ASSUME i <= Current
        PROVE  headEnd[i] <= pos /\ \A j \in 1..(i - 1) : ~Closes(script[j])
    <3>1. \A j \in 1..(i - 1) : j \in 1..(Len(script) - 1) /\ j < Current
      BY <2>1, <2>2
    <3> QED BY <2>1, <2>2, <3>1 DEF Punctual
  <2>3. ASSUME Current < i, headEnd[i] <= pos, \A j \in 1..(i - 1) : ~Closes(script[j])
        PROVE  FALSE
    <3>1. Current < Len(script) /\ Current + 1 \in 1..Len(script) /\ Current + 1 <= i
      BY <2>1, <2>3
    <3>2. ~Stopped
      <4>1. Current >= 1 => Current \in 1..(i - 1)
        BY <2>1, <2>3
      <4> QED BY <2>1, <2>3, <3>1, <4>1 DEF Stopped
    <3>3. parser.errno = "OK" /\ ~Lost
      BY <2>1, <3>1, <3>2 DEF Punctual
    <3>4. Place
      BY <3>3 DEF ClientInv
    <3> PICK n : n = Len(Content(Reading) \o Later(script, Current + 1))
      OBVIOUS
    <3>5. Len(Ahead) > n
      BY <2>1, <3>1, <3>4, HeadAhead DEF Long
    <3>6. Len(Ahead) = Len(Written) - pos
      BY <2>1, Pieces DEF Ahead, Text
    <3>7. HeadEnd(script, Current + 1) + n = Len(Written)
      BY <2>1, <3>1, HeadEndIs DEF Written, Reading
    <3>8. HeadEnd(script, Current + 1) <= HeadEnd(script, i)
      BY <2>1, <3>1, HeadsInOrder
    <3>9. headEnd[i] = HeadEnd(script, i)
      BY <2>1, ScriptType DEF Fixed
    <3>10. /\ HeadEnd(script, i) \in Nat /\ HeadEnd(script, Current + 1) \in Nat
           /\ n \in Nat
      <4>1. Content(Reading) \o Later(script, Current + 1) \in Text
        BY <2>1, <3>1, ReadingFacts
      <4> QED BY <2>1, <3>1, <4>1, HeadEndIs DEF Text
    <3>11. pos < HeadEnd(script, Current + 1)
      BY <2>1, <3>5, <3>6, <3>7, <3>10
    <3> QED BY <2>1, <2>3, <3>8, <3>9, <3>10, <3>11
  <2> QED BY <2>1, <2>2, <2>3
<1> QED BY <1>1, ClientCorrect, PTL
=============================================================================
