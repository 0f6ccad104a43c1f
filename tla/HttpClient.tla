----------------------------- MODULE HttpClient -----------------------------
(***************************************************************************)
(* Clients of the gateway: each writes a sequence of messages, the script, *)
(* one behind the other (pipelined), possibly with one byte garbled.  What *)
(* HttpChannel hands to the Gateway is compared with what was written.     *)
(***************************************************************************)
EXTENDS HttpChannel, SequencesExt

CONSTANTS
  Scripts,   \* sequences of messages
  Garbled    \* scripts of which one byte may be garbled

VARIABLES
  script,    \* the messages the client writes
  garbled,   \* position of the garbled byte in the stream, 0 for none
  headEnd    \* positions of the last byte of each message's head

scriptVars == <<script, garbled, headEnd>>
clientVars == <<vars, scriptVars>>

-----------------------------------------------------------------------------
(* Messages and their bytes (RFC 7230) *)

HeaderBytes(h) == h.name \o <<":">> \o h.value \o <<Eol>>

FieldBytes(headers) ==
  FlattenSeq([i \in DOMAIN headers |-> HeaderBytes(headers[i])])

LengthDigit(n) == CHOOSE d \in Digits : Value[d] = n

ChunkBytes(chunk) == <<LengthDigit(Len(chunk)), Eol>> \o chunk \o <<Eol>>

\* A message has a plain body of known length, or chunks and a trailer.
Content(m) ==
  IF m.chunks = <<>> THEN m.body
    ELSE FlattenSeq([i \in DOMAIN m.chunks |-> ChunkBytes(m.chunks[i])])
         \o <<"0", Eol>> \o FieldBytes(m.trailer) \o <<Eol>>

HeadBytes(m) ==
  <<m.method>> \o m.url \o <<m.version>> \o FieldBytes(m.headers) \o <<Eol>>

MessageBytes(m) == HeadBytes(m) \o Content(m)

ScriptBytes(s) == FlattenSeq([i \in DOMAIN s |-> MessageBytes(s[i])])

Garble(bytes, n) == IF n = 0 THEN bytes ELSE [bytes EXCEPT ![n] = Bad]

BodyOf(m) == IF m.chunks = <<>> THEN m.body ELSE FlattenSeq(m.chunks)

HeadersOf(m) ==
  {<<m.headers[i].name, m.headers[i].value>> : i \in DOMAIN m.headers}

\* Position of the last byte of the head of message i.
HeadEnd(s, i) == Len(ScriptBytes(SubSeq(s, 1, i - 1))) + Len(HeadBytes(s[i]))

\* An element of the list that is the value of a header.
Element(value, k) ==
  /\ value[k] # ","
  /\ k = 1 \/ value[k - 1] = ","
  /\ k = Len(value) \/ value[k + 1] = ","

\* The message has the option in a header Connection.
Lists(m, option) ==
  \E i \in DOMAIN m.headers :
    /\ m.headers[i].name = <<"connection">>
    /\ \E k \in DOMAIN m.headers[i].value :
         Element(m.headers[i].value, k) /\ m.headers[i].value[k] = option

Closes(m) ==
  IF m.version = "HTTP/1.1" THEN Lists(m, "close") ELSE ~Lists(m, "keep-alive")

Repeats(m) ==
  \E i, j \in DOMAIN m.headers : i # j /\ m.headers[i].name = m.headers[j].name

Announced(m) == {m.headers[i].value : i \in {k \in DOMAIN m.headers :
                                             m.headers[k].name = <<"content-length">>}}

Framing(m) == {i \in DOMAIN m.headers :
                 m.headers[i].name \in {<<"content-length">>, <<"transfer-encoding">>}}

\* Framing that the parser refuses: two lengths, a length and chunks, or a
\* length out of range.
Refused(m) ==
  \/ \E i, j \in Framing(m) : i # j
  \/ \E v \in Announced(m) : Len(v) > 1

Switches(m) == m.method = "CONNECT" \/ Lists(m, "upgrade")

\* What a client writes: names of tokens, values without control characters,
\* a list of tokens in Connection, chunks that are not empty.
Field == [name : Seq(Tokens \cup Digits \cup Names) \ {<<>>},
          value : Seq(Symbols \ {Eol, Bad})]

Request == [method : Methods, version : Versions,
            url : Seq(Symbols \ (Versions \cup {Eol, Bad})) \ {<<>>},
            headers : Seq(Field), body : Text, chunks : Seq(Text), trailer : Seq(Field)]

\* The length is that of the body, or has several digits, more than the parser
\* takes; the header tells chunks.
WellFramed(m) ==
  /\ \A k \in DOMAIN m.chunks : Len(m.chunks[k]) \in {1, 2}
  /\ m.chunks # <<>> <=> <<<<"transfer-encoding">>, <<"chunked">>>> \in HeadersOf(m)
  /\ m.chunks = <<>> /\ m.body # <<>> => Announced(m) # {}
  /\ \A v \in Announced(m) :
       /\ v \in Seq(Digits) \ {<<>>}
       /\ IF Len(v) > 1 THEN 10 * Value[v[1]] > MaxLength - 10
                        ELSE m.chunks = <<>> => Value[v[1]] = Len(m.body)

\* A list of tokens: no element is empty.
ListOfTokens(value) ==
  \A k \in DOMAIN value :
    IF value[k] = "," THEN k # 1 /\ value[k - 1] # "," ELSE IsToken(value[k])

ASSUME ScriptsAssumption ==
  /\ Scripts \subseteq Seq(Request)
  /\ \A s \in Scripts : \A m \in Range(s) :
       /\ WellFramed(m)
       /\ \A i \in DOMAIN m.headers :
            m.headers[i].name = <<"connection">> => ListOfTokens(m.headers[i].value)
  /\ \A s \in Garbled : \A m \in Range(s) : ~Switches(m)

\* Positions where the parser must find a wrong byte: not in a value, nor at
\* its end, nor in the data of a body.
Decisive(s) ==
  LET bytes   == ScriptBytes(s)
      data    == UNION {Range(BodyOf(m)) : m \in Range(s)}
      InValue(n) == \E k \in 1..(n - 1) :
                      bytes[k] = ":" /\ \A j \in k..(n - 1) : bytes[j] # Eol
  IN {n \in 1..Len(bytes) : bytes[n] \notin data /\ ~InValue(n)}

-----------------------------------------------------------------------------

ClientInit ==
  /\ script \in Scripts
  /\ garbled \in {0} \cup IF script \in Garbled THEN Decisive(script) ELSE {}
  /\ headEnd = [i \in DOMAIN script |-> HeadEnd(script, i)]
  /\ stream = Garble(ScriptBytes(script), garbled)
  /\ Init

ClientNext == Next /\ UNCHANGED scriptVars

\* Data that was written arrives, and the event loop runs on.
ClientSpec ==
  /\ ClientInit /\ [][ClientNext]_clientVars
  /\ WF_clientVars(OnData /\ UNCHANGED scriptVars)
  /\ WF_clientVars((Work \/ EndOfChunk) /\ UNCHANGED scriptVars)

-----------------------------------------------------------------------------
(* Properties *)

\* Messages up to the i-th are read as written: none of them repeats a header
\* name, has a trailer or switches protocols before the i-th (the cases in
\* which the channel mixes messages up), and no byte was garbled.
PlainUpTo(i) ==
  /\ garbled = 0
  /\ i <= Len(script)
  /\ \A j \in 1..i : ~Repeats(script[j])
  /\ \A j \in 1..(i - 1) : script[j].trailer = <<>> /\ ~Switches(script[j])

\* However the bytes are split into chunks, the i-th request handled has the
\* method, url and headers of the i-th message, and its body as far as it came.
MessagesAsSent ==
  \A i \in 1..Len(received) : PlainUpTo(i) =>
    /\ received[i].method = script[i].method
    /\ received[i].url = script[i].url
    /\ received[i].headers = HeadersOf(script[i])
    /\ ~Switches(script[i]) =>
         /\ IsPrefix(received[i].body, BodyOf(script[i]))
         /\ received[i].ended => received[i].body = BodyOf(script[i])

\* The headers passed to onRequest are those of the request, also when an
\* earlier message had a trailer or a header name is repeated.
HeadersAsSent ==
  \A i \in 1..Len(received) :
    garbled = 0 /\ (\A j \in 1..i : ~Switches(script[j])) =>
      \A h \in received[i].headers : h \in HeadersOf(script[i])

\* A request is handled as soon as the chunk with the end of its head has been
\* parsed, and never before; one behind a message that closes never is.  This
\* is said of a script without a garbled byte whose messages repeat no header and
\* have a framing the parser takes, and of which only the last may have a trailer
\* or switch protocols (PlainUpTo, Refused).
HandledWhenComplete ==
  ~Handling /\ PlainUpTo(Len(script)) /\ (\A m \in Range(script) : ~Refused(m)) =>
    \A i \in 1..Len(script) :
      i <= Len(received) <=>
        headEnd[i] <= pos /\ \A j \in 1..(i - 1) : ~Closes(script[j])

\* When a garbled byte was parsed, the parser has found an error, and no message
\* whose head ends at or behind that byte is handled.  (A message whose head
\* ended before, with the byte in the framing of its body, was handled and
\* answered by then.)
GarbledIsRefused ==
  garbled \in 1..pos =>
    /\ parser.errno # "OK"
    /\ \A i \in 1..Len(received) : headEnd[i] < garbled

\* Every request of a client that keeps to the rules is answered, unless the
\* connection is closed before by the client or by the timeout.
EveryRequestAnswered ==
  PlainUpTo(Len(script)) /\ (\A m \in Range(script) : ~Refused(m) /\ ~Closes(m)) ~>
    Len(answers) = Len(script) \/ ~isOpen
=============================================================================
