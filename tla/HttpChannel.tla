---------------------------- MODULE HttpChannel -----------------------------
(***************************************************************************)
(* One HTTP connection of the gateway: the request parser                  *)
(* (src/http/http_parser.c), the callbacks of HttpChannel, which collect   *)
(* the pieces of a head, and Gateway::onRequest, which answers it.         *)
(*                                                                         *)
(* The bytes a client writes are a sequence of symbols; a symbol stands    *)
(* for one or more bytes between which a split makes no difference (a      *)
(* method, a part of a name, ": ", an end of line).  Data comes in chunks, *)
(* and a chunk may end after any symbol.  onData takes a chunk symbol by   *)
(* symbol, pos < chunkEnd; no other handler of the event loop runs then.   *)
(***************************************************************************)
EXTENDS Naturals, Sequences

CONSTANTS
  Streams,     \* what a client may write: a set of sequences of symbols
  Methods,     \* symbols: request methods, CONNECT may be one
  Tokens,      \* symbols: parts of header names and of values
  Bytes,       \* symbols: bytes that only a body or a url is made of
  NodeUrls,    \* urls that name a node the network may know
  MaxLength    \* ULLONG_MAX, the content_length that means none

Eol      == "EOL"   \* CR LF
Bad      == "BAD"   \* a byte that no head may contain
Versions == {"HTTP/1.1", "HTTP/1.0"}
Digits   == {"0", "1", "2"}
Value    == [d \in Digits |-> CASE d = "0" -> 0 [] d = "1" -> 1 [] d = "2" -> 2]
Names    == {"connection", "transfer-encoding", "content-length", "upgrade"}
Symbols  == Methods \cup Tokens \cup Bytes \cup Versions \cup Digits \cup Names
            \cup {"close", "keep-alive", "chunked", ":", ",", Eol, Bad}

ASSUME StreamsAssumption == Streams \subseteq Seq(Symbols)

ASSUME SymbolsAssumption ==
  (Methods \cup Tokens) \cap ({":", ",", Eol, Bad} \cup Versions) = {}

ASSUME LengthAssumption == MaxLength \in Nat /\ MaxLength >= 16

VARIABLES
  stream,      \* what the client writes
  pos,         \* symbols of it that were parsed or dropped
  chunkEnd,    \* symbols of it that were received
  parser,      \* http_parser parser
  mark,        \* local of the parser: the part of the head or body begun
  channel,     \* members of HttpChannel
  received,    \* history: the messages passed to the Gateway
  answers,     \* history: the responses sent
  isOpen       \* is the socket open

vars == <<stream, pos, chunkEnd, parser, mark, channel, received, answers, isOpen>>

States == {"start_req", "url_start", "url", "field_start", "field",
           "value_start", "value", "body_identity", "chunk_size_start",
           "chunk_size", "chunk_data", "chunk_data_done", "dead"}
Flags  == {"CONNECTION_CLOSE", "CONNECTION_KEEP_ALIVE", "CONNECTION_UPGRADE",
           "UPGRADE", "CHUNKED", "CONTENTLENGTH", "TRAILING"}
HeaderStates == {"general", "connection", "transfer-encoding",
                 "content-length", "upgrade", "close", "keep-alive",
                 "connection-upgrade", "token", "chunked"}
Errors == {"OK", "CLOSED_CONNECTION", "INVALID_METHOD", "INVALID_URL",
           "INVALID_HEADER_TOKEN", "INVALID_CONTENT_LENGTH",
           "UNEXPECTED_CONTENT_LENGTH", "INVALID_CHUNK_SIZE", "STRICT"}

Text   == Seq(Symbols)
NoMark == [part |-> "none", bytes |-> <<>>]

-----------------------------------------------------------------------------
(* The callbacks: what HttpChannel collects of a head *)

\* moveHeader.  The key is moved only when operator[] inserts it: when a name
\* is repeated `field' keeps it, and the next name is appended.
MoveHeader(c) ==
  LET repeated == \E h \in c.headers : h[1] = c.field
  IN IF c.valueValid
       THEN [c EXCEPT !.headers = {h \in @ : h[1] # c.field} \cup {<<c.field, c.value>>},
                      !.field = IF repeated THEN @ ELSE <<>>,
                      !.value = <<>>,
                      !.valueValid = FALSE]
       ELSE c

OnUrl(c, bytes) == [c EXCEPT !.urlOrStatus = @ \o bytes]

OnHeaderField(c, bytes) == [MoveHeader(c) EXCEPT !.field = @ \o bytes]

\* Slip: a value that arrives in two pieces loses the first.
OnHeaderValueAssigns(c, bytes) == [c EXCEPT !.value = bytes, !.valueValid = TRUE]

OnHeaderValue(c, bytes) == [c EXCEPT !.value = @ \o bytes, !.valueValid = TRUE]

\* The end of a part: its callback gets the bytes since the mark.
HeadAfter(part, bytes) ==
  CASE part = "url"   -> OnUrl(channel, bytes)
    [] part = "field" -> OnHeaderField(channel, bytes)
    [] part = "value" -> OnHeaderValue(channel, bytes)
    [] OTHER          -> channel

Current == Len(received)

OnBody(bytes) == [received EXCEPT ![Current].body = @ \o bytes]

\* on_body followed by on_message_complete.
OnEnd(bytes) == [received EXCEPT ![Current].body = @ \o bytes, ![Current].ended = TRUE]

-----------------------------------------------------------------------------
(* The parser *)

Handling == pos < chunkEnd \/ mark # NoMark

In(states) == pos < chunkEnd /\ parser.errno = "OK" /\ parser.state \in states

Symbol == stream[pos + 1]

\* http_should_keep_alive (a request never needs an end of file).
KeepAlive(p) ==
  IF p.version = "HTTP/1.1" THEN "CONNECTION_CLOSE" \notin p.flags
                            ELSE "CONNECTION_KEEP_ALIVE" \in p.flags

\* Slip: the parser goes on whatever the Connection header said.
NewMessageAlways(p) == "start_req"

\* NEW_MESSAGE
NewMessage(p) == IF KeepAlive(p) THEN "start_req" ELSE "dead"

\* SET_ERRNO and goto error: marks are dropped, and the rest of the chunk.
Fail(error) ==
  /\ parser' = [parser EXCEPT !.errno = error]
  /\ pos' = chunkEnd
  /\ mark' = NoMark
  /\ UNCHANGED <<channel, received, answers>>

Read(p, m) ==
  /\ pos' = pos + 1
  /\ parser' = p
  /\ mark' = m
  /\ UNCHANGED <<received, answers>>

\* The symbol belongs to the part begun, or begins it.
Extend(part) ==
  [part |-> part,
   bytes |-> (IF mark.part = part THEN mark.bytes ELSE <<>>) \o <<Symbol>>]

\* Slip: the flags of the last message stay.
BeginKeepsFlags(p) ==
  [p EXCEPT !.state = "url_start", !.method = Symbol, !.contentLength = 0]

Begin(p) == [p EXCEPT !.state = "url_start", !.method = Symbol,
                      !.flags = {}, !.contentLength = 0]

ReadMethod ==
  /\ In({"start_req"})
  /\ \/ Symbol \in Methods /\ Read(Begin(parser), NoMark) /\ UNCHANGED channel
     \/ Symbol = Eol /\ Read(parser, NoMark) /\ UNCHANGED channel
     \/ Symbol \notin Methods \cup {Eol} /\ Fail("INVALID_METHOD")

EndsUrl == parser.state = "url" /\ Symbol \in Versions \cup {Eol}

\* A url that ends with the line is a request of HTTP/0.9.
ReadUrl ==
  /\ In({"url_start", "url"})
  /\ \/ /\ EndsUrl
        /\ Read([parser EXCEPT
                   !.state = "field_start",
                   !.version = IF Symbol = Eol THEN "HTTP/0.9" ELSE Symbol], NoMark)
        /\ channel' = HeadAfter("url", mark.bytes)
     \/ /\ Symbol \notin Versions \cup {Eol, Bad}
        /\ Read([parser EXCEPT !.state = "url"], Extend("url"))
        /\ UNCHANGED channel
     \/ /\ ~EndsUrl /\ Symbol \in Versions \cup {Eol, Bad}
        /\ Fail("INVALID_URL")

IsToken(s) == s \in Methods \cup Tokens \cup Digits \cup Names
                    \cup {"close", "keep-alive", "chunked"}

\* The first symbol of a name tells the headers the parser interprets.
ReadFieldStart ==
  /\ In({"field_start"})
  /\ Symbol # Eol
  /\ \/ /\ IsToken(Symbol)
        /\ Read([parser EXCEPT
                   !.state = "field",
                   !.headerState = IF Symbol \in Names THEN Symbol ELSE "general"],
                Extend("field"))
        /\ UNCHANGED channel
     \/ ~IsToken(Symbol) /\ Fail("INVALID_HEADER_TOKEN")

ReadField ==
  /\ In({"field"})
  /\ \/ /\ Symbol = ":"
        /\ Read([parser EXCEPT !.state = "value_start"], NoMark)
        /\ channel' = HeadAfter("field", mark.bytes)
     \/ /\ IsToken(Symbol)
        /\ Read([parser EXCEPT !.headerState = "general"], Extend("field"))
        /\ UNCHANGED channel
     \/ /\ Symbol # ":" /\ ~IsToken(Symbol)
        /\ Fail("INVALID_HEADER_TOKEN")

\* header_state after the first symbol of a value, or of an element of the
\* list that is the value of Connection.
ElementState(h) ==
  CASE h = "connection" /\ Symbol \in {"close", "keep-alive"} -> Symbol
    [] h = "connection" /\ Symbol = "upgrade" -> "connection-upgrade"
    [] h = "connection" /\ Symbol \notin {"close", "keep-alive", "upgrade"} -> "token"
    [] h = "transfer-encoding" /\ Symbol = "chunked" -> "chunked"
    [] OTHER -> "general"

\* ... and after a further one.
ValueState(h) ==
  CASE h \in {"close", "keep-alive", "connection-upgrade", "token"} ->
         IF Symbol = "," THEN "connection" ELSE "token"
    [] h = "connection" /\ (IsToken(Symbol) \/ Symbol \in Versions) -> ElementState(h)
    [] OTHER -> "general"

\* The flag that a finished value, or element, stands for.
HeaderFlag(h) ==
  CASE h = "close"              -> {"CONNECTION_CLOSE"}
    [] h = "keep-alive"         -> {"CONNECTION_KEEP_ALIVE"}
    [] h = "connection-upgrade" -> {"CONNECTION_UPGRADE"}
    [] h = "chunked"            -> {"CHUNKED"}
    [] OTHER                    -> {}

\* A comma ends an element of Connection, but no other value.
ElementFlag(h) == IF Symbol = "," /\ h # "chunked" THEN HeaderFlag(h) ELSE {}

\* An empty value is passed on like any other.
ReadEmptyValue ==
  /\ In({"value_start"})
  /\ Symbol = Eol
  /\ Read([parser EXCEPT !.state = "field_start"], NoMark)
  /\ channel' = HeadAfter("value", <<>>)

ReadValueStart ==
  /\ In({"value_start"})
  /\ Symbol # Eol
  /\ parser.headerState # "content-length"
  /\ Read([parser EXCEPT
             !.state = "value",
             !.flags = @ \cup IF parser.headerState = "upgrade" THEN {"UPGRADE"} ELSE {},
             !.headerState = ElementState(@)], Extend("value"))
  /\ UNCHANGED channel

\* Slip: the conservative test for an overflow is left out.
FitsAlways(base, length) == TRUE

Fits(base, length) == length <= (MaxLength - base) \div base

ReadContentLength ==
  /\ In({"value_start"})
  /\ Symbol # Eol
  /\ parser.headerState = "content-length"
  /\ \/ /\ Symbol \in Digits /\ "CONTENTLENGTH" \notin parser.flags
        /\ Read([parser EXCEPT !.state = "value", !.flags = @ \cup {"CONTENTLENGTH"},
                               !.contentLength = Value[Symbol]], Extend("value"))
        /\ UNCHANGED channel
     \/ Symbol \notin Digits /\ Fail("INVALID_CONTENT_LENGTH")
     \/ /\ Symbol \in Digits /\ "CONTENTLENGTH" \in parser.flags
        /\ Fail("UNEXPECTED_CONTENT_LENGTH")

ReadLengthDigit ==
  /\ In({"value"})
  /\ Symbol # Eol
  /\ parser.headerState = "content-length"
  /\ \/ /\ Symbol \in Digits /\ Fits(10, parser.contentLength)
        /\ Read([parser EXCEPT !.contentLength = 10 * @ + Value[Symbol]],
                Extend("value"))
        /\ UNCHANGED channel
     \/ /\ ~(Symbol \in Digits /\ Fits(10, parser.contentLength))
        /\ Fail(IF Symbol = Bad THEN "INVALID_HEADER_TOKEN"
                                ELSE "INVALID_CONTENT_LENGTH")

\* The bytes of a general value are skipped up to the end of line, so that
\* only one that comes first in a chunk or after the first byte is looked at.
ReadValue ==
  /\ In({"value"})
  /\ Symbol # Eol
  /\ parser.headerState # "content-length"
  /\ \/ /\ Symbol = Bad => parser.headerState = "general"
        /\ Read([parser EXCEPT
                   !.flags = @ \cup ElementFlag(parser.headerState),
                   !.headerState = ValueState(@)], Extend("value"))
        /\ UNCHANGED channel
     \/ Symbol = Bad /\ Fail("INVALID_HEADER_TOKEN")

ReadValueEnd ==
  /\ In({"value"})
  /\ Symbol = Eol
  /\ Read([parser EXCEPT !.state = "field_start",
                         !.flags = @ \cup HeaderFlag(parser.headerState)], NoMark)
  /\ channel' = HeadAfter("value", mark.bytes)

-----------------------------------------------------------------------------
(* The end of a head, and the Gateway *)

Chunked(p) == "CHUNKED" \in p.flags

\* Gateway::onRequest: a node is read or set when the network knows it (found).
Answer(p, url, found) ==
  LET ok == found /\ url \in NodeUrls /\ p.method \in {"GET", "POST"}
  IN [status |-> IF ok THEN 200 ELSE 404,
      content |-> ok /\ p.method = "GET",
      close |-> ~KeepAlive(p)]

Upgrades(p) == {"UPGRADE", "CONNECTION_UPGRADE"} \subseteq p.flags \/ p.method = "CONNECT"

\* Slip: a chunk is taken to hold one message.
LeaveAlways(upgrade) == pos' = chunkEnd

\* After a message that upgrades the rest of the chunk is not parsed.
Leave(upgrade) == pos' = IF upgrade THEN chunkEnd ELSE pos + 1

MoveOut(c) == [c EXCEPT !.urlOrStatus = <<>>, !.headers = {}]

\* on_headers_complete: the last header is stored, urlOrStatus and headers
\* are moved into the call of onRequest, which answers at once.
CompleteHead ==
  LET c       == MoveHeader(channel)
      hasBody == Chunked(parser) \/ parser.contentLength > 0
      upgrade == Upgrades(parser)
      ends    == ~hasBody \/ parser.method = "CONNECT"
  IN /\ channel' = MoveOut(c)
     /\ received' = Append(received,
          [method |-> parser.method, url |-> c.urlOrStatus, headers |-> c.headers,
           version |-> parser.version, chunked |-> Chunked(parser),
           body |-> <<>>, ended |-> ends])
     /\ \E found \in BOOLEAN :
          answers' = Append(answers, Answer(parser, c.urlOrStatus, found))
     /\ parser' = [parser EXCEPT
          !.upgrade = upgrade,
          !.state = CASE ends -> NewMessage(parser)
                      [] ~ends /\ Chunked(parser) -> "chunk_size_start"
                      [] OTHER -> "body_identity"]
     /\ mark' = NoMark
     /\ Leave(ends /\ upgrade)

HeadEnds == In({"field_start"}) /\ Symbol = Eol

EndHead ==
  /\ HeadEnds
  /\ "TRAILING" \notin parser.flags
  /\ \/ ~({"CHUNKED", "CONTENTLENGTH"} \subseteq parser.flags) /\ CompleteHead
     \/ /\ {"CHUNKED", "CONTENTLENGTH"} \subseteq parser.flags
        /\ Fail("UNEXPECTED_CONTENT_LENGTH")

\* s_message_done: on_message_complete, and the parser is ready for the next.
\* The headers of a trailer stay where the callbacks put them.
EndMessage(p, bytes) ==
  /\ received' = OnEnd(bytes)
  /\ parser' = [p EXCEPT !.state = NewMessage(p)]
  /\ mark' = NoMark
  /\ Leave(parser.upgrade)
  /\ UNCHANGED <<channel, answers>>

EndTrailer ==
  /\ HeadEnds
  /\ "TRAILING" \in parser.flags
  /\ EndMessage(parser, <<>>)

-----------------------------------------------------------------------------
(* Bodies *)

ReadBody ==
  /\ In({"body_identity"})
  /\ \/ /\ parser.contentLength > 1
        /\ Read([parser EXCEPT !.contentLength = @ - 1], Extend("body"))
        /\ UNCHANGED channel
     \/ /\ parser.contentLength = 1
        /\ EndMessage([parser EXCEPT !.contentLength = 0], Extend("body").bytes)

ReadChunkSize ==
  /\ In({"chunk_size_start", "chunk_size"})
  /\ LET first == parser.state = "chunk_size_start"
     IN \/ /\ Symbol \in Digits
           /\ first \/ Fits(16, parser.contentLength)
           /\ Read([parser EXCEPT
                      !.state = "chunk_size",
                      !.contentLength = (IF first THEN 0 ELSE 16 * @) + Value[Symbol]],
                   NoMark)
           /\ UNCHANGED channel
        \/ /\ Symbol \notin Digits /\ (Symbol = Eol => first)
           /\ Fail("INVALID_CHUNK_SIZE")
        \/ /\ Symbol \in Digits
           /\ ~first /\ ~Fits(16, parser.contentLength)
           /\ Fail("INVALID_CONTENT_LENGTH")

\* Slip: the flag that tells a trailer from a head is not set.
ReadChunkHeaderNoFlag ==
  /\ In({"chunk_size"})
  /\ Symbol = Eol
  /\ Read([parser EXCEPT !.state = IF parser.contentLength = 0 THEN "field_start"
                                                               ELSE "chunk_data"], NoMark)
  /\ UNCHANGED channel

\* A chunk of size 0 is the last one, headers of a trailer may follow.
ReadChunkHeader ==
  /\ In({"chunk_size"})
  /\ Symbol = Eol
  /\ IF parser.contentLength = 0
       THEN Read([parser EXCEPT !.state = "field_start",
                                !.flags = @ \cup {"TRAILING"}], NoMark)
       ELSE Read([parser EXCEPT !.state = "chunk_data"], NoMark)
  /\ UNCHANGED channel

ReadChunkData ==
  /\ In({"chunk_data"})
  /\ Read([parser EXCEPT
             !.contentLength = @ - 1,
             !.state = IF parser.contentLength = 1 THEN "chunk_data_done" ELSE @],
          Extend("body"))
  /\ UNCHANGED channel

EndChunkData ==
  /\ In({"chunk_data_done"})
  /\ \/ /\ Symbol = Eol
        /\ pos' = pos + 1
        /\ parser' = [parser EXCEPT !.state = "chunk_size_start"]
        /\ received' = IF mark.part = "body" THEN OnBody(mark.bytes) ELSE received
        /\ mark' = NoMark
        /\ UNCHANGED <<channel, answers>>
     \/ Symbol # Eol /\ Fail("STRICT")

\* After a message that closes the connection only empty lines are accepted.
ReadDead ==
  /\ In({"dead"})
  /\ \/ Symbol = Eol /\ Read(parser, NoMark) /\ UNCHANGED channel
     \/ Symbol # Eol /\ Fail("CLOSED_CONNECTION")

Parse ==
  \/ ReadMethod \/ ReadUrl \/ ReadFieldStart \/ ReadField
  \/ ReadEmptyValue \/ ReadValueStart \/ ReadContentLength
  \/ ReadLengthDigit \/ ReadValue \/ ReadValueEnd
  \/ EndHead \/ EndTrailer \/ ReadBody \/ ReadChunkSize \/ ReadChunkHeader
  \/ ReadChunkData \/ EndChunkData \/ ReadDead

-----------------------------------------------------------------------------
(* The channel *)

\* Slip: a new chunk is parsed although an earlier one was refused.
ResumeAlways(p) == [p EXCEPT !.errno = "OK"]

\* http_parser_execute begins: an error found before stays.
Resume(p) == p

\* A name, value or url that the last chunk left unfinished is marked.
OnData ==
  /\ isOpen /\ ~Handling
  /\ \E n \in (chunkEnd + 1)..Len(stream) : chunkEnd' = n
  /\ parser' = Resume(parser)
  /\ IF parser'.errno # "OK"
       THEN pos' = chunkEnd' /\ mark' = NoMark
       ELSE /\ pos' = pos
            /\ mark' = IF parser.state \in {"url", "field", "value"}
                         THEN [part |-> parser.state, bytes |-> <<>>] ELSE NoMark
  /\ UNCHANGED <<stream, channel, received, answers, isOpen>>

\* The chunk is parsed: what it holds of an unfinished part is passed on.
EndOfChunk ==
  /\ pos = chunkEnd /\ mark # NoMark
  /\ mark' = NoMark
  /\ channel' = HeadAfter(mark.part, mark.bytes)
  /\ received' = IF mark.part = "body" THEN OnBody(mark.bytes) ELSE received
  /\ UNCHANGED <<stream, pos, chunkEnd, parser, answers, isOpen>>

\* Channel::close, after a timeout or when the client has shut down.
Close ==
  /\ isOpen /\ ~Handling
  /\ isOpen' = FALSE
  /\ UNCHANGED <<stream, pos, chunkEnd, parser, mark, channel, received, answers>>

Work == Parse /\ UNCHANGED <<stream, chunkEnd, isOpen>>

Init ==
  /\ stream \in Streams
  /\ pos = 0
  /\ chunkEnd = 0
  /\ parser = [state |-> "start_req", errno |-> "OK", method |-> "none",
               version |-> "HTTP/0.9", flags |-> {}, headerState |-> "general",
               contentLength |-> 0, upgrade |-> FALSE]
  /\ mark = NoMark
  /\ channel = [urlOrStatus |-> <<>>, field |-> <<>>, value |-> <<>>,
                valueValid |-> FALSE, headers |-> {}]
  /\ received = <<>>
  /\ answers = <<>>
  /\ isOpen = TRUE

Next == OnData \/ Work \/ EndOfChunk \/ Close

Spec == Init /\ [][Next]_vars
-----------------------------------------------------------------------------
(* Properties *)

Mark == [part : {"none", "url", "field", "value", "body"}, bytes : Text]

Parser == [state : States, errno : Errors, method : Methods \cup {"none"},
           version : Versions \cup {"HTTP/0.9"}, flags : SUBSET Flags,
           headerState : HeaderStates, contentLength : 0..MaxLength,
           upgrade : BOOLEAN]

HeadParts == [urlOrStatus : Text, field : Text, value : Text, valueValid : BOOLEAN,
              headers : SUBSET (Text \X Text)]

Message == [method : Methods \cup {"none"}, url : Text,
            headers : SUBSET (Text \X Text),
            version : Versions \cup {"HTTP/0.9"}, chunked : BOOLEAN,
            body : Text, ended : BOOLEAN]

Response == [status : {200, 404}, content : BOOLEAN, close : BOOLEAN]

\* Every variable keeps its type; in particular a content length never leaves
\* the range of its integer, whatever digits a client writes.
TypeOK ==
  /\ stream \in Seq(Symbols)
  /\ pos \in 0..chunkEnd
  /\ chunkEnd \in 0..Len(stream)
  /\ parser \in Parser
  /\ mark \in Mark
  /\ channel \in HeadParts
  /\ received \in Seq(Message)
  /\ answers \in Seq(Response)
  /\ isOpen \in BOOLEAN

InMessage(p) ==
  \/ p.state \in {"body_identity", "chunk_size_start", "chunk_size",
                  "chunk_data", "chunk_data_done"}
  \/ /\ "TRAILING" \in p.flags
     /\ p.state \in {"field_start", "field", "value_start", "value"}

\* The calls of onRequest, onBody and onEnd come in that order, message by
\* message: a message is at its end when the next one's onRequest is called,
\* and exactly one is open while the parser reads a body or a trailer.
MessagesAreFramed ==
  /\ \A i \in 1..(Current - 1) : received[i].ended
  /\ InMessage(parser) => Current > 0 /\ ~received[Current].ended
  /\ ~InMessage(parser) => Current = 0 \/ received[Current].ended

\* After a response with Connection: close no further request is handled; and
\* the parser refuses further requests only when the last response said so.
\* The exceptions: the trailer of a chunked message comes after the response,
\* and its Connection: close, or keep-alive in HTTP/1.0, counts.
CloseIsAnnounced ==
  /\ \A i \in 1..(Current - 1) :
       answers[i].close => received[i].chunked /\ received[i].version # "HTTP/1.1"
  /\ parser.state = "dead" => answers[Current].close \/ received[Current].chunked
=============================================================================
