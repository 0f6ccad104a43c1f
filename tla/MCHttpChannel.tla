--------------------------- MODULE MCHttpChannel ----------------------------
(* Clients that write one or two messages of every kind the parser tells     *)
(* apart, and a few in which any one byte is garbled.                        *)
EXTENDS HttpClient

NodeUrl == <<"/node/", "3">>

MCNodeUrls == {NodeUrl}

H(name, value) == [name |-> name, value |-> value]

Msg(method, url, headers) ==
  [method |-> method, url |-> url, version |-> "HTTP/1.1", headers |-> headers,
   body |-> <<>>, chunks |-> <<>>, trailer |-> <<>>]

Length(digits) == H(<<"content-length">>, digits)
ChunkedHeader  == H(<<"transfer-encoding">>, <<"chunked">>)
Connection(v)  == H(<<"connection">>, v)
XY             == H(<<"x", "y">>, <<"v", "w">>)

get       == Msg("GET", NodeUrl, <<XY>>)
empty     == Msg("GET", <<"/">>, <<H(<<"x">>, <<>>), H(<<"y">>, <<"v">>)>>)
post      == [Msg("POST", NodeUrl, <<Length(<<"2">>)>>) EXCEPT !.body = <<"b", Eol>>]
zero      == Msg("POST", NodeUrl, <<Length(<<"0">>)>>)
big       == Msg("POST", NodeUrl, <<Length(<<"2", "2", "2">>)>>)
chunks    == [Msg("POST", NodeUrl, <<ChunkedHeader>>) EXCEPT
                !.chunks = <<<<"b">>, <<"b", "c">>>>]
trailer   == [chunks EXCEPT !.chunks = <<<<"b">>>>, !.trailer = <<XY>>]
lateClose == [chunks EXCEPT !.chunks = <<<<"b">>>>, !.trailer = <<Connection(<<"close">>)>>]
lateKeep  == [chunks EXCEPT !.chunks = <<<<"b">>>>, !.version = "HTTP/1.0",
                            !.trailer = <<Connection(<<"keep-alive">>)>>]
close     == Msg("GET", NodeUrl, <<Connection(<<"close">>)>>)
list      == Msg("GET", NodeUrl, <<Connection(<<"keep-alive", ",", "x">>), XY>>)
listClose == Msg("GET", NodeUrl, <<Connection(<<"x", ",", "close">>)>>)
old       == [Msg("GET", NodeUrl, <<>>) EXCEPT !.version = "HTTP/1.0"]
oldKeep   == [Msg("GET", NodeUrl, <<Connection(<<"keep-alive">>)>>) EXCEPT
                !.version = "HTTP/1.0"]
repeat    == Msg("GET", NodeUrl,
                 <<H(<<"x">>, <<"v">>), H(<<"x">>, <<"w">>), H(<<"y">>, <<"v">>)>>)
upgrade   == Msg("GET", NodeUrl,
                 <<Connection(<<"upgrade">>), H(<<"upgrade">>, <<"v">>)>>)
connect   == Msg("CONNECT", <<"/">>, <<>>)
both      == [chunks EXCEPT !.headers = <<ChunkedHeader, Length(<<"2">>)>>]
mixed     == Msg("POST", NodeUrl, <<H(<<"transfer-encoding">>, <<"chunked", ",", "x">>)>>)
twice     == [post EXCEPT !.headers = <<Length(<<"2">>), Length(<<"2">>)>>]
put       == Msg("PUT", NodeUrl, <<>>)

First  == {get, empty, post, zero, big, chunks, trailer, lateClose, lateKeep,
           close, list, listClose, old, oldKeep, repeat, upgrade, connect, both, mixed, twice,
           put}
Second == {get, post, chunks, close}

MCScripts == {<<a, b>> : a \in First, b \in Second} \cup
             {<<post, get, post>>, <<oldKeep, chunks, get>>}
MCGarbled == {<<a, get>> : a \in {get, post, chunks, close}}
MCStreams ==
  {Garble(ScriptBytes(s), 0) : s \in MCScripts} \cup
  UNION {{Garble(ScriptBytes(s), n) : n \in 1..Len(ScriptBytes(s))} : s \in MCGarbled}
=============================================================================
