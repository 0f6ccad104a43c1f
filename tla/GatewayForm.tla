---------------------------- MODULE GatewayForm -----------------------------
(***************************************************************************)
(* The way of parameters between a client and a node: the form that        *)
(* Gateway::onRequest (src/Gateway.cpp) writes for a GET, the loop that    *)
(* takes the query of a POST apart, and the getters of Parameters          *)
(* (src/Parameters.cpp), whose numbers src/cast.hpp reads.                 *)
(*                                                                         *)
(* Characters are their codes, so that the arithmetic on them is that of   *)
(* the code.  A form is written by the gateway, and sent back as it is, or *)
(* by a client, which may escape more than it has to and may put an        *)
(* argument that means nothing in front.  In both cases `meant' is what    *)
(* its writer means, character by character.                               *)
(***************************************************************************)
EXTENDS Cast

CONSTANTS
  Tracked,     \* what command objects set: functions from keys to [setter, value]
  Posts,       \* parameters that clients mean: functions from keys to texts
  Junk         \* arguments that clients write first

VARIABLES
  writer,      \* who writes the form
  tracked,     \* what the gateway was told, no function for a client
  meant,       \* the parameters the writer means, as texts
  left,        \* keys not yet begun
  entry,       \* the key being written and the characters of its text written
  form,        \* local data, or the query of the url
  argStartPos, \* local of the loop that takes it apart, counted from 1
  parameters,  \* local Parameters of onRequest
  key          \* the parameter that the getter reads

writerVars == <<writer, tracked, meant, left, entry>>
loopVars   == <<argStartPos, parameters>>
vars       == <<writerVars, form, loopVars, key, reader>>

Space   == 32
Percent == 37
And     == 38
Equals  == 61
Unreserved == Digit \cup 65..90 \cup 97..122 \cup {45, 46, 95, 126}

Nobody == [key |-> <<>>, at |-> 0]

\* Names of parameters, like position.blinds, are written as they are.
Name == Seq(Unreserved) \ {<<>>}

\* What is tracked is in the range of its setter, whose types are those of the
\* getters: setByte takes a uint8_t, setWord a uint16_t.
ASSUME FormAssumption ==
  /\ \A values \in Tracked : \A k \in DOMAIN values :
       /\ k \in Name
       /\ values[k] \in [setter : {"state", "byte", "word"}, value : Nat]
       /\ values[k].setter # "state" => values[k].value <= Max[values[k].setter]
  /\ \A texts \in Posts : \A k \in DOMAIN texts : k \in Name /\ texts[k] \in Text
  /\ Junk \subseteq Text
  /\ Max["byte"] <= Max["word"]

-----------------------------------------------------------------------------
(* Writing a form *)

Hex(n, letter) == IF n < 10 THEN 48 + n ELSE letter + n - 10

Escape(ch, letter) == <<Percent, Hex(ch \div 16, letter), Hex(ch % 16, letter)>>

\* encodeQuery, for one character.
Encoded(ch) ==
  CASE ch \in Unreserved -> <<ch>>
    [] ch = Space -> <<Plus>>
    [] ch \notin Unreserved \cup {Space} -> Escape(ch, 65)

\* What else a client may write for a character.
Escapes(ch) ==
  {Encoded(ch), Escape(ch, 65), Escape(ch, 97)}
    \cup IF ch = Equals THEN {<<ch>>} ELSE {}

BeginEntry(k) ==
  /\ k \in left
  /\ entry.at = Len(IF entry = Nobody THEN <<>> ELSE meant[entry.key])
  /\ left' = left \ {k}
  /\ entry' = [key |-> k, at |-> 0]
  /\ form' = form \o (IF form = <<>> THEN <<>> ELSE <<And>>) \o k \o <<Equals>>
  /\ UNCHANGED <<writer, tracked, meant, loopVars, key, reader>>

WriteCharacter ==
  /\ entry # Nobody
  /\ entry.at < Len(meant[entry.key])
  /\ entry' = [entry EXCEPT !.at = @ + 1]
  /\ LET ch == meant[entry.key][entry.at + 1]
     IN \E bytes \in IF writer = "gateway" THEN {Encoded(ch)} ELSE Escapes(ch) :
          form' = form \o bytes
  /\ UNCHANGED <<writer, tracked, meant, left, loopVars, key, reader>>

Written == left = {} /\ (entry = Nobody \/ entry.at = Len(meant[entry.key]))

-----------------------------------------------------------------------------
(* Taking it apart *)

\* char hex; what is no hex digit counts as 0.
HexValue(ch) ==
  CASE ch \in Digit   -> ch - 48
    [] ch \in 97..102 -> ch - 97 + 10
    [] ch \in 65..70  -> ch - 65 + 10
    [] OTHER -> 0

\* Slip: an escape at the very end is taken for one that is cut off.
EscapeFitsNot(i, end) == i + 3 < end

EscapeFits(i, end) == i + 2 < end

\* decodeQuery of form[start .. end - 1]; an escape that is cut off ends it.
DecodeQuery(start, end) ==
  LET rest[i \in start..end] ==
        CASE i = end -> <<>>
          [] i < end /\ form[i] = Plus -> <<Space>> \o rest[i + 1]
          [] i < end /\ form[i] = Percent ->
               IF EscapeFits(i, end)
                 THEN <<(16 * HexValue(form[i + 1]) + HexValue(form[i + 2])) % 256>>
                        \o rest[i + 3]
                 ELSE <<>>
          [] OTHER -> <<form[i]>> \o rest[i + 1]
  IN rest[start]

\* query.find, and the length of the query when it finds nothing.
Find(ch, from) ==
  LET at == {i \in from..Len(form) : form[i] = ch}
  IN IF at = {} THEN Len(form) + 1 ELSE CHOOSE i \in at : \A j \in at : i <= j

HasValue(eqPos, argEndPos) == eqPos < argEndPos

\* One round of the loop over the arguments; one without = is left out.
ParseArgument ==
  /\ Written
  /\ argStartPos <= Len(form)
  /\ LET argEndPos == Find(And, argStartPos)
         eqPos == Find(Equals, argStartPos)
         name == SubSeq(form, argStartPos, eqPos - 1)
     IN /\ argStartPos' = argEndPos + 1
        /\ parameters' =
             IF HasValue(eqPos, argEndPos)
               THEN [k \in DOMAIN parameters \cup {name} |->
                       IF k = name THEN DecodeQuery(eqPos + 1, argEndPos) ELSE parameters[k]]
               ELSE parameters
  /\ UNCHANGED <<writerVars, form, key, reader>>

Parsed == Written /\ argStartPos > Len(form)

-----------------------------------------------------------------------------
(* Reading it *)

\* A command object that handles the POST asks for one of its parameters.
GetParameter(getter, k) ==
  /\ Parsed
  /\ reader.status = "idle"
  /\ Get(getter, parameters[k])
  /\ key' = k
  /\ UNCHANGED <<writerVars, form, loopVars>>

Read == Cast /\ UNCHANGED <<writerVars, form, loopVars, key>>

Texts(values) == [k \in DOMAIN values |-> SetText(values[k].setter, values[k].value)]

Init ==
  /\ \/ /\ writer = "gateway" /\ form = <<>>
        /\ tracked \in Tracked /\ meant = Texts(tracked)
     \/ /\ writer = "client" /\ form \in Junk
        /\ tracked = <<>> /\ meant \in Posts
  /\ left = DOMAIN meant
  /\ entry = Nobody
  /\ argStartPos = 1
  /\ parameters = <<>>
  /\ key = <<>>
  /\ CastInit

Next == \/ \E k \in left : BeginEntry(k)
        \/ WriteCharacter \/ ParseArgument
        \/ \E getter \in Getters, k \in DOMAIN parameters : GetParameter(getter, k)
        \/ Read

Spec == Init /\ [][Next]_vars

-----------------------------------------------------------------------------
(* Properties *)

\* The variables keep their types; a decoded character stays in the range of
\* char, and a value in that of its integer, whatever a client writes.
TypeOK ==
  /\ form \in Text
  /\ argStartPos \in 1..(Len(form) + 2)
  /\ \A k \in DOMAIN parameters : k \in Text /\ parameters[k] \in Text
  /\ ReaderOK

\* A parameter arrives as its writer meant it, however it was escaped,
\* whatever characters it has and whatever stands in front of it.
ParsedAsMeant ==
  Parsed => \A k \in DOMAIN meant :
    k \in DOMAIN parameters /\ parameters[k] = meant[k]

\* The getter has the range of the setter, or the value has that of both.
Fits(getter, p) ==
  CASE getter = "word"       -> p.setter \in {"byte", "word"}
    [] getter = "byte"       -> p.setter = "byte"
    [] getter = "percentage" -> p.setter = "byte" /\ p.value <= 99
    [] getter = "state"      -> FALSE

\* A client that sends back what it was told sets what was told: a byte or a
\* word that was set and reported is read as the same number, unless it is 0.
ReportedIsReadBack ==
  writer = "gateway" /\ reader.status \in {"null", "value"} =>
    LET p == tracked[key]
    IN Fits(reader.getter, p) /\ p.value # 0 =>
         reader.status = "value" /\ reader.value = p.value
=============================================================================
