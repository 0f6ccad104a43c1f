-------------------------------- MODULE Cast --------------------------------
(***************************************************************************)
(* The getters and setters of Parameters (src/Parameters.cpp) and the      *)
(* casts between texts and unsigned integers (src/cast.hpp) they use.      *)
(*                                                                         *)
(* Characters are their codes.  A getter, and the loop of its cast, run in *)
(* steps, so that what they have read so far can be spoken of.             *)
(***************************************************************************)
EXTENDS Naturals, Sequences

CONSTANT
  Max          \* Max[g]: numeric_limits<D>::max() of the type getter g reads

Getters == {"state", "percentage", "byte", "word"}

ASSUME MaxAssumption ==
  /\ \A g \in Getters : Max[g] \in Nat
  /\ Max["percentage"] >= 99

VARIABLE
  reader       \* the getter that is called, and the locals of its cast

Char  == 0..255
Text  == Seq(Char)
Plus  == 43
Minus == 45
Digit == 48..57
Zero  == 48
On    == <<111, 110>>
Off   == <<111, 102, 102>>

-----------------------------------------------------------------------------
(* Setters *)

\* Slip: the digits are left in the order they are computed.
NumeralReversed(n) ==
  LET digits[m \in 0..n] ==
        IF m < 10 THEN <<Zero + m>> ELSE <<Zero + (m % 10)>> \o digits[m \div 10]
  IN digits[n]

\* The cast of an integer to a text.
Numeral(n) ==
  LET digits[m \in 0..n] ==
        IF m < 10 THEN <<Zero + m>> ELSE digits[m \div 10] \o <<Zero + (m % 10)>>
  IN digits[n]

\* setState, which has the two texts the wrong way round, setByte and setWord.
SetText(setter, value) ==
  IF setter = "state" THEN IF value # 0 THEN Off ELSE On ELSE Numeral(value)

-----------------------------------------------------------------------------
(* Getters *)

Idle == [getter |-> "state", text |-> <<>>, it |-> 0, negative |-> FALSE,
         value |-> 0, number |-> 0, status |-> "idle"]

TooLong(getter, text) == getter = "percentage" /\ Len(text) > 2

Signed(text) == text # <<>> /\ text[1] \in {Plus, Minus}

\* Where the digits begin: behind the sign.
Begin(text) == IF Signed(text) THEN 1 ELSE 0

\* getState compares; getByte, getPercentage and getWord begin a cast.
Get(getter, text) ==
  reader' =
    [getter |-> getter, text |-> text, it |-> Begin(text),
     negative |-> Signed(text) /\ text[1] = Minus,
     value |-> IF getter = "state" /\ text = On THEN 1 ELSE 0,
     number |-> 0,
     status |-> IF getter = "state" THEN "value"
                ELSE IF TooLong(getter, text) THEN "null" ELSE "cast"]

Greatest == Max[reader.getter]
Modulus  == Greatest + 1

\* Slip: the next value has to be greater by two.
OverflowsBelow(next) ==
  LET offset == IF reader.negative THEN Greatest ELSE 0
  IN (offset + next) % Modulus <= reader.value + 1

\* UD(offset + nextValue) <= value
Overflows(next) ==
  LET offset == IF reader.negative THEN Greatest ELSE 0
  IN (offset + next) % Modulus <= reader.value

\* One round of cast's loop; reader.number is the number without a limit.
CastCharacter ==
  /\ reader.status = "cast"
  /\ reader.it < Len(reader.text)
  /\ LET ch   == reader.text[reader.it + 1]
         next == (10 * reader.value + ch - Zero) % Modulus
     IN reader' =
          IF ch \in Digit /\ ~Overflows(next)
            THEN [reader EXCEPT !.it = @ + 1, !.value = next,
                                !.number = 10 * @ + ch - Zero]
            ELSE [reader EXCEPT !.status = "null"]

\* Slip: the negative of 0 is not 0.
NegativeOf(value) == Modulus - value

Negative(value) == (Modulus - value) % Modulus

CastEnd ==
  /\ reader.status = "cast"
  /\ reader.it = Len(reader.text)
  /\ reader' = [reader EXCEPT
       !.status = "value",
       !.value = IF reader.negative THEN Negative(@) ELSE @]

Cast == CastCharacter \/ CastEnd

CastInit == reader = Idle

CastNext ==
  \/ \E getter \in Getters, text \in Text : reader.status = "idle" /\ Get(getter, text)
  \/ Cast

CastSpec == CastInit /\ [][CastNext]_reader

-----------------------------------------------------------------------------
(* Properties *)

Statuses == {"idle", "cast", "null", "value"}

Reader == [getter : Getters, text : Text, it : Nat, negative : BOOLEAN,
           value : Nat, number : Nat, status : Statuses]

\* The locals keep their types: a value stays in the range of its integer, and
\* the text is never read beyond its end.
ReaderOK ==
  /\ reader \in Reader
  /\ reader.it <= Len(reader.text)
  /\ reader.getter # "state" => reader.value <= Greatest

\* There is nothing but digits behind the sign, or nothing at all; the first of
\* them is 0.
OnlyDigits(text) == \A i \in DOMAIN text : i > Begin(text) => text[i] \in Digit
LeadingZero(text) == Begin(text) < Len(text) /\ text[Begin(text) + 1] = Zero

\* The number in reader.text is too great for the type, from some digit on.
OutOfRange ==
  \/ reader.number > Greatest
  \/ /\ reader.it < Len(reader.text)
     /\ 10 * reader.number + reader.text[reader.it + 1] - Zero > Greatest

\* What a getter makes of any text.  A value comes only of a text that has
\* nothing but digits behind its sign, or nothing, which counts as 0.  If the sign
\* is no minus, the digits do not begin with 0, and the value is the number
\* they stand for, unless that is out of range, which it never is for
\* getPercentage.  Null comes only of another character, a minus, a leading 0, a
\* number out of range, or a percentage of more than two characters.  Of the value
\* behind a minus, or of a number out of range, nothing is said.  This is less than
\* "Returns null value if conversion is not possible" (cast.hpp): "300" as a byte is
\* 44, "-5" as a percentage 251, "" is 0, and "0" is null.
NumberAsWritten ==
  reader.getter # "state" =>
    /\ reader.status = "value" => OnlyDigits(reader.text)
    /\ reader.status = "value" /\ ~reader.negative =>
         /\ ~LeadingZero(reader.text)
         /\ reader.getter = "percentage" \/ ~OutOfRange => reader.value = reader.number
    /\ reader.status = "null" /\ OnlyDigits(reader.text) /\ ~reader.negative =>
         LeadingZero(reader.text) \/ TooLong(reader.getter, reader.text) \/ OutOfRange
=============================================================================
