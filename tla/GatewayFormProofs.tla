-------------------------- MODULE GatewayFormProofs --------------------------
(***************************************************************************)
(* What holds of the getters of Parameters and of their casts, and of the  *)
(* forms parameters travel in, for every text and every range of the       *)
(* integers, proved with TLAPS.                                            *)
(*                                                                         *)
(* Getters.  The overflow check of a cast compares the next value with the *)
(* one before.  That it lets pass what is in range holds because a number  *)
(* that is not 0 grows with each digit, and a numeral without a leading 0  *)
(* is never 0 after its first digit: Counted says so of what the loop has  *)
(* read behind a sign that is no minus.                                    *)
(*                                                                         *)
(* Numerals and queries.  Numeral and DecodeQuery are defined by recursion *)
(* on numbers.  That the functions exist, and what they return, is shown   *)
(* for the least number for which it would be wrong.                       *)
(*                                                                         *)
(* Forms.  FormInv tells where in the form each parameter stands, that     *)
(* every argument after the first of them is one, and which of them the    *)
(* loop has passed.                                                        *)
(***************************************************************************)
EXTENDS GatewayForm, SequenceTheorems, WellFoundedInduction, TLAPS

Unsigned(text) == text # <<>> /\ ~Signed(text)

\* Why a text was refused.
Refused ==
  \/ TooLong(reader.getter, reader.text)
  \/ /\ reader.it < Len(reader.text)
     /\ reader.text[reader.it + 1] \notin Digit
  \/ reader.negative
  \/ LeadingZero(reader.text)
  \/ OutOfRange

\* What the loop has counted of a text without a minus.
Counted ==
  LET first == Begin(reader.text)
  IN /\ reader.it = first => reader.number = 0 /\ reader.value = 0
     /\ reader.it > first => reader.text[first + 1] # Zero /\ reader.number >= 1
     /\ reader.it = 1 => reader.number <= 9
     /\ reader.it = 2 => reader.number <= 99
     /\ reader.number <= Greatest => reader.value = reader.number

\* What the loop has read.
Loop ==
  /\ reader.negative => Signed(reader.text)
  /\ Begin(reader.text) <= reader.it
  /\ \A i \in 1..reader.it : i > Begin(reader.text) => reader.text[i] \in Digit
  /\ ~reader.negative => Counted
  /\ reader.status # "null" => ~TooLong(reader.getter, reader.text)
  /\ reader.status = "value" => reader.it = Len(reader.text)
  /\ reader.status = "null" => Refused

LoopInv == reader.getter # "state" => Loop

CastInv ==
  /\ ReaderOK
  /\ reader.status \in {"cast", "null"} => reader.getter # "state"
  /\ LoopInv

-----------------------------------------------------------------------------

\* The remainder in the range of an integer.
LEMMA ModRange ==
  ASSUME NEW x \in Nat, NEW m \in Nat \ {0}
  PROVE  /\ x % m \in 0..(m - 1)
         /\ x < m => x % m = x
BY SMT

LEMMA Bounds ==
  /\ \A g \in Getters : Max[g] \in Nat
  /\ Max["percentage"] >= 99
BY MaxAssumption

\* The range of the getter that runs.
LEMMA Ranges ==
  ASSUME reader \in Reader
  PROVE  /\ Greatest \in Nat
         /\ Modulus \in Nat \ {0}
         /\ Modulus = Greatest + 1
         /\ reader.getter = "percentage" => Greatest >= 99
<1>1. reader.getter \in Getters
  BY DEF Reader
<1>2. Greatest \in Nat
  BY <1>1, Bounds DEF Greatest
<1>3. Modulus = Greatest + 1
  BY DEF Modulus
<1>4. reader.getter = "percentage" => Greatest >= 99
  BY Bounds DEF Greatest
<1> QED BY <1>2, <1>3, <1>4

\* A sign is one character.
LEMMA BeginFacts ==
  ASSUME NEW text \in Text
  PROVE  /\ Begin(text) \in {0, 1} /\ Begin(text) <= Len(text)
         /\ ~Signed(text) => Begin(text) = 0
<1>1. Len(text) \in Nat /\ (text # <<>> => Len(text) >= 1)
  BY DEF Text
<1> QED BY <1>1 DEF Begin, Signed

\* A getter begins.
LEMMA GetStep ==
  ASSUME CastInv, NEW getter \in Getters, NEW text \in Text, Get(getter, text)
  PROVE  CastInv'
<1> DEFINE r == reader'
<1>1. /\ r.getter = getter /\ r.text = text /\ r.number = 0
      /\ r.it = Begin(text)
      /\ r.negative = (Signed(text) /\ text[1] = Minus)
      /\ r.value = (IF getter = "state" /\ text = On THEN 1 ELSE 0)
      /\ r.status = IF getter = "state" THEN "value"
                    ELSE IF TooLong(getter, text) THEN "null" ELSE "cast"
  BY DEF Get
<1>2. r \in Reader
  BY BeginFacts DEF Get, Reader, Statuses
<1>3. Len(text) \in Nat /\ Begin(text) \in {0, 1} /\ Begin(text) <= Len(text)
  BY BeginFacts DEF Text
<1>4. Max[getter] \in Nat
  BY Bounds
<1>5. ReaderOK'
  BY <1>1, <1>2, <1>3, <1>4 DEF ReaderOK, Greatest
<1>6. LoopInv'
  <2> SUFFICES ASSUME getter # "state"
               PROVE  Loop'
    BY <1>1 DEF LoopInv
  <2>1. /\ r.number = 0 /\ r.value = 0
        /\ r.status = IF TooLong(getter, text) THEN "null" ELSE "cast"
    BY <1>1
  <2>2. TooLong(getter, text) => Refused'
    BY <1>1 DEF Refused
  <2>3. Counted'
    BY <1>1, <1>3, <2>1 DEF Counted
  <2>4. \A i \in 1..r.it : ~(i > Begin(text))
    BY <1>1, <1>3
  <2>5. r.it <= Len(text) /\ r.it >= Begin(text)
    BY <1>1, <1>3
  <2> HIDE DEF r
  <2> QED BY <1>1, <1>3, <2>1, <2>2, <2>3, <2>4, <2>5 DEF Loop, r
<1>7. r.status \in {"cast", "null"} => r.getter # "state"
  BY <1>1
<1> QED BY <1>5, <1>6, <1>7 DEF CastInv

\* One round of the loop: what a digit does to value and number.
LEMMA CharacterStep ==
  ASSUME CastInv, CastCharacter
  PROVE  CastInv'
<1> DEFINE ch   == reader.text[reader.it + 1]
           next == (10 * reader.value + ch - Zero) % Modulus
           ok   == ch \in Digit /\ ~Overflows(next)
<1>1. /\ reader \in Reader
      /\ reader.status = "cast"
      /\ reader.it \in Nat /\ reader.it < Len(reader.text)
      /\ reader.value \in Nat /\ reader.number \in Nat
      /\ reader.text \in Seq(Char)
      /\ reader.getter # "state" /\ reader.value <= Greatest
  BY DEF CastInv, ReaderOK, CastCharacter, Reader, Text
<1>2. /\ Greatest \in Nat /\ Modulus \in Nat \ {0} /\ Modulus = Greatest + 1
      /\ reader.getter = "percentage" => Greatest >= 99
  BY <1>1, Ranges
<1>3. /\ ok => reader' = [reader EXCEPT !.it = @ + 1, !.value = next,
                                        !.number = 10 * @ + ch - Zero]
      /\ ~ok => reader' = [reader EXCEPT !.status = "null"]
  BY DEF CastCharacter
<1>4. ch \in Nat /\ (ch \in Digit => ch \in 48..57)
  <2>1. reader.it + 1 \in 1..Len(reader.text)
    BY <1>1
  <2>2. ch \in Char
    BY <1>1, <2>1
  <2> HIDE DEF ch
  <2> QED BY <2>2 DEF Char, Digit
<1>9. /\ ch = reader.text[reader.it + 1]
      /\ next = (10 * reader.value + ch - Zero) % Modulus
      /\ ok <=> ch \in Digit /\ ~Overflows(next)
  OBVIOUS
<1> HIDE DEF ch, next, ok
<1> DEFINE first == Begin(reader.text)
<1>10. first = Begin(reader.text) /\ first \in {0, 1} /\ first <= Len(reader.text)
  BY <1>1, BeginFacts DEF Text
<1> HIDE DEF first
<1>5. ch \in Digit =>
        /\ next \in 0..Greatest
        /\ 10 * reader.value + ch - Zero \in Nat
        /\ 10 * reader.number + ch - Zero \in Nat
  <2> SUFFICES ASSUME ch \in 48..57
               PROVE  /\ next \in 0..Greatest
                      /\ 10 * reader.value + ch - Zero \in Nat
                      /\ 10 * reader.number + ch - Zero \in Nat
    BY <1>4
  <2>1. /\ 10 * reader.value + ch - Zero \in Nat
        /\ 10 * reader.number + ch - Zero \in Nat
    BY <1>1 DEF Zero
  <2> DEFINE x == 10 * reader.value + ch - Zero
  <2>2. x \in Nat /\ next = x % Modulus
    BY <2>1, <1>9
  <2> HIDE DEF x
  <2>3. next \in 0..Greatest
    BY <2>2, <1>2, ModRange
  <2> QED BY <2>1, <2>3
<1>6. /\ reader'.getter = reader.getter /\ reader'.text = reader.text
      /\ reader'.negative = reader.negative
      /\ Greatest' = Greatest
  BY <1>1, <1>3 DEF Greatest, Reader
<1>7. CASE ~ok
  <2>1. /\ reader'.it = reader.it /\ reader'.value = reader.value
        /\ reader'.number = reader.number /\ reader'.status = "null"
        /\ reader' \in Reader
    BY <1>1, <1>3, <1>7 DEF Reader, Statuses
  <2>2. ReaderOK'
    BY <1>1, <1>6, <2>1 DEF ReaderOK, CastInv
  <2>3. LoopInv'
    <3>1. Loop
      BY <1>1 DEF CastInv, LoopInv
    <3>2. (Refused' <=> Refused) /\ (Counted' <=> Counted)
      BY <1>6, <2>1 DEF Refused, OutOfRange, Counted
    <3>6. SUFFICES Refused
      BY <1>6, <2>1, <3>1, <3>2 DEF Loop, LoopInv
    <3>3. CASE ch \notin Digit
      BY <1>1, <1>9, <3>3 DEF Refused
    <3>4. CASE ch \in Digit /\ ~LeadingZero(reader.text) /\ ~OutOfRange /\ ~reader.negative
      <4>8. Counted /\ first <= reader.it /\ first \in {0, 1}
        BY <3>1, <3>4, <1>10 DEF Loop
      <4>1. reader.number <= Greatest /\ 10 * reader.number + ch - Zero <= Greatest
        <5>1. ~(10 * reader.number + ch - Zero > Greatest) /\ ~(reader.number > Greatest)
          BY <1>1, <1>9, <3>4 DEF OutOfRange
        <5>2. 10 * reader.number + ch - Zero \in Nat
          BY <1>5, <3>4
        <5> QED BY <5>1, <5>2, <1>1, <1>2
      <4>2. reader.value = reader.number
        BY <4>1, <4>8 DEF Counted
      <4>3. /\ 10 * reader.value + ch - Zero \in Nat
            /\ 10 * reader.value + ch - Zero < Modulus
        BY <1>1, <1>2, <1>5, <3>4, <4>1, <4>2
      <4>4. next = 10 * reader.value + ch - Zero
        BY <4>3, <1>2, <1>9, ModRange
      <4>5. next % Modulus = next
        BY <4>3, <4>4, <1>2, ModRange
      <4>6. next > reader.value
        <5>1. CASE reader.it = first
          <6>1. ch # Zero /\ reader.value = 0
            BY <4>8, <3>4, <5>1, <1>1, <1>9, <1>10 DEF Counted, LeadingZero
          <6>2. ch \in 48..57 /\ ch # 48
            BY <6>1, <3>4, <1>4 DEF Zero
          <6> QED BY <6>1, <6>2, <4>4 DEF Zero
        <5>2. CASE reader.it > first
          <6>1. reader.value >= 1
            BY <4>8, <4>2, <5>2, <1>1, <1>10 DEF Counted
          <6>2. ch \in 48..57
            BY <3>4, <1>4
          <6> QED BY <6>1, <6>2, <4>4, <1>1 DEF Zero
        <5> QED BY <5>1, <5>2, <4>8, <1>1
      <4>7. ~Overflows(next)
        <5>1. 0 + next = next /\ next \in Nat
          BY <1>2, <1>5, <3>4
        <5>2. Overflows(next) <=> next % Modulus <= reader.value
          BY <3>4, <5>1 DEF Overflows
        <5> QED BY <4>5, <4>6, <5>1, <5>2, <1>1
      <4> QED BY <1>7, <1>9, <3>4, <4>7
    <3>5. CASE LeadingZero(reader.text) \/ OutOfRange \/ reader.negative
      BY <3>5 DEF Refused
    <3> QED BY <3>3, <3>4, <3>5
  <2> QED BY <1>1, <1>6, <2>2, <2>3 DEF CastInv
<1>8. CASE ok
  <2>1. /\ reader'.it = reader.it + 1 /\ reader'.value = next
        /\ reader'.number = 10 * reader.number + ch - Zero
        /\ reader'.status = "cast"
    BY <1>1, <1>3, <1>8 DEF Reader
  <2>2. /\ ch \in Digit /\ ~Overflows(next) /\ ch \in 48..57
        /\ 10 * reader.number + ch - Zero \in Nat /\ next \in Nat /\ next <= Greatest
    BY <1>2, <1>4, <1>5, <1>8, <1>9
  <2>3. reader' \in Reader
    <3>1. reader.it + 1 \in Nat
      BY <1>1
    <3> HIDE DEF Text
    <3> DEFINE n == 10 * reader.number + ch - Zero
    <3>2. n \in Nat
      BY <2>2
    <3>3. reader' = [reader EXCEPT !.it = reader.it + 1, !.value = next, !.number = n]
      BY <1>3, <1>8
    <3> HIDE DEF n
    <3> QED BY <1>1, <2>2, <3>1, <3>2, <3>3 DEF Reader, Statuses
  <2>4. ReaderOK'
    <3>1. reader'.it <= Len(reader'.text)
      BY <1>1, <1>6, <2>1
    <3>2. reader'.value <= Greatest'
      BY <1>6, <2>1, <2>2
    <3> QED BY <2>3, <3>1, <3>2 DEF ReaderOK
  <2>5. LoopInv'
    <3>1. Loop /\ first <= reader.it
      BY <1>1, <1>10 DEF CastInv, LoopInv, Loop
    <3>2. ch \in Digit /\ ~Overflows(next)
      BY <2>2
    <3>3. \A i \in 1..reader'.it : i > first => reader'.text[i] \in Digit
      BY <1>1, <1>6, <1>9, <1>10, <2>1, <3>1, <3>2 DEF Loop
    <3>4. ASSUME ~reader.negative
          PROVE  Counted'
      <4>1. Counted
        BY <3>1, <3>4 DEF Loop
      <4>2. reader'.number <= Greatest => reader'.value = reader'.number
        <5> SUFFICES ASSUME 10 * reader.number + ch - Zero <= Greatest
                     PROVE  next = 10 * reader.number + ch - Zero
          BY <2>1
        <5>1. reader.number <= Greatest
          BY <1>1, <1>2, <2>2 DEF Zero
        <5>2. reader.value = reader.number
          BY <4>1, <5>1 DEF Counted
        <5>3. /\ 10 * reader.value + ch - Zero \in Nat
              /\ 10 * reader.value + ch - Zero < Modulus
          BY <5>2, <2>2, <1>2
        <5> QED BY <5>2, <5>3, <1>2, <1>9, ModRange
      <4>3. reader.text[first + 1] # Zero /\ reader'.number >= 1
        <5>1. CASE reader.it = first
          <6>1. reader.number = 0 /\ reader.value = 0
            BY <4>1, <5>1, <1>10 DEF Counted
          <6>2. ch # Zero
            <7> SUFFICES ASSUME ch = Zero PROVE FALSE
              OBVIOUS
            <7>1. 10 * reader.value + ch - Zero = 0
              BY <6>1 DEF Zero
            <7>2. 0 % Modulus = 0
              BY <1>2, ModRange
            <7>3. next = 0
              BY <7>1, <7>2, <1>9
            <7>4. ~((0 + next) % Modulus <= reader.value)
              BY <3>2, <3>4 DEF Overflows
            <7> QED BY <7>2, <7>3, <7>4, <6>1
          <6>3. 10 * reader.number + ch - Zero >= 1
            BY <6>1, <6>2, <2>2 DEF Zero
          <6> QED BY <5>1, <6>2, <6>3, <1>9, <2>1
        <5>2. CASE reader.it > first
          <6>1. reader.text[first + 1] # Zero /\ reader.number >= 1
            BY <4>1, <5>2, <1>10 DEF Counted
          <6>2. reader.number \in Nat /\ ch \in 48..57
            BY <1>1, <2>2
          <6>3. 10 * reader.number + ch - 48 >= 1
            BY <6>1, <6>2
          <6> QED BY <6>1, <6>3, <2>1 DEF Zero
        <5> QED BY <5>1, <5>2, <3>1, <1>1, <1>10
      <4>4. (reader'.it = 1 => reader'.number <= 9) /\ (reader'.it = 2 => reader'.number <= 99)
        <5>1. (reader.it = 0 => reader.number = 0) /\ (reader.it = 1 => reader.number <= 9)
          BY <4>1, <3>1, <1>10 DEF Counted
        <5>2. (reader'.it = 1 => reader.it = 0) /\ (reader'.it = 2 => reader.it = 1)
          BY <1>1, <2>1
        <5>3. reader.number <= 9 => 10 * reader.number + ch - Zero <= 99
          BY <1>1, <2>2 DEF Zero
        <5>4. reader.number = 0 => 10 * reader.number + ch - Zero <= 9
          BY <2>2 DEF Zero
        <5> QED BY <5>1, <5>2, <5>3, <5>4, <2>1
      <4>5. reader'.it # first
        BY <2>1, <3>1, <1>1, <1>10
      <4> QED BY <4>2, <4>3, <4>4, <4>5, <1>6, <1>10 DEF Counted
    <3>5. reader.negative => Signed(reader.text)
      BY <3>1 DEF Loop
    <3>6. first <= reader'.it
      BY <2>1, <3>1, <1>1, <1>10
    <3>7. ~TooLong(reader.getter, reader.text)
      BY <3>1, <1>1 DEF Loop
    <3> QED BY <3>3, <3>4, <3>5, <3>6, <3>7, <2>1, <1>6, <1>10 DEF Loop, LoopInv
  <2> QED BY <1>1, <1>6, <2>4, <2>5 DEF CastInv
<1> QED BY <1>7, <1>8

\* The loop ends.
LEMMA EndStep ==
  ASSUME CastInv, CastEnd
  PROVE  CastInv'
<1>1. /\ reader \in Reader /\ reader.status = "cast"
      /\ reader.it = Len(reader.text)
      /\ reader.value \in Nat
      /\ reader.getter # "state" /\ reader.value <= Greatest
  BY DEF CastInv, ReaderOK, CastEnd, Reader
<1>2. Greatest \in Nat /\ Modulus \in Nat \ {0} /\ Modulus = Greatest + 1
  BY <1>1, Ranges
<1> DEFINE new == IF reader.negative THEN Negative(reader.value) ELSE reader.value
<1>3. /\ reader' = [reader EXCEPT !.status = "value", !.value = new]
      /\ reader'.getter = reader.getter /\ reader'.text = reader.text
      /\ reader'.negative = reader.negative /\ reader'.it = reader.it
      /\ reader'.number = reader.number
      /\ reader'.status = "value" /\ reader'.value = new
      /\ Greatest' = Greatest
  BY <1>1 DEF CastEnd, Reader, Greatest
<1>4. new \in 0..Greatest
  <2>1. Modulus - reader.value \in Nat
    BY <1>1, <1>2
  <2>2. Negative(reader.value) \in 0..Greatest
    BY <2>1, <1>2, ModRange DEF Negative
  <2> QED BY <1>1, <1>2, <2>2
<1>5. new \in Nat
  BY <1>2, <1>4
<1> HIDE DEF new
<1>6. ReaderOK'
  <2>1. reader' \in Reader
    BY <1>1, <1>3, <1>5 DEF Reader, Statuses
  <2>2. reader'.getter # "state" => reader'.value <= Greatest'
    BY <1>2, <1>3, <1>4
  <2>3. reader'.it <= Len(reader'.text)
    BY <1>1, <1>3 DEF Reader
  <2> QED BY <2>1, <2>2, <2>3 DEF ReaderOK
<1>7. LoopInv'
  <2>1. Loop
    BY <1>1 DEF CastInv, LoopInv
  <2>2. ~reader.negative => new = reader.value
    BY DEF new
  <2>3. ~reader.negative => Counted'
    BY <1>3, <2>1, <2>2 DEF Loop, Counted
  <2> QED BY <1>1, <1>3, <2>1, <2>3 DEF Loop, LoopInv
<1> QED BY <1>1, <1>3, <1>6, <1>7 DEF CastInv

\* No getter was called yet.
LEMMA CastStart ==
  ASSUME CastInit
  PROVE  CastInv
<1>1. <<>> \in Seq(Char) /\ Len(<<>>) = 0
  OBVIOUS
<1>2. Idle \in Reader
  BY <1>1 DEF Idle, Reader, Getters, Text, Statuses
<1> QED BY <1>1, <1>2 DEF CastInit, CastInv, ReaderOK, LoopInv, Idle

\* CastInv is inductive.
LEMMA CastInvInductive == CastSpec => []CastInv
<1>1. CastInit => CastInv
  BY CastStart
<1>2. CastInv /\ [CastNext]_reader => CastInv'
  <2> SUFFICES ASSUME CastInv, [CastNext]_reader PROVE CastInv'
    OBVIOUS
  <2>1. ASSUME NEW getter \in Getters, NEW text \in Text, Get(getter, text)
        PROVE  CastInv'
    BY <2>1, GetStep
  <2>2. CASE CastCharacter
    BY <2>2, CharacterStep
  <2>3. CASE CastEnd
    BY <2>3, EndStep
  <2>4. CASE UNCHANGED reader
    BY <2>4 DEF CastInv, ReaderOK, LoopInv, Loop, Counted, Refused, OutOfRange, Greatest
  <2> QED BY <2>1, <2>2, <2>3, <2>4 DEF CastNext, Cast
<1> QED BY <1>1, <1>2, PTL DEF CastSpec

-----------------------------------------------------------------------------

\* A value stays in the range of its integer and no text is read beyond its
\* end, whatever is written in it (the loop of cast, cast.hpp).
THEOREM ReaderCorrect == CastSpec => []ReaderOK
BY CastInvInductive, PTL DEF CastInv

\* For every text and every range of the types (getByte, getPercentage and
\* getWord, Parameters.cpp): a value comes only of digits or of nothing behind the
\* sign; without a minus it is the number the digits stand for, if that is in
\* range, and they do not begin with 0; and null comes only of another character,
\* a minus, a leading 0, a number out of range or a percentage that is too long.
THEOREM NumberCorrect == CastSpec => []NumberAsWritten
<1>1. CastInv => NumberAsWritten
  <2> SUFFICES ASSUME CastInv, reader.getter # "state"
               PROVE  NumberAsWritten
    BY DEF NumberAsWritten
  <2> DEFINE first == Begin(reader.text)
  <2>1. Loop
    BY DEF CastInv, LoopInv
  <2>2. /\ reader \in Reader /\ reader.text \in Seq(Char) /\ reader.it \in Nat
        /\ reader.number \in Nat /\ reader.it <= Len(reader.text)
        /\ first \in {0, 1} /\ first <= Len(reader.text)
    BY BeginFacts DEF CastInv, ReaderOK, Reader, Text
  <2>3. /\ Greatest \in Nat
        /\ reader.getter = "percentage" => Greatest >= 99
    BY <2>2, Ranges
  <2>4. DOMAIN reader.text = 1..Len(reader.text) /\ Len(reader.text) \in Nat
    BY <2>2
  <2>5. ASSUME OnlyDigits(reader.text), ~reader.negative, reader.status = "null"
        PROVE  \/ LeadingZero(reader.text) \/ TooLong(reader.getter, reader.text)
               \/ OutOfRange
    <3>1. reader.it < Len(reader.text) => reader.text[reader.it + 1] \in Digit
      <4>1. reader.it + 1 > first
        BY <2>1, <2>2 DEF Loop
      <4> QED BY <2>2, <2>4, <2>5, <4>1 DEF OnlyDigits
    <3> QED BY <2>1, <2>5, <3>1 DEF Loop, Refused
  <2>6. ASSUME reader.status = "value"
        PROVE  OnlyDigits(reader.text)
    BY <2>1, <2>4, <2>6 DEF Loop, OnlyDigits
  <2>7. ASSUME reader.status = "value", ~reader.negative
        PROVE  /\ ~LeadingZero(reader.text)
               /\ ~OutOfRange => reader.value = reader.number
               /\ reader.getter = "percentage" => reader.value = reader.number
    <3>1. reader.it = Len(reader.text) /\ Counted /\ ~TooLong(reader.getter, reader.text)
      BY <2>1, <2>7 DEF Loop
    <3>2. ~LeadingZero(reader.text)
      BY <3>1, <2>2 DEF Counted, LeadingZero
    <3>3. ~OutOfRange => reader.value = reader.number
      BY <3>1, <2>2, <2>3 DEF Counted, OutOfRange
    <3>4. ASSUME reader.getter = "percentage"
          PROVE  reader.value = reader.number
      <4>1. reader.it <= 2
        BY <3>1, <3>4, <2>4 DEF TooLong
      <4>2. reader.it = 0 \/ reader.it = 1 \/ reader.it = 2
        <5> DEFINE n == reader.it
        <5>1. n \in Nat /\ n <= 2
          BY <4>1, <2>2
        <5> HIDE DEF n
        <5>2. n = 0 \/ n = 1 \/ n = 2
          BY <5>1
        <5> QED BY <5>2 DEF n
      <4>3. /\ reader.it = 1 => reader.number <= 9
            /\ reader.it = 2 => reader.number <= 99
            /\ reader.number <= Greatest => reader.value = reader.number
        BY <3>1 DEF Counted
      <4>4. reader.it = 0 => reader.number = 0
        <5>1. first <= reader.it
          BY <2>1 DEF Loop
        <5> QED BY <3>1, <2>2, <5>1 DEF Counted
      <4>5. reader.number <= 99
        BY <2>2, <4>2, <4>3, <4>4
      <4> QED BY <2>2, <2>3, <3>4, <4>3, <4>5
    <3> QED BY <3>2, <3>3, <3>4
  <2> QED BY <2>5, <2>6, <2>7 DEF NumberAsWritten
<1> QED BY <1>1, CastInvInductive, PTL

-----------------------------------------------------------------------------
(* Induction *)

Less == {ss \in Nat \X Nat : ss[1] < ss[2]}

\* Less is well founded.
LEMMA LessWellFounded == IsWellFoundedOn(Less, Nat)
BY NatLessThanWellFounded DEF OpToRel, Less

\* Every set of numbers that is not empty has a least one.
LEMMA LeastNumber ==
  ASSUME NEW S, S \subseteq Nat, S # {}
  PROVE  \E n \in S : \A m \in S : n <= m
<1>1. PICK n \in S : \A m \in S : ~(<<m, n>> \in Less)
  BY LessWellFounded, WFMin, Zenon
<1>2. \A m \in S : n <= m
  <2> TAKE m \in S
  <2>1. ~(<<m, n>> \in Less) /\ m \in Nat /\ n \in Nat
    BY <1>1
  <2> QED BY <2>1 DEF Less
<1> QED BY <1>1, <1>2

\* A set holds every number if it holds each whose predecessors it holds.
LEMMA StrongInduction ==
  ASSUME NEW S, \A n \in Nat : (\A m \in 0..(n - 1) : m \in S) => n \in S
  PROVE  \A n \in Nat : n \in S
<1> DEFINE Bad == {n \in Nat : n \notin S}
<1> SUFFICES ASSUME Bad # {} PROVE FALSE
  OBVIOUS
<1>1. Bad \subseteq Nat
  OBVIOUS
<1> HIDE DEF Bad
<1>2. PICK n \in Bad : \A m \in Bad : n <= m
  BY <1>1, LeastNumber
<1>3. n \in Nat /\ n \notin S
  BY DEF Bad
<1>4. \A m \in 0..(n - 1) : m \in Nat /\ m < n
  BY <1>3
<1>5. \A m \in 0..(n - 1) : m \notin Bad
  BY <1>1, <1>2, <1>3, <1>4
<1>6. \A m \in 0..(n - 1) : m \in S
  BY <1>4, <1>5 DEF Bad
<1> QED BY <1>3, <1>6

\* The same for an interval, from its end.
LEMMA BackwardInduction ==
  ASSUME NEW s \in Nat, NEW e \in Nat, NEW S,
         \A i \in s..e : (\A j \in (i + 1)..e : j \in S) => i \in S
  PROVE  \A i \in s..e : i \in S
<1> DEFINE T == {n \in Nat : e - n \in s..e => e - n \in S}
<1>1. ASSUME NEW n \in Nat, \A m \in 0..(n - 1) : m \in T
      PROVE  n \in T
  <2> SUFFICES ASSUME e - n \in s..e PROVE e - n \in S
    OBVIOUS
  <2>1. ASSUME NEW j \in ((e - n) + 1)..e
        PROVE  j \in S
    <3>1. e - j \in 0..(n - 1) /\ e - (e - j) = j /\ j \in s..e
      OBVIOUS
    <3>2. e - j \in T
      BY <1>1, <3>1
    <3> QED BY <3>1, <3>2
  <2> QED BY <2>1
<1> HIDE DEF T
<1>2. \A n \in Nat : n \in T
  BY <1>1, StrongInduction
<1> SUFFICES ASSUME NEW i \in s..e PROVE i \in S
  OBVIOUS
<1>3. e - i \in Nat /\ e - (e - i) = i
  OBVIOUS
<1>4. e - i \in T
  BY <1>2, <1>3
<1> QED BY <1>3, <1>4 DEF T

-----------------------------------------------------------------------------
(* Numerals *)

DigitsOf(d, m) ==
  IF m < 10 THEN <<Zero + m>> ELSE d[m \div 10] \o <<Zero + (m % 10)>>

IsDigits(d, n) == d = [m \in 0..n |-> DigitsOf(d, m)]

\* v[j] is the number that the first j digits of a text write.
Counts(v, text) ==
  /\ v[0] = 0
  /\ \A j \in 1..Len(text) : v[j] = 10 * v[j - 1] + text[j] - Zero

WritesNumber(text, n) ==
  /\ text \in Seq(Digit) /\ Len(text) >= 1
  /\ n # 0 => text[1] # Zero
  /\ n <= 9 => Len(text) = 1
  /\ n <= 99 => Len(text) <= 2
  /\ \E v \in [0..Len(text) -> 0..n] : Counts(v, text) /\ v[Len(text)] = n

\* The quotient and the last digit of a number.
LEMMA Tenth ==
  ASSUME NEW n \in Nat
  PROVE  /\ n \div 10 \in Nat /\ n % 10 \in 0..9
         /\ n = 10 * (n \div 10) + (n % 10)
         /\ n >= 10 => n \div 10 < n /\ n \div 10 >= 1
         /\ n <= 99 => n \div 10 <= 9
BY SMT

\* The function that Numeral is defined by exists.
LEMMA DigitsExist ==
  ASSUME NEW n \in Nat
  PROVE  \E d : IsDigits(d, n)
<1> DEFINE S == {m \in Nat : \E d : IsDigits(d, m)}
<1>1. ASSUME NEW k \in Nat, \A m \in 0..(k - 1) : m \in S
      PROVE  k \in S
  <2>1. PICK d : k > 0 => IsDigits(d, k - 1)
    BY <1>1
  <2> DEFINE f == [m \in 0..k |-> DigitsOf(d, m)]
  <2>2. ASSUME NEW m \in 0..k
        PROVE  DigitsOf(f, m) = DigitsOf(d, m)
    <3>1. CASE m < 10
      BY <3>1 DEF DigitsOf
    <3>2. CASE m >= 10
      <4>1. m \div 10 \in 0..(k - 1) /\ m \div 10 \in 0..k /\ k > 0
        BY <3>2, Tenth
      <4>2. d[m \div 10] = DigitsOf(d, m \div 10)
        BY <2>1, <4>1, Zenon DEF IsDigits
      <4>3. f[m \div 10] = d[m \div 10]
        BY <4>1, <4>2
      <4> HIDE DEF f
      <4> QED BY <4>3, Zenon DEF DigitsOf
    <3>3. m \in Nat
      OBVIOUS
    <3> HIDE DEF f
    <3> QED BY <3>1, <3>2, <3>3
  <2>3. f = [m \in 0..k |-> DigitsOf(f, m)]
    BY <2>2
  <2> HIDE DEF f
  <2> QED BY <2>3 DEF IsDigits
<1> HIDE DEF S
<1>2. n \in S
  BY <1>1, StrongInduction
<1> QED BY <1>2 DEF S

\* One more digit.
LEMMA LastDigit ==
  ASSUME NEW n \in Nat, n >= 10, NEW t, WritesNumber(t, n \div 10)
  PROVE  WritesNumber(t \o <<Zero + (n % 10)>>, n)
<1> DEFINE q == n \div 10
           r == n % 10
           u == t \o <<Zero + r>>
<1>1. /\ q \in Nat /\ r \in 0..9 /\ n = 10 * q + r /\ q < n /\ q >= 1
      /\ n <= 99 => q <= 9
  BY Tenth
<1>2. t \in Seq(Digit) /\ Len(t) \in Nat /\ Len(t) >= 1
  BY DEF WritesNumber
<1>3. PICK v \in [0..Len(t) -> 0..q] : Counts(v, t) /\ v[Len(t)] = q
  BY DEF WritesNumber
<1>4. (q # 0 => t[1] # Zero) /\ (q <= 9 => Len(t) = 1)
  BY DEF WritesNumber
<1> HIDE DEF q, r
<1>5. Zero + r \in Digit
  BY <1>1 DEF Zero, Digit
<1>6. /\ u \in Seq(Digit) /\ Len(u) = Len(t) + 1
      /\ \A j \in 1..Len(t) : u[j] = t[j]
      /\ u[Len(t) + 1] = Zero + r
  BY <1>2, <1>5
<1> HIDE DEF u
<1> DEFINE w == [j \in 0..Len(u) |-> IF j <= Len(t) THEN v[j] ELSE n]
<1>7. w \in [0..Len(u) -> 0..n]
  <2>1. ASSUME NEW j \in 0..Len(u)
        PROVE  w[j] \in 0..n
    <3>1. j <= Len(t) => v[j] \in 0..q
      BY <1>2, <1>3
    <3> QED BY <1>1, <3>1
  <2> QED BY <2>1
<1>8. w[0] = 0 /\ w[Len(u)] = n
  BY <1>2, <1>3, <1>6 DEF Counts
<1>9. ASSUME NEW j \in 1..Len(u)
      PROVE  w[j] = 10 * w[j - 1] + u[j] - Zero
  <2>1. CASE j <= Len(t)
    <3>1. j \in 1..Len(t) /\ w[j] = v[j] /\ w[j - 1] = v[j - 1] /\ u[j] = t[j]
      BY <1>2, <1>6, <2>1
    <3> QED BY <1>3, <3>1 DEF Counts
  <2>2. CASE j = Len(t) + 1
    <3>1. w[j] = n /\ w[j - 1] = q /\ u[j] = Zero + r
      BY <1>2, <1>3, <1>6, <2>2
    <3>2. n = 10 * q + (48 + r) - 48
      BY <1>1
    <3> QED BY <3>1, <3>2 DEF Zero
  <2> QED BY <1>2, <1>6, <2>1, <2>2
<1> HIDE DEF w
<1>10. \E x \in [0..Len(u) -> 0..n] : Counts(x, u) /\ x[Len(u)] = n
  BY <1>7, <1>8, <1>9 DEF Counts
<1>11. u[1] # Zero
  BY <1>1, <1>2, <1>4, <1>6
<1>12. Len(u) >= 1 /\ ~(n <= 9) /\ (n <= 99 => Len(u) <= 2)
  BY <1>1, <1>2, <1>4, <1>6
<1>13. WritesNumber(u, n)
  BY <1>6, <1>10, <1>11, <1>12 DEF WritesNumber
<1> QED BY <1>13 DEF u, r

\* The cast of an integer writes it: in digits, without a leading 0.
LEMMA Numerals ==
  ASSUME NEW n \in Nat
  PROVE  WritesNumber(Numeral(n), n)
<1> DEFINE D == CHOOSE d : d = [m \in 0..n |->
                  IF m < 10 THEN <<Zero + m>> ELSE d[m \div 10] \o <<Zero + (m % 10)>>]
<1>1. IsDigits(D, n)
  <2>1. \E d : IsDigits(d, n)
    BY DigitsExist
  <2> QED BY <2>1, Zenon DEF IsDigits, DigitsOf
<1>2. Numeral(n) = D[n]
  BY Zenon DEF Numeral
<1> HIDE DEF D
<1> DEFINE S == {m \in Nat : m <= n => WritesNumber(D[m], m)}
<1>3. ASSUME NEW m \in Nat, \A k \in 0..(m - 1) : k \in S
      PROVE  m \in S
  <2> SUFFICES ASSUME m <= n PROVE WritesNumber(D[m], m)
    OBVIOUS
  <2>1. D[m] = DigitsOf(D, m)
    <3>1. m \in 0..n
      OBVIOUS
    <3> QED BY <1>1, <3>1, Zenon DEF IsDigits
  <2>2. CASE m < 10
    <3>1. D[m] = <<Zero + m>>
      BY <2>1, <2>2 DEF DigitsOf
    <3> DEFINE t == <<Zero + m>>
    <3>2. t \in Seq(Digit) /\ Len(t) = 1 /\ t[1] = Zero + m
      BY <2>2 DEF Zero, Digit
    <3> HIDE DEF t
    <3> DEFINE v == [j \in 0..1 |-> IF j = 0 THEN 0 ELSE m]
    <3>3. v \in [0..1 -> 0..m] /\ v[0] = 0 /\ v[1] = m
      OBVIOUS
    <3> HIDE DEF v
    <3>4. Counts(v, t)
      BY <3>2, <3>3 DEF Counts, Zero
    <3>5. \E x \in [0..Len(t) -> 0..m] : Counts(x, t) /\ x[Len(t)] = m
      BY <3>2, <3>3, <3>4
    <3>6. m # 0 => t[1] # Zero
      BY <3>2 DEF Zero
    <3>7. WritesNumber(t, m)
      BY <3>2, <3>5, <3>6 DEF WritesNumber
    <3> QED BY <3>1, <3>7 DEF t
  <2>3. CASE m >= 10
    <3>1. D[m] = D[m \div 10] \o <<Zero + (m % 10)>>
      BY <2>1, <2>3 DEF DigitsOf
    <3>2. m \div 10 \in 0..(m - 1) /\ m \div 10 <= n
      BY <2>3, Tenth
    <3>3. WritesNumber(D[m \div 10], m \div 10)
      BY <1>3, <3>2
    <3> QED BY <2>3, <3>1, <3>3, LastDigit
  <2> QED BY <2>2, <2>3
<1> HIDE DEF S
<1>4. n \in S
  BY <1>3, StrongInduction
<1>5. WritesNumber(D[n], n)
  BY <1>4 DEF S
<1> QED BY <1>2, <1>5

-----------------------------------------------------------------------------
(* What a getter counts *)

\* The number of the loop is what the digits before it write.
CountInv ==
  reader.getter # "state" /\ Unsigned(reader.text) =>
    \A v \in [0..Len(reader.text) -> Nat] :
      Counts(v, reader.text) => reader.number = v[reader.it]

\* It is so when a getter begins, and after each step of its cast.
LEMMA CountGet ==
  ASSUME NEW getter \in Getters, NEW text \in Text, Get(getter, text)
  PROVE  CountInv'
<1>1. reader'.text = text /\ reader'.number = 0
      /\ reader'.it = Begin(text)
  BY DEF Get
<1>2. ASSUME Unsigned(text), NEW v, Counts(v, text)
      PROVE  reader'.number = v[reader'.it]
  BY <1>1, <1>2, BeginFacts DEF Unsigned, Counts
<1> QED BY <1>1, <1>2 DEF CountInv

LEMMA CountCast ==
  ASSUME CastInv, CountInv, Cast
  PROVE  CountInv'
<1>1. /\ reader \in Reader /\ reader.it \in Nat /\ reader.number \in Nat
      /\ reader.it <= Len(reader.text) /\ Len(reader.text) \in Nat
      /\ reader.text \in Seq(Char)
  BY DEF CastInv, ReaderOK, Reader, Text
<1>2. CASE CastEnd \/ reader' = [reader EXCEPT !.status = "null"]
  <2>1. /\ reader'.getter = reader.getter /\ reader'.text = reader.text
        /\ reader'.it = reader.it /\ reader'.number = reader.number
    BY <1>1, <1>2 DEF CastEnd, Reader
  <2> QED BY <2>1 DEF CountInv
<1>3. CASE /\ CastCharacter
           /\ ~(reader' = [reader EXCEPT !.status = "null"])
  <2> DEFINE ch == reader.text[reader.it + 1]
             next == (10 * reader.value + ch - Zero) % Modulus
  <2>1. reader.it < Len(reader.text)
    BY <1>3 DEF CastCharacter
  <2>2. reader' = [reader EXCEPT !.it = @ + 1, !.value = next,
                                 !.number = 10 * @ + ch - Zero]
    BY <1>3 DEF CastCharacter
  <2> HIDE DEF next
  <2>3. /\ reader'.getter = reader.getter /\ reader'.text = reader.text
        /\ reader'.it = reader.it + 1 /\ reader'.number = 10 * reader.number + ch - Zero
    BY <1>1, <2>2 DEF Reader
  <2>4. ASSUME reader.getter # "state", Unsigned(reader.text),
               NEW v \in [0..Len(reader.text) -> Nat], Counts(v, reader.text)
        PROVE  reader'.number = v[reader'.it]
    <3>1. reader.number = v[reader.it]
      BY <2>4 DEF CountInv
    <3>2. reader.it + 1 \in 1..Len(reader.text) /\ (reader.it + 1) - 1 = reader.it
      BY <1>1, <2>1
    <3>3. v[reader.it + 1] = 10 * v[(reader.it + 1) - 1] + ch - Zero
      BY <2>4, <3>2 DEF Counts
    <3> QED BY <2>3, <3>1, <3>2, <3>3
  <2> QED BY <2>3, <2>4 DEF CountInv
<1> QED BY <1>2, <1>3 DEF Cast, CastCharacter

\* A getter whose range has it reads a number that was written.
LEMMA ReadsBack ==
  ASSUME CastInv, CountInv, NEW n \in Nat, n # 0,
         reader.getter # "state", WritesNumber(reader.text, n),
         n <= Greatest, reader.getter = "percentage" => n <= 99,
         reader.status \in {"null", "value"}
  PROVE  reader.status = "value" /\ reader.value = n
<1> DEFINE t == reader.text
           it == reader.it
<1>1. /\ reader \in Reader /\ it \in Nat /\ reader.number \in Nat
      /\ it <= Len(t) /\ Len(t) \in Nat /\ Greatest \in Nat
      /\ t \in Seq(Char)
  BY Ranges DEF CastInv, ReaderOK, Reader, Text
<1>2. /\ t \in Seq(Digit) /\ Len(t) >= 1 /\ t[1] # Zero /\ (n <= 99 => Len(t) <= 2)
      /\ \A j \in 1..Len(t) : t[j] \in Digit
  BY DEF WritesNumber
<1>3. PICK v \in [0..Len(t) -> 0..n] : Counts(v, t) /\ v[Len(t)] = n
  BY DEF WritesNumber
<1>4. Unsigned(t)
  <2>1. t # <<>> /\ t[1] \in Digit
    BY <1>2
  <2> QED BY <2>1 DEF Unsigned, Signed, Digit, Plus, Minus
<1>5. Loop /\ ~reader.negative /\ Counted /\ Begin(t) = 0
  <2>1. Loop
    BY DEF CastInv, LoopInv
  <2> QED BY <1>1, <1>4, <2>1, BeginFacts DEF Loop, Unsigned, Text
<1>6. \A j \in 0..Len(t) : v[j] \in 0..n
  BY <1>3
<1>7. reader.number = v[it]
  <2>1. v \in [0..Len(t) -> Nat]
    BY <1>3, <1>6
  <2> QED BY <1>3, <1>4, <2>1 DEF CountInv
<1>8. reader.number <= Greatest
  <2>1. v[it] \in 0..n
    BY <1>1, <1>6
  <2> QED BY <1>1, <1>7, <2>1
<1>9. reader.status # "null"
  <2> SUFFICES ASSUME reader.status = "null" PROVE FALSE
    OBVIOUS
  <2>1. Refused
    BY <1>5 DEF Loop
  <2>2. ~TooLong(reader.getter, t)
    BY <1>1, <1>2 DEF TooLong
  <2>3. it < Len(t) => t[it + 1] \in Digit
    BY <1>1, <1>2
  <2>4. ~OutOfRange
    <3>1. it < Len(t) => 10 * reader.number + t[it + 1] - Zero <= Greatest
      <4> SUFFICES ASSUME it < Len(t)
                   PROVE  10 * reader.number + t[it + 1] - Zero <= Greatest
        OBVIOUS
      <4>1. it + 1 \in 1..Len(t) /\ it + 1 \in 0..Len(t) /\ (it + 1) - 1 = it
        BY <1>1
      <4>2. v[it + 1] = 10 * v[(it + 1) - 1] + t[it + 1] - Zero
        BY <1>3, <4>1 DEF Counts
      <4>3. v[it + 1] \in 0..n
        BY <1>6, <4>1
      <4>4. 10 * reader.number + t[it + 1] - Zero = v[it + 1]
        BY <1>7, <4>1, <4>2
      <4> QED BY <1>1, <4>3, <4>4
    <3>2. ~(reader.number > Greatest)
      BY <1>1, <1>8
    <3>3. it < Len(t) => t[it + 1] \in Nat
      BY <2>3, SMTT(30) DEF Digit
    <3> DEFINE x == 10 * reader.number + t[it + 1] - Zero
    <3>4. it < Len(t) => x \in Int
      <4> SUFFICES ASSUME it < Len(t) PROVE x \in Int
        OBVIOUS
      <4>1. reader.number \in Nat /\ t[it + 1] \in Nat /\ Zero \in Nat
        BY <1>1, <3>3 DEF Zero
      <4>2. \A a, b, c \in Nat : 10 * a + b - c \in Int
        OBVIOUS
      <4> QED BY <4>1, <4>2, Zenon
    <3>5. it < Len(t) => x <= Greatest
      BY <3>1
    <3> HIDE DEF x
    <3>6. it < Len(t) => ~(x > Greatest)
      BY <1>1, <3>4, <3>5
    <3> QED BY <3>2, <3>6 DEF OutOfRange, x
  <2> QED BY <1>2, <1>5, <2>1, <2>2, <2>3, <2>4 DEF Refused, LeadingZero
<1>10. reader.status = "value" => reader.value = n
  <2> SUFFICES ASSUME reader.status = "value" PROVE reader.value = n
    OBVIOUS
  <2>1. it = Len(t) /\ reader.value = reader.number
    BY <1>5, <1>8 DEF Loop, Counted
  <2> QED BY <1>3, <1>7, <2>1
<1> QED BY <1>9, <1>10

-----------------------------------------------------------------------------
(* Queries *)

DecodedOf(g, i, end) ==
  CASE i = end -> <<>>
    [] i < end /\ form[i] = Plus -> <<Space>> \o g[i + 1]
    [] i < end /\ form[i] = Percent ->
         IF EscapeFits(i, end)
           THEN <<(16 * HexValue(form[i + 1]) + HexValue(form[i + 2])) % 256>> \o g[i + 3]
           ELSE <<>>
    [] OTHER -> <<form[i]>> \o g[i + 1]

IsDecoded(g, start, end) == g = [i \in start..end |-> DecodedOf(g, i, end)]

\* The cases of a character: none is left,
LEMMA DecodedEnd ==
  ASSUME NEW g, NEW end \in Nat
  PROVE  DecodedOf(g, end, end) = <<>>
BY DEF DecodedOf

\* a plus sign,
LEMMA DecodedPlus ==
  ASSUME NEW g, NEW i \in Nat, NEW end \in Nat, i < end, form[i] = Plus
  PROVE  DecodedOf(g, i, end) = <<Space>> \o g[i + 1]
<1>1. i # end /\ form[i] # Percent
  BY DEF Plus, Percent
<1> QED BY <1>1, Zenon DEF DecodedOf

\* an escape,
LEMMA DecodedEscape ==
  ASSUME NEW g, NEW i \in Nat, NEW end \in Nat, i + 2 < end, form[i] = Percent,
         NEW c, c = (16 * HexValue(form[i + 1]) + HexValue(form[i + 2])) % 256
  PROVE  DecodedOf(g, i, end) = <<c>> \o g[i + 3]
<1>1. i # end /\ i < end /\ EscapeFits(i, end)
  BY DEF EscapeFits
<1>2. form[i] # Plus
  BY DEF Plus, Percent
<1> QED BY <1>1, <1>2, Zenon DEF DecodedOf

\* one that the end cuts off,
LEMMA DecodedCut ==
  ASSUME NEW g, NEW i \in Nat, NEW end \in Nat, i < end, form[i] = Percent,
         ~(i + 2 < end)
  PROVE  DecodedOf(g, i, end) = <<>>
<1>1. i # end /\ ~EscapeFits(i, end)
  BY DEF EscapeFits
<1>2. form[i] # Plus
  BY DEF Plus, Percent
<1> QED BY <1>1, <1>2, Zenon DEF DecodedOf

\* and any other.
LEMMA DecodedOther ==
  ASSUME NEW g, NEW i \in Nat, NEW end \in Nat, i < end,
         form[i] # Plus, form[i] # Percent
  PROVE  DecodedOf(g, i, end) = <<form[i]>> \o g[i + 1]
<1>1. i # end
  OBVIOUS
<1> QED BY <1>1, Zenon DEF DecodedOf

\* The function that DecodeQuery is defined by exists.
LEMMA DecodedExists ==
  ASSUME NEW start \in Nat, NEW end \in Nat
  PROVE  \E g : IsDecoded(g, start, end)
<1> DEFINE S == {i \in Nat : \E g : IsDecoded(g, i, end)}
<1>1. ASSUME NEW i \in start..end, \A j \in (i + 1)..end : j \in S
      PROVE  i \in S
  <2>1. PICK g : i < end => IsDecoded(g, i + 1, end)
    <3>1. i < end => i + 1 \in (i + 1)..end
      OBVIOUS
    <3> QED BY <1>1, <3>1
  <2> DEFINE f == [k \in i..end |-> DecodedOf(g, k, end)]
  <2>2. ASSUME NEW k \in (i + 1)..end
        PROVE  f[k] = g[k]
    <3>1. k \in i..end /\ i < end
      OBVIOUS
    <3>2. g[k] = DecodedOf(g, k, end)
      BY <2>1, <3>1, Zenon DEF IsDecoded
    <3> QED BY <3>1, <3>2
  <2>3. ASSUME NEW k \in i..end
        PROVE  DecodedOf(f, k, end) = DecodedOf(g, k, end)
    <3>1. k \in Nat /\ k <= end
      OBVIOUS
    <3>2. k < end => f[k + 1] = g[k + 1]
      <4>1. k < end => k + 1 \in (i + 1)..end
        OBVIOUS
      <4> QED BY <2>2, <4>1
    <3>3. k + 2 < end => f[k + 3] = g[k + 3]
      <4>1. k + 2 < end => k + 3 \in (i + 1)..end
        OBVIOUS
      <4> QED BY <2>2, <4>1
    <3> HIDE DEF f
    <3>4. CASE k = end
      <4>1. DecodedOf(g, k, end) = <<>>
        BY <3>1, <3>4, DecodedEnd
      <4>2. DecodedOf(f, k, end) = <<>>
        BY <3>1, <3>4, DecodedEnd
      <4> QED BY <4>1, <4>2
    <3>5. CASE k < end /\ form[k] = Plus
      <4>1. DecodedOf(g, k, end) = <<Space>> \o g[k + 1]
        BY <3>1, <3>5, DecodedPlus
      <4>2. DecodedOf(f, k, end) = <<Space>> \o f[k + 1]
        BY <3>1, <3>5, DecodedPlus
      <4> QED BY <3>2, <3>5, <4>1, <4>2
    <3>6. CASE k < end /\ form[k] = Percent /\ k + 2 < end
      <4> DEFINE c == (16 * HexValue(form[k + 1]) + HexValue(form[k + 2])) % 256
      <4>1. DecodedOf(g, k, end) = <<c>> \o g[k + 3]
        BY <3>1, <3>6, DecodedEscape, Zenon
      <4>2. DecodedOf(f, k, end) = <<c>> \o f[k + 3]
        BY <3>1, <3>6, DecodedEscape, Zenon
      <4> HIDE DEF c
      <4> QED BY <3>3, <3>6, <4>1, <4>2
    <3>7. CASE k < end /\ form[k] = Percent /\ ~(k + 2 < end)
      <4>1. DecodedOf(g, k, end) = <<>>
        BY <3>1, <3>7, DecodedCut
      <4>2. DecodedOf(f, k, end) = <<>>
        BY <3>1, <3>7, DecodedCut
      <4> QED BY <4>1, <4>2
    <3>8. CASE k < end /\ form[k] # Plus /\ form[k] # Percent
      <4>1. DecodedOf(g, k, end) = <<form[k]>> \o g[k + 1]
        BY <3>1, <3>8, DecodedOther
      <4>2. DecodedOf(f, k, end) = <<form[k]>> \o f[k + 1]
        BY <3>1, <3>8, DecodedOther
      <4> QED BY <3>2, <3>8, <4>1, <4>2
    <3> QED BY <3>1, <3>4, <3>5, <3>6, <3>7, <3>8
  <2>4. f = [k \in i..end |-> DecodedOf(f, k, end)]
    BY <2>3
  <2> HIDE DEF f
  <2>5. IsDecoded(f, i, end)
    BY <2>4 DEF IsDecoded
  <2> QED BY <2>5
<1> HIDE DEF S
<1>2. \A i \in start..end : i \in S
  BY <1>1, BackwardInduction
<1>3. CASE start <= end
  <2>1. start \in S
    BY <1>2, <1>3
  <2> QED BY <2>1 DEF S
<1>4. CASE ~(start <= end)
  <2> DEFINE f == [k \in start..end |-> <<>>]
  <2>1. start..end = {}
    BY <1>4
  <2>2. f = [k \in start..end |-> DecodedOf(f, k, end)]
    BY <2>1
  <2> HIDE DEF f
  <2> QED BY <2>2 DEF IsDecoded
<1> QED BY <1>3, <1>4

\* What DecodeQuery returns, character by character.
LEMMA QueryUnfolds ==
  ASSUME NEW start \in Nat, NEW end \in Nat, start <= end
  PROVE  \E g : /\ DecodeQuery(start, end) = g[start]
                /\ \A i \in start..end : g[i] = DecodedOf(g, i, end)
<1> DEFINE D == CHOOSE g : g = [i \in start..end |->
                  CASE i = end -> <<>>
                    [] i < end /\ form[i] = Plus -> <<Space>> \o g[i + 1]
                    [] i < end /\ form[i] = Percent ->
                         IF EscapeFits(i, end)
                           THEN <<(16 * HexValue(form[i + 1]) + HexValue(form[i + 2])) % 256>>
                                  \o g[i + 3]
                           ELSE <<>>
                    [] OTHER -> <<form[i]>> \o g[i + 1]]
<1>1. IsDecoded(D, start, end)
  <2>1. \E g : IsDecoded(g, start, end)
    BY DecodedExists
  <2> QED BY <2>1, Zenon DEF IsDecoded, DecodedOf
<1>2. DecodeQuery(start, end) = D[start]
  BY Zenon DEF DecodeQuery
<1> HIDE DEF D
<1>3. \A i \in start..end : D[i] = DecodedOf(D, i, end)
  BY <1>1, Zenon DEF IsDecoded
<1> QED BY <1>2, <1>3

\* The value of a hex digit, and of two.
LEMMA HexValues ==
  ASSUME NEW a \in Char, NEW b \in Char
  PROVE  /\ HexValue(a) \in 0..15
         /\ (16 * HexValue(a) + HexValue(b)) % 256 \in Char
<1>1. HexValue(a) \in 0..15 /\ HexValue(b) \in 0..15
  BY DEF HexValue, Char, Digit
<1>2. 16 * HexValue(a) + HexValue(b) \in 0..255
  BY <1>1
<1> QED BY <1>1, <1>2 DEF Char

\* Whatever stands in a form, decoding it gives a text.
LEMMA QueryIsText ==
  ASSUME form \in Text, NEW start \in Nat, NEW end \in Nat,
         1 <= start, start <= end, end <= Len(form) + 1
  PROVE  DecodeQuery(start, end) \in Text
<1>1. PICK g : /\ DecodeQuery(start, end) = g[start]
               /\ \A i \in start..end : g[i] = DecodedOf(g, i, end)
  BY QueryUnfolds
<1>2. /\ Len(form) \in Nat
      /\ \A i \in 1..Len(form) : form[i] \in Char
  BY DEF Text
<1> DEFINE S == {i \in Nat : g[i] \in Text}
<1>3. ASSUME NEW i \in start..end, \A j \in (i + 1)..end : j \in S
      PROVE  i \in S
  <2>1. i \in Nat /\ i <= end /\ (i = end \/ i < end) /\ g[i] = DecodedOf(g, i, end)
    BY <1>1
  <2>2. i < end => form[i] \in Char /\ g[i + 1] \in Text
    <3>1. i < end => i + 1 \in (i + 1)..end /\ i \in 1..Len(form)
      BY <1>2
    <3> QED BY <1>2, <1>3, <3>1
  <2>3. i + 2 < end => /\ g[i + 3] \in Text
                       /\ form[i + 1] \in Char /\ form[i + 2] \in Char
    <3>1. i + 2 < end => /\ i + 3 \in (i + 1)..end
                         /\ i + 1 \in 1..Len(form) /\ i + 2 \in 1..Len(form)
      BY <1>2
    <3> QED BY <1>2, <1>3, <3>1
  <2>4. \A c \in Char, t \in Text : <<c>> \o t \in Text
    BY DEF Text
  <2>5. Space \in Char /\ <<>> \in Text
    BY DEF Space, Char, Text
  <2>6. CASE i < end /\ form[i] = Percent /\ i + 2 < end
    <3> DEFINE c == (16 * HexValue(form[i + 1]) + HexValue(form[i + 2])) % 256
    <3>1. c \in Char
      BY <2>3, <2>6, HexValues
    <3>2. g[i] = <<c>> \o g[i + 3]
      <4>1. PICK d : d = c
        OBVIOUS
      <4>2. d = (16 * HexValue(form[i + 1]) + HexValue(form[i + 2])) % 256
        BY <4>1
      <4> HIDE DEF c, S
      <4>3. i \in Nat /\ i + 2 < end /\ form[i] = Percent
        BY <2>1, <2>6
      <4>4. DecodedOf(g, i, end) = <<d>> \o g[i + 3]
        BY <4>2, <4>3, DecodedEscape, Zenon, SMTT(30)
      <4> QED BY <2>1, <4>1, <4>4
    <3> HIDE DEF c
    <3>3. <<c>> \o g[i + 3] \in Text
      BY <2>3, <2>4, <2>6, <3>1
    <3>4. i \in Nat
      BY <2>1
    <3> QED BY <3>2, <3>3, <3>4
  <2>7. CASE i < end /\ form[i] = Plus
    <3>1. g[i] = <<Space>> \o g[i + 1]
      BY <2>1, <2>7, DecodedPlus
    <3> QED BY <2>1, <2>2, <2>4, <2>5, <2>7, <3>1
  <2>8. CASE i < end /\ form[i] # Plus /\ form[i] # Percent
    <3>1. g[i] = <<form[i]>> \o g[i + 1]
      BY <2>1, <2>8, DecodedOther
    <3> QED BY <2>1, <2>2, <2>4, <2>8, <3>1
  <2>9. CASE i = end \/ (i < end /\ form[i] = Percent /\ ~(i + 2 < end))
    <3>1. g[i] = <<>>
      BY <2>1, <2>9, DecodedEnd, DecodedCut
    <3> QED BY <2>5, <3>1
  <2> QED BY <2>1, <2>6, <2>7, <2>8, <2>9
<1> HIDE DEF S
<1>4. \A i \in start..end : i \in S
  BY <1>3, BackwardInduction
<1>5. start \in S
  BY <1>4
<1> QED BY <1>1, <1>5 DEF S

-----------------------------------------------------------------------------
(* Arguments *)

\* A character stands in a form from i up to, but not including, next.
Stands(f, i, next, ch) ==
  \/ next = i + 1 /\ f[i] = ch /\ ch \in Unreserved \cup {Equals}
  \/ next = i + 1 /\ f[i] = Plus /\ ch = Space
  \/ /\ next = i + 3 /\ f[i] = Percent
     /\ 16 * HexValue(f[i + 1]) + HexValue(f[i + 2]) = ch

\* A text stands there: character j up to, but not including, bounds[j].
Reads(f, start, end, text) ==
  \E bounds \in [0..Len(text) -> start..end] :
    /\ bounds[0] = start /\ bounds[Len(text)] = end
    /\ \A j \in 1..Len(text) : Stands(f, bounds[j - 1], bounds[j], text[j])

\* An argument stands there.
ArgumentAt(f, k, start, end, text) ==
  /\ start \in Nat \ {0} /\ end \in Nat /\ start + Len(k) + 1 <= end
  /\ start # 1 => f[start - 1] = And
  /\ \A i \in 1..Len(k) : f[start + i - 1] = k[i]
  /\ f[start + Len(k)] = Equals
  /\ \A i \in start..(end - 1) : f[i] # And
  /\ Reads(f, start + Len(k) + 1, end, text)

\* What a hex digit stands for, in small and in capital letters.
LEMMA HexOf ==
  ASSUME NEW n \in 0..15, NEW letter \in {65, 97}
  PROVE  /\ Hex(n, letter) \in Char /\ Hex(n, letter) # And
         /\ HexValue(Hex(n, letter)) = n
<1>1. CASE n < 10
  <2>1. Hex(n, letter) = 48 + n /\ 48 + n \in 48..57
    BY <1>1 DEF Hex
  <2> QED BY <2>1 DEF Char, And, HexValue, Digit
<1>2. CASE n >= 10 /\ letter = 65
  <2>1. Hex(n, letter) = 65 + n - 10 /\ 65 + n - 10 \in 65..70
    BY <1>2 DEF Hex
  <2> QED BY <2>1, <1>2 DEF Char, And, HexValue, Digit
<1>3. CASE n >= 10 /\ letter = 97
  <2>1. Hex(n, letter) = 97 + n - 10 /\ 97 + n - 10 \in 97..102
    BY <1>3 DEF Hex
  <2> QED BY <2>1, <1>3 DEF Char, And, HexValue, Digit
<1> QED BY <1>1, <1>2, <1>3

\* The two hex digits of a character.
LEMMA HighAndLow ==
  ASSUME NEW ch \in Char
  PROVE  ch \div 16 \in 0..15 /\ ch % 16 \in 0..15 /\ 16 * (ch \div 16) + (ch % 16) = ch
BY SMT DEF Char

\* However a client writes a character, that character stands there.
LEMMA CharacterStands ==
  ASSUME NEW ch \in Char, NEW bytes \in Escapes(ch)
  PROVE  /\ bytes \in Text /\ Len(bytes) >= 1
         /\ \A i \in 1..Len(bytes) : bytes[i] # And
         /\ Stands(bytes, 1, Len(bytes) + 1, ch)
<1>1. ASSUME NEW letter \in {65, 97}, bytes = Escape(ch, letter)
      PROVE  /\ bytes \in Text /\ Len(bytes) >= 1
             /\ \A i \in 1..Len(bytes) : bytes[i] # And
             /\ Stands(bytes, 1, Len(bytes) + 1, ch)
  <2> DEFINE x == Hex(ch \div 16, letter)
             y == Hex(ch % 16, letter)
  <2>1. /\ ch \div 16 \in 0..15 /\ ch % 16 \in 0..15
        /\ 16 * (ch \div 16) + (ch % 16) = ch
    BY HighAndLow
  <2>2. /\ x \in Char /\ x # And /\ y \in Char /\ y # And
        /\ HexValue(x) = ch \div 16 /\ HexValue(y) = ch % 16
    BY <2>1, HexOf
  <2>3. bytes = <<Percent, x, y>>
    BY <1>1 DEF Escape
  <2>4. 16 * HexValue(x) + HexValue(y) = ch
    BY <2>1, <2>2
  <2> HIDE DEF x, y
  <2>5. Percent \in Char /\ Percent # And
    BY DEF Percent, Char, And
  <2>6. /\ Len(bytes) = 3 /\ bytes \in Seq(Char)
        /\ bytes[1] = Percent /\ bytes[2] = x /\ bytes[3] = y
    BY <2>2, <2>3, <2>5
  <2>7. \A i \in 1..Len(bytes) : bytes[i] # And
    BY <2>2, <2>5, <2>6
  <2>8. Stands(bytes, 1, Len(bytes) + 1, ch)
    BY <2>4, <2>6 DEF Stands
  <2> QED BY <2>6, <2>7, <2>8 DEF Text
<1>2. ASSUME NEW c \in Char, bytes = <<c>>, c # And,
             \/ c = ch /\ ch \in Unreserved \cup {Equals}
             \/ c = Plus /\ ch = Space
      PROVE  /\ bytes \in Text /\ Len(bytes) >= 1
             /\ \A i \in 1..Len(bytes) : bytes[i] # And
             /\ Stands(bytes, 1, Len(bytes) + 1, ch)
  <2>1. Len(bytes) = 1 /\ bytes \in Seq(Char) /\ bytes[1] = c
    BY <1>2
  <2>2. Stands(bytes, 1, Len(bytes) + 1, ch)
    BY <1>2, <2>1 DEF Stands
  <2> QED BY <1>2, <2>1, <2>2 DEF Text
<1>3. ch \in Unreserved => ch # And
  BY DEF Unreserved, And, Digit
<1>4. Plus \in Char /\ Plus # And /\ Equals # And /\ Space \notin Unreserved
  BY DEF Plus, Char, And, Equals, Space, Unreserved, Digit
<1>5. CASE bytes = Encoded(ch)
  <2>1. CASE ch \in Unreserved
    <3>1. bytes = <<ch>>
      BY <1>4, <1>5, <2>1 DEF Encoded
    <3> QED BY <1>2, <1>3, <2>1, <3>1
  <2>2. CASE ch = Space
    <3>1. bytes = <<Plus>>
      BY <1>4, <1>5, <2>2 DEF Encoded
    <3> QED BY <1>2, <1>4, <2>2, <3>1
  <2>3. CASE ch \notin Unreserved \cup {Space}
    <3>1. bytes = Escape(ch, 65)
      BY <1>5, <2>3 DEF Encoded
    <3> QED BY <1>1, <3>1
  <2> QED BY <2>1, <2>2, <2>3
<1>6. CASE bytes = Escape(ch, 65) \/ bytes = Escape(ch, 97)
  BY <1>1, <1>6
<1>7. CASE ch = Equals /\ bytes = <<ch>>
  BY <1>2, <1>4, <1>7
<1> QED BY <1>5, <1>6, <1>7 DEF Escapes

\* What stands in one form stands in another that has the same characters.
LEMMA StandsMoved ==
  ASSUME NEW f, NEW h, NEW i \in Nat, NEW next \in Nat, NEW d \in Nat, NEW ch,
         Stands(f, i, next, ch),
         \A j \in i..(next - 1) : h[j + d] = f[j]
  PROVE  Stands(h, i + d, next + d, ch)
<1>1. CASE next = i + 1
  <2>1. h[i + d] = f[i]
    BY <1>1
  <2> QED BY <1>1, <2>1 DEF Stands
<1>2. CASE next = i + 3
  <2>1. h[i + d] = f[i] /\ h[(i + d) + 1] = f[i + 1] /\ h[(i + d) + 2] = f[i + 2]
    <3>1. i \in i..(next - 1) /\ i + 1 \in i..(next - 1) /\ i + 2 \in i..(next - 1)
      BY <1>2
    <3>2. (i + 1) + d = (i + d) + 1 /\ (i + 2) + d = (i + d) + 2
      OBVIOUS
    <3> QED BY <3>1, <3>2
  <2>2. next + d = (i + d) + 3 /\ next # i + 1
    BY <1>2
  <2> QED BY <2>1, <2>2 DEF Stands
<1> QED BY <1>1, <1>2 DEF Stands

LEMMA ReadsKept ==
  ASSUME NEW f, NEW h, NEW start \in Nat, NEW end \in Nat, NEW text \in Text,
         Reads(f, start, end, text),
         \A j \in start..(end - 1) : h[j] = f[j]
  PROVE  Reads(h, start, end, text)
<1>1. PICK b \in [0..Len(text) -> start..end] :
        /\ b[0] = start /\ b[Len(text)] = end
        /\ \A j \in 1..Len(text) : Stands(f, b[j - 1], b[j], text[j])
  BY DEF Reads
<1>2. Len(text) \in Nat
  BY DEF Text
<1>3. ASSUME NEW j \in 1..Len(text)
      PROVE  Stands(h, b[j - 1], b[j], text[j])
  <2>1. j - 1 \in 0..Len(text) /\ j \in 0..Len(text)
    BY <1>2
  <2>2. b[j - 1] \in start..end /\ b[j] \in start..end
    BY <1>1, <2>1
  <2> DEFINE i == b[j - 1]
             n == b[j]
  <2>3. Stands(f, i, n, text[j])
    BY <1>1
  <2>4. i \in Nat /\ n \in Nat /\ start <= i /\ n <= end
    BY <2>2
  <2> HIDE DEF i, n
  <2>5. \A m \in i..(n - 1) : h[m + 0] = f[m]
    <3> TAKE m \in i..(n - 1)
    <3>1. m \in start..(end - 1) /\ m + 0 = m
      BY <2>4
    <3> QED BY <3>1
  <2>6. Stands(h, i + 0, n + 0, text[j])
    BY <2>3, <2>4, <2>5, StandsMoved
  <2>7. i + 0 = i /\ n + 0 = n
    BY <2>4
  <2>8. Stands(h, i, n, text[j])
    BY <2>6, <2>7
  <2> QED BY <2>8 DEF i, n
<1> QED BY <1>1, <1>3 DEF Reads

LEMMA ArgumentKept ==
  ASSUME NEW f, NEW h, NEW k \in Name, NEW start, NEW end, NEW text \in Text,
         ArgumentAt(f, k, start, end, text),
         \A j \in 1..(end - 1) : h[j] = f[j]
  PROVE  ArgumentAt(h, k, start, end, text)
<1>1. start \in Nat /\ start >= 1 /\ end \in Nat /\ start + Len(k) + 1 <= end
  BY DEF ArgumentAt
<1>2. Len(k) \in Nat
  BY DEF Name
<1>3. start # 1 => h[start - 1] = And
  <2>1. start # 1 => start - 1 \in 1..(end - 1)
    BY <1>1, <1>2
  <2> QED BY <2>1 DEF ArgumentAt
<1>4. \A i \in 1..Len(k) : h[start + i - 1] = k[i]
  <2> TAKE i \in 1..Len(k)
  <2>1. start + i - 1 \in 1..(end - 1)
    BY <1>1, <1>2
  <2> QED BY <2>1 DEF ArgumentAt
<1>5. h[start + Len(k)] = Equals
  <2>1. start + Len(k) \in 1..(end - 1)
    BY <1>1, <1>2
  <2> QED BY <2>1 DEF ArgumentAt
<1>6. \A i \in start..(end - 1) : h[i] # And
  <2> TAKE i \in start..(end - 1)
  <2>1. i \in 1..(end - 1)
    BY <1>1
  <2> QED BY <2>1 DEF ArgumentAt
<1>7. Reads(h, start + Len(k) + 1, end, text)
  <2>1. Reads(f, start + Len(k) + 1, end, text)
    BY DEF ArgumentAt
  <2>2. \A j \in (start + Len(k) + 1)..(end - 1) : h[j] = f[j]
    <3> TAKE j \in (start + Len(k) + 1)..(end - 1)
    <3>1. j \in 1..(end - 1)
      BY <1>1, <1>2
    <3> QED BY <3>1
  <2>3. start + Len(k) + 1 \in Nat
    BY <1>1, <1>2
  <2> QED BY <1>1, <2>1, <2>2, <2>3, ReadsKept
<1> QED BY <1>1, <1>3, <1>4, <1>5, <1>6, <1>7 DEF ArgumentAt

\* The empty text stands everywhere, and a text that stands there may go on.
LEMMA ReadsNothing ==
  ASSUME NEW f, NEW start \in Nat
  PROVE  Reads(f, start, start, <<>>)
<1> DEFINE b == [j \in 0..0 |-> start]
<1>1. b \in [0..0 -> start..start] /\ b[0] = start
  OBVIOUS
<1> HIDE DEF b
<1>2. Len(<<>>) = 0
  OBVIOUS
<1>3. \A j \in 1..0 : FALSE
  OBVIOUS
<1> QED BY <1>1, <1>2, <1>3 DEF Reads

LEMMA ReadsMore ==
  ASSUME NEW f, NEW start \in Nat, NEW end \in Nat, NEW text \in Text, NEW ch \in Char,
         NEW next \in Nat, start <= end, end <= next,
         Reads(f, start, end, text), Stands(f, end, next, ch)
  PROVE  Reads(f, start, next, Append(text, ch))
<1>1. PICK b \in [0..Len(text) -> start..end] :
        /\ b[0] = start /\ b[Len(text)] = end
        /\ \A j \in 1..Len(text) : Stands(f, b[j - 1], b[j], text[j])
  BY DEF Reads
<1> DEFINE u == Append(text, ch)
           n == Len(text)
<1>2. /\ n \in Nat /\ Len(u) = n + 1 /\ u[n + 1] = ch
      /\ \A j \in 1..n : u[j] = text[j]
  BY DEF Text
<1> HIDE DEF u
<1> DEFINE c == [j \in 0..Len(u) |-> IF j <= n THEN b[j] ELSE next]
<1>3. c \in [0..Len(u) -> start..next]
  <2>1. ASSUME NEW j \in 0..Len(u)
        PROVE  c[j] \in start..next
    <3>1. j <= n => b[j] \in start..end
      BY <1>1, <1>2
    <3> QED BY <3>1
  <2> QED BY <2>1
<1>4. c[0] = start /\ c[Len(u)] = next
  BY <1>1, <1>2
<1>5. ASSUME NEW j \in 1..Len(u)
      PROVE  Stands(f, c[j - 1], c[j], u[j])
  <2>1. CASE j <= n
    <3>1. j \in 1..n /\ c[j] = b[j] /\ c[j - 1] = b[j - 1] /\ u[j] = text[j]
      BY <1>2, <2>1
    <3> HIDE DEF c
    <3> QED BY <1>1, <3>1
  <2>2. CASE j = n + 1
    <3>1. c[j] = next /\ c[j - 1] = end /\ u[j] = ch
      BY <1>1, <1>2, <2>2
    <3> HIDE DEF c
    <3> QED BY <3>1
  <2> QED BY <1>2, <2>1, <2>2
<1> HIDE DEF c
<1>6. Reads(f, start, next, u)
  BY <1>3, <1>4, <1>5 DEF Reads
<1> QED BY <1>6 DEF u

\* A text is decoded from where it stands.
LEMMA DecodeReads ==
  ASSUME NEW start \in Nat, NEW end \in Nat, NEW text \in Text, start <= end,
         Reads(form, start, end, text)
  PROVE  DecodeQuery(start, end) = text
<1>1. PICK b \in [0..Len(text) -> start..end] :
        /\ b[0] = start /\ b[Len(text)] = end
        /\ \A j \in 1..Len(text) : Stands(form, b[j - 1], b[j], text[j])
  BY DEF Reads
<1>2. PICK g : /\ DecodeQuery(start, end) = g[start]
               /\ \A i \in start..end : g[i] = DecodedOf(g, i, end)
  BY QueryUnfolds
<1>3. Len(text) \in Nat /\ text \in Seq(Char)
  BY DEF Text
<1> DEFINE n == Len(text)
           S == {j \in Nat : g[b[j]] = SubSeq(text, j + 1, n)}
<1>4. ASSUME NEW j \in 0..n, \A m \in (j + 1)..n : m \in S
      PROVE  j \in S
  <2>1. CASE j = n
    <3>1. b[j] = end /\ g[end] = DecodedOf(g, end, end)
      BY <1>1, <1>2, <2>1
    <3>2. DecodedOf(g, end, end) = <<>>
      <4>1. end <= end
        OBVIOUS
      <4> QED BY <4>1, DecodedEnd, Zenon
    <3>3. SubSeq(text, j + 1, n) = <<>>
      BY <1>3, <2>1, SubSeqEmpty
    <3> QED BY <1>3, <3>1, <3>2, <3>3, SMTT(30)
  <2>2. CASE j < n
    <3>1. /\ j + 1 \in 1..n /\ j + 1 \in 0..n /\ j + 1 \in (j + 1)..n
          /\ (j + 1) - 1 = j /\ j \in Nat
      BY <1>3, <2>2
    <3> DEFINE i == b[j]
               next == b[j + 1]
               ch == text[j + 1]
    <3>2. Stands(form, i, next, ch)
      BY <1>1, <3>1
    <3>3. i \in start..end /\ next \in start..end
      BY <1>1, <3>1
    <3>4. g[i] = DecodedOf(g, i, end)
      BY <1>2, <3>3
    <3>5. g[next] = SubSeq(text, j + 2, n)
      <4>1. j + 1 \in S
        BY <1>4, <3>1
      <4>2. (j + 1) + 1 = j + 2
        BY <3>1
      <4> QED BY <4>1, <4>2
    <3>6. SubSeq(text, j + 1, n) = <<ch>> \o SubSeq(text, j + 2, n)
      <4>1. n \in (j + 1)..n /\ (j + 1) + 1 = j + 2
        BY <3>1
      <4> QED BY <1>3, <3>1, <4>1, SubSeqRecursiveFirst
    <3> HIDE DEF i, next, ch
    <3>7. i \in Nat /\ i <= end /\ next \in Nat /\ next <= end
      BY <3>3
    <3>8. DecodedOf(g, i, end) = <<ch>> \o g[next]
      <4>1. CASE next = i + 1 /\ form[i] = ch /\ ch \in Unreserved \cup {Equals}
        <5>1. form[i] # Plus /\ form[i] # Percent
          BY <4>1 DEF Unreserved, Equals, Plus, Percent, Digit
        <5>2. i < end
          BY <3>7, <4>1
        <5>3. DecodedOf(g, i, end) = <<form[i]>> \o g[i + 1]
          BY <3>7, <5>1, <5>2, DecodedOther
        <5> QED BY <4>1, <5>3
      <4>2. CASE next = i + 1 /\ form[i] = Plus /\ ch = Space
        <5>1. i < end
          BY <3>7, <4>2
        <5>2. DecodedOf(g, i, end) = <<Space>> \o g[i + 1]
          BY <3>7, <4>2, <5>1, DecodedPlus
        <5> QED BY <4>2, <5>2
      <4>3. CASE /\ next = i + 3 /\ form[i] = Percent
                 /\ 16 * HexValue(form[i + 1]) + HexValue(form[i + 2]) = ch
        <5> DEFINE x == 16 * HexValue(form[i + 1]) + HexValue(form[i + 2])
        <5>1. i < end /\ form[i] = Percent /\ i + 2 < end
          BY <3>7, <4>3
        <5>2. DecodedOf(g, i, end) = <<x % 256>> \o g[i + 3]
          BY <3>7, <5>1, DecodedEscape, Zenon
        <5>3. x = ch
          BY <4>3
        <5>4. ch \in Char
          BY <1>3, <3>1 DEF ch
        <5>5. ch % 256 = ch
          BY <5>4 DEF Char
        <5> HIDE DEF x
        <5> QED BY <4>3, <5>2, <5>3, <5>5
      <4> QED BY <3>2, <4>1, <4>2, <4>3 DEF Stands
    <3>9. g[b[j]] = SubSeq(text, j + 1, n)
      BY <3>4, <3>5, <3>6, <3>8 DEF i
    <3> QED BY <3>1, <3>9
  <2> QED BY <1>3, <2>1, <2>2
<1> HIDE DEF S
<1>5. \A j \in 0..n : j \in S
  BY <1>3, <1>4, BackwardInduction
<1>6. g[b[0]] = SubSeq(text, 1, n)
  BY <1>3, <1>5 DEF S
<1> QED BY <1>1, <1>2, <1>3, <1>6, SubSeqFull

-----------------------------------------------------------------------------
(* Where the parameters stand *)

Begun == DOMAIN meant \ left

\* What is written of the text of a parameter.
Shown(k) == IF k = entry.key THEN SubSeq(meant[k], 1, entry.at) ELSE meant[k]

FormTypes ==
  /\ form \in Text
  /\ \A k \in DOMAIN meant : k \in Name /\ meant[k] \in Text
  /\ left \subseteq DOMAIN meant
  /\ entry \in [key : Name \cup {<<>>}, at : Nat]
  /\ entry = Nobody => Begun = {}
  /\ entry # Nobody => entry.key \in Begun /\ entry.at <= Len(meant[entry.key])
  /\ writer = "gateway" => tracked \in Tracked /\ meant = Texts(tracked)

ParameterTypes == \A k \in DOMAIN parameters : k \in Text /\ parameters[k] \in Text

\* Each parameter that is begun is an argument, the last of them at the end,
\* and every argument behind one of them is another.
Placed(at, end) ==
  /\ at \in [Begun -> Nat] /\ end \in [Begun -> Nat]
  /\ \A k \in Begun :
       /\ ArgumentAt(form, k, at[k], end[k], Shown(k))
       /\ IF k = entry.key THEN end[k] = Len(form) + 1
          ELSE end[k] <= Len(form) /\ form[end[k]] = And
  /\ \A k \in Begun : \A q \in (at[k] + 1)..(Len(form) + 1) :
       form[q - 1] = And => \E k2 \in Begun : at[k2] = q
  /\ writer = "gateway" /\ form # <<>> => \E k \in Begun : at[k] = 1

\* The loop is at the begin of an argument, and has those before it.
Passed(at) ==
  /\ argStartPos \in 1..(Len(form) + 2)
  /\ argStartPos # 1 => Written
  /\ argStartPos # 1 /\ argStartPos <= Len(form) => form[argStartPos - 1] = And
  /\ \A k \in Begun :
       at[k] < argStartPos => k \in DOMAIN parameters /\ parameters[k] = meant[k]
  /\ writer = "gateway" => DOMAIN parameters \subseteq DOMAIN meant

ReaderInv ==
  /\ CastInv
  /\ CountInv
  /\ reader.status # "idle" =>
       Parsed /\ key \in DOMAIN parameters /\ reader.text = parameters[key]

FormInv ==
  /\ FormTypes
  /\ ParameterTypes
  /\ \E at, end : Placed(at, end) /\ Passed(at)
  /\ ReaderInv

WithArgument(f, k) == f \o (IF f = <<>> THEN <<>> ELSE <<And>>) \o k \o <<Equals>>

NextStart(f) == IF f = <<>> THEN 1 ELSE Len(f) + 2

\* The form after an argument is begun.
LEMMA Begins ==
  ASSUME NEW f \in Text, NEW h, NEW k \in Name, NEW p,
         h = WithArgument(f, k), p = NextStart(f)
  PROVE  /\ h \in Text /\ Len(h) = p + Len(k) /\ p \in Nat /\ p >= 1
         /\ Len(k) \in Nat /\ Len(f) \in Nat /\ p > Len(f)
         /\ \A i \in 1..Len(f) : h[i] = f[i]
         /\ f # <<>> => h[Len(f) + 1] = And
         /\ ArgumentAt(h, k, p, Len(h) + 1, <<>>)
<1>1. /\ And \in Char /\ Equals \in Char /\ Unreserved \subseteq Char
      /\ And \notin Unreserved /\ Equals # And
  BY DEF And, Equals, Unreserved, Char, Digit
<1>2. /\ k \in Seq(Char) /\ Len(k) \in Nat /\ f \in Seq(Char) /\ Len(f) \in Nat
      /\ \A i \in 1..Len(k) : k[i] # And
  BY <1>1 DEF Name, Text
<1> USE DEF NextStart
<1> DEFINE sep == IF f = <<>> THEN <<>> ELSE <<And>>
           g == f \o sep
<1>3. /\ g \in Seq(Char) /\ Len(g) = p - 1 /\ p \in Nat /\ p >= 1 /\ p > Len(f)
      /\ \A i \in 1..Len(f) : g[i] = f[i]
      /\ f # <<>> => g[Len(f) + 1] = And
  <2>1. CASE f = <<>>
    BY <1>1, <1>2, <2>1
  <2>2. CASE f # <<>>
    BY <1>1, <1>2, <2>2
  <2> QED BY <2>1, <2>2
<1>4. p - 1 >= Len(f) /\ (f # <<>> => Len(f) + 1 <= p - 1)
  BY <1>2
<1>5. h = g \o k \o <<Equals>>
  BY DEF WithArgument
<1> HIDE DEF g
<1> DEFINE m == g \o k
<1>6. /\ m \in Seq(Char) /\ Len(m) = p - 1 + Len(k)
      /\ \A i \in 1..(p - 1) : m[i] = g[i]
      /\ \A i \in 1..Len(k) : m[p - 1 + i] = k[i]
  <2>1. /\ m \in Seq(Char) /\ Len(m) = Len(g) + Len(k)
        /\ \A i \in 1..(Len(g) + Len(k)) :
             m[i] = IF i <= Len(g) THEN g[i] ELSE k[i - Len(g)]
    BY <1>2, <1>3, ConcatProperties
  <2> HIDE DEF m
  <2>2. p - 1 \in Nat /\ Len(g) = p - 1 /\ Len(k) \in Nat
    BY <1>2, <1>3
  <2>3. ASSUME NEW i \in 1..(p - 1)
        PROVE  m[i] = g[i]
    <3>1. i \in 1..(Len(g) + Len(k)) /\ i <= Len(g)
      BY <2>2
    <3> QED BY <2>1, <3>1
  <2>4. ASSUME NEW i \in 1..Len(k)
        PROVE  m[p - 1 + i] = k[i]
    <3>1. /\ p - 1 + i \in 1..(Len(g) + Len(k)) /\ ~(p - 1 + i <= Len(g))
          /\ (p - 1 + i) - Len(g) = i
      BY <2>2
    <3> QED BY <2>1, <3>1
  <2> QED BY <2>1, <2>2, <2>3, <2>4
<1> HIDE DEF m
<1>7. /\ h \in Seq(Char) /\ Len(h) = p + Len(k)
      /\ \A i \in 1..(p - 1 + Len(k)) : h[i] = m[i]
      /\ h[p + Len(k)] = Equals
  <2>1. h = m \o <<Equals>>
    BY <1>5 DEF m
  <2>2. h = Append(m, Equals)
    BY <1>1, <1>6, <2>1, AppendIsConcat
  <2>3. /\ h \in Seq(Char) /\ Len(h) = Len(m) + 1
        /\ \A i \in 1..Len(m) : h[i] = m[i]
        /\ h[Len(m) + 1] = Equals
    <3> HIDE DEF m
    <3>1. /\ Append(m, Equals) \in Seq(Char) /\ Len(Append(m, Equals)) = Len(m) + 1
          /\ \A i \in 1..Len(m) : Append(m, Equals)[i] = m[i]
          /\ Append(m, Equals)[Len(m) + 1] = Equals
      BY <1>1, <1>6, AppendProperties
    <3> QED BY <2>2, <3>1, Zenon
  <2>4. Len(m) = p - 1 + Len(k) /\ Len(m) + 1 = p + Len(k)
    BY <1>2, <1>3, <1>6
  <2> QED BY <2>3, <2>4
<1>8. /\ \A i \in 1..Len(f) : h[i] = f[i]
      /\ f # <<>> => h[Len(f) + 1] = And
  <2>1. \A i \in 1..(p - 1) : h[i] = g[i]
    <3> TAKE i \in 1..(p - 1)
    <3>1. i \in 1..(p - 1 + Len(k))
      BY <1>2, <1>3
    <3> QED BY <1>6, <1>7, <3>1
  <2>2. \A i \in 1..Len(f) : i \in 1..(p - 1)
    BY <1>2, <1>3, <1>4
  <2>3. f # <<>> => Len(f) + 1 \in 1..(p - 1)
    BY <1>2, <1>3, <1>4
  <2> QED BY <1>3, <2>1, <2>2, <2>3
<1>9. \A i \in 1..Len(k) : h[p + i - 1] = k[i]
  <2> TAKE i \in 1..Len(k)
  <2>1. p + i - 1 = p - 1 + i /\ p - 1 + i \in 1..(p - 1 + Len(k))
    BY <1>2, <1>3
  <2> QED BY <1>6, <1>7, <2>1
<1>10. p # 1 => h[p - 1] = And
  <2>1. p # 1 => f # <<>> /\ p - 1 = Len(f) + 1
    BY <1>2
  <2> QED BY <1>8, <2>1
<1>11. \A i \in p..((Len(h) + 1) - 1) : h[i] # And
  <2> TAKE i \in p..((Len(h) + 1) - 1)
  <2>1. CASE i = p + Len(k)
    BY <1>1, <1>7, <2>1
  <2>2. CASE i < p + Len(k)
    <3>1. PICK j : j = i - p + 1
      OBVIOUS
    <3>2. j \in 1..Len(k) /\ p + j - 1 = i
      BY <1>2, <1>3, <2>2, <3>1, SMTT(30)
    <3>3. h[p + j - 1] = k[j]
      BY <1>9, <3>2
    <3>4. h[i] = k[j] /\ k[j] # And
      BY <1>2, <3>2, <3>3
    <3> QED BY <3>4
  <2> QED BY <1>2, <1>3, <1>7, <2>1, <2>2
<1>12. Reads(h, p + Len(k) + 1, Len(h) + 1, <<>>)
  <2>1. p + Len(k) + 1 \in Nat /\ Len(h) + 1 = p + Len(k) + 1
    BY <1>2, <1>3, <1>7
  <2> QED BY <2>1, ReadsNothing
<1>13. ArgumentAt(h, k, p, Len(h) + 1, <<>>)
  <2>1. /\ p \in Nat \ {0} /\ Len(h) + 1 \in Nat
        /\ p + Len(k) + 1 <= Len(h) + 1
    BY <1>2, <1>3, <1>7
  <2> QED BY <1>7, <1>9, <1>10, <1>11, <1>12, <2>1 DEF ArgumentAt
<1> QED BY <1>2, <1>3, <1>7, <1>8, <1>13 DEF Text

\* An argument lies within the form.
LEMMA Lengths ==
  ASSUME FormTypes, NEW at, NEW end, Placed(at, end), NEW k \in Begun
  PROVE  /\ k \in Name /\ Len(k) \in Nat /\ Len(k) >= 1 /\ meant[k] \in Text
         /\ at[k] \in Nat /\ at[k] >= 1 /\ end[k] \in Nat
         /\ at[k] + Len(k) + 1 <= end[k] /\ end[k] <= Len(form) + 1
         /\ Len(form) \in Nat /\ entry # Nobody
<1>1. k \in Name /\ meant[k] \in Text /\ form \in Text /\ entry # Nobody
  BY DEF FormTypes, Begun
<1>2. Len(k) \in Nat /\ Len(k) >= 1
  <2>1. k \in Seq(Unreserved) /\ k # <<>>
    BY <1>1 DEF Name
  <2> QED BY <2>1, EmptySeq
<1>3. Len(form) \in Nat
  BY <1>1 DEF Text
<1>4. /\ at[k] \in Nat /\ at[k] >= 1 /\ end[k] \in Nat
      /\ at[k] + Len(k) + 1 <= end[k]
  BY DEF Placed, ArgumentAt
<1>5. end[k] <= Len(form) + 1
  BY <1>3, <1>4 DEF Placed
<1> QED BY <1>1, <1>2, <1>3, <1>4, <1>5

\* No parameter has arrived when the first is read.
LEMMA NotStarted ==
  ASSUME NEW at, NEW end, Placed(at, end), argStartPos = 1, NEW k \in Begun
  PROVE  ~(at[k] < argStartPos)
<1>1. at[k] \in Nat \ {0}
  BY DEF Placed, ArgumentAt
<1> QED BY <1>1

\* While the form is written, no loop runs and no getter.
LEMMA Writing ==
  ASSUME FormInv, ~Written
  PROVE  argStartPos = 1 /\ reader.status = "idle"
BY DEF FormInv, Passed, ReaderInv, Parsed

\* An argument is begun.
LEMMA BeginStep ==
  ASSUME FormInv, NEW k \in left, BeginEntry(k)
  PROVE  FormInv'
<1>1. argStartPos = 1 /\ reader.status = "idle"
  <2>1. ~Written
    BY DEF Written
  <2> QED BY <2>1, Writing
<1>2. /\ FormTypes /\ ParameterTypes /\ ReaderInv
      /\ k \in Name /\ k \in DOMAIN meant /\ form \in Text
  BY DEF FormInv, FormTypes
<1>3. PICK at, end : Placed(at, end) /\ Passed(at)
  BY DEF FormInv
<1>4. PICK p : p = NextStart(form)
  OBVIOUS
<1>5. /\ left' = left \ {k} /\ entry' = [key |-> k, at |-> 0]
      /\ form' = form \o (IF form = <<>> THEN <<>> ELSE <<And>>) \o k \o <<Equals>>
      /\ writer' = writer /\ tracked' = tracked /\ meant' = meant
      /\ argStartPos' = argStartPos /\ parameters' = parameters
      /\ key' = key /\ reader' = reader
  BY DEF BeginEntry, loopVars
<1>6. PICK h : h = form'
  OBVIOUS
<1>7. /\ h \in Text /\ Len(h) = p + Len(k) /\ p \in Nat /\ p >= 1
      /\ Len(k) \in Nat /\ Len(form) \in Nat /\ p > Len(form)
      /\ \A i \in 1..Len(form) : h[i] = form[i]
      /\ form # <<>> => h[Len(form) + 1] = And
      /\ ArgumentAt(h, k, p, Len(h) + 1, <<>>)
  <2>1. h = WithArgument(form, k)
    BY <1>5, <1>6, Zenon DEF WithArgument
  <2>2. PICK f : f = form
    OBVIOUS
  <2>3. f \in Text /\ h = WithArgument(f, k) /\ p = NextStart(f) /\ k \in Name
    BY <1>2, <1>4, <2>1, <2>2
  <2>4. /\ h \in Text /\ Len(h) = p + Len(k) /\ p \in Nat /\ p >= 1
        /\ Len(k) \in Nat /\ Len(f) \in Nat /\ p > Len(f)
        /\ \A i \in 1..Len(f) : h[i] = f[i]
        /\ f # <<>> => h[Len(f) + 1] = And
        /\ ArgumentAt(h, k, p, Len(h) + 1, <<>>)
    BY <2>3, Begins, ZenonT(30)
  <2> QED BY <2>2, <2>4, ZenonT(30)
<1>8. Begun' = Begun \cup {k} /\ k \notin Begun
  BY <1>2, <1>5 DEF Begun
<1>9. PICK B : B = Begun \cup {k}
  OBVIOUS
<1>10. PICK at2 : at2 = [k2 \in B |-> IF k2 = k THEN p ELSE at[k2]]
  OBVIOUS
<1>11. PICK end2 : end2 = [k2 \in B |-> IF k2 = k THEN Len(h) + 1 ELSE end[k2]]
  OBVIOUS
<1>12. at2[k] = p /\ end2[k] = Len(h) + 1
  BY <1>9, <1>10, <1>11
<1>13. \A k2 \in Begun : k2 # k /\ k2 \in B /\ at2[k2] = at[k2] /\ end2[k2] = end[k2]
  BY <1>8, <1>9, <1>10, <1>11
<1>14. \A k2 \in Begun : Shown(k2) = meant[k2]
  <2> TAKE k2 \in Begun
  <2>1. meant[k2] \in Text /\ entry # Nobody
    BY <1>2, <1>3, Lengths
  <2>2. entry.at = Len(meant[entry.key])
    BY <2>1 DEF BeginEntry
  <2>3. SubSeq(meant[k2], 1, Len(meant[k2])) = meant[k2]
    BY <2>1, SubSeqFull DEF Text
  <2> QED BY <2>2, <2>3 DEF Shown
<1>15. FormTypes'
  <2>1. [key |-> k, at |-> 0] \in [key : Name \cup {<<>>}, at : Nat]
    BY <1>2
  <2>2. entry' # Nobody /\ entry'.key = k /\ entry'.at = 0
    <3>1. k # <<>>
      BY <1>2 DEF Name
    <3> QED BY <1>5, <3>1 DEF Nobody
  <2>3. Nobody' = Nobody
    BY DEF Nobody
  <2>4. Len(meant[k]) \in Nat
    BY <1>2 DEF FormTypes, Text
  <2>5. entry'.key \in Begun' /\ entry'.at <= Len(meant'[entry'.key])
    BY <1>5, <1>8, <2>2, <2>4
  <2>6. writer = "gateway" => tracked \in Tracked /\ meant = Texts(tracked)
    BY <1>2 DEF FormTypes
  <2>7. Texts(tracked)' = Texts(tracked)
    BY <1>5 DEF Texts, SetText, Numeral
  <2> QED BY <1>2, <1>5, <1>6, <1>7, <2>1, <2>2, <2>3, <2>5, <2>6, <2>7 DEF FormTypes
<1>16. \A k2 \in B : k2 = k \/ k2 \in Begun
  BY <1>9
<1>17. ASSUME NEW k2 \in B
       PROVE  /\ ArgumentAt(h, k2, at2[k2], end2[k2], IF k2 = k THEN <<>> ELSE meant[k2])
              /\ IF k2 = k THEN end2[k2] = Len(h) + 1
                 ELSE end2[k2] <= Len(h) /\ h[end2[k2]] = And
              /\ at2[k2] \in Nat /\ end2[k2] \in Nat
  <2>1. CASE k2 = k
    <3>1. Len(h) + 1 \in Nat
      BY <1>7
    <3> QED BY <1>7, <1>12, <2>1, <3>1
  <2>2. CASE k2 \in Begun
    <3>1. k2 # k /\ at2[k2] = at[k2] /\ end2[k2] = end[k2]
      BY <1>13, <2>2
    <3>2. /\ k2 \in Name /\ meant[k2] \in Text
          /\ at[k2] \in Nat /\ at[k2] >= 1 /\ end[k2] \in Nat
          /\ at[k2] + Len(k2) + 1 <= end[k2] /\ end[k2] <= Len(form) + 1
          /\ Len(k2) \in Nat /\ Len(k2) >= 1
      BY <1>2, <1>3, <2>2, Lengths
    <3>3. ArgumentAt(form, k2, at[k2], end[k2], meant[k2])
      BY <1>3, <1>14, <2>2 DEF Placed
    <3>4. \A j \in 1..(end[k2] - 1) : h[j] = form[j]
      <4> TAKE j \in 1..(end[k2] - 1)
      <4>1. j \in 1..Len(form)
        BY <1>7, <3>2
      <4> QED BY <1>7, <4>1
    <3>5. ArgumentAt(h, k2, at[k2], end[k2], meant[k2])
      BY <3>2, <3>3, <3>4, ArgumentKept
    <3>6. end[k2] <= Len(h)
      BY <1>7, <3>2
    <3>7. h[end[k2]] = And
      <4>1. CASE k2 = entry.key
        <5>1. end[k2] = Len(form) + 1
          BY <1>3, <2>2, <4>1 DEF Placed
        <5>2. form # <<>>
          <6> SUFFICES ASSUME form = <<>> PROVE FALSE
            OBVIOUS
          <6>1. Len(form) = 0
            OBVIOUS
          <6> QED BY <3>2, <6>1
        <5> QED BY <1>7, <5>1, <5>2
      <4>2. CASE k2 # entry.key
        <5>1. end[k2] <= Len(form) /\ form[end[k2]] = And
          BY <1>3, <2>2, <4>2 DEF Placed
        <5>2. end[k2] \in 1..Len(form)
          BY <1>7, <3>2, <5>1
        <5> QED BY <1>7, <5>1, <5>2
      <4> QED BY <4>1, <4>2
    <3> QED BY <3>1, <3>2, <3>5, <3>6, <3>7
  <2> QED BY <1>16, <2>1, <2>2
<1>18. ASSUME NEW k2 \in B, NEW q \in (at2[k2] + 1)..(Len(h) + 1), h[q - 1] = And
       PROVE  \E k3 \in B : at2[k3] = q
  <2>1. at2[k2] \in Nat /\ q \in Nat /\ at2[k2] < q /\ q <= Len(h) + 1
    BY <1>7, <1>17
  <2>2. CASE q = p
    BY <1>9, <1>12, <2>2
  <2>3. CASE q > p
    <3>1. q - 1 \in p..((Len(h) + 1) - 1)
      BY <1>7, <2>1, <2>3
    <3> QED BY <1>7, <1>18, <3>1 DEF ArgumentAt
  <2>4. CASE q < p
    <3>1. k2 # k /\ k2 \in Begun
      <4>1. k2 # k
        BY <1>7, <1>12, <2>1, <2>4
      <4> QED BY <1>16, <4>1
    <3>2. at2[k2] = at[k2] /\ form # <<>>
      <4>1. at[k2] + Len(k2) + 1 <= end[k2] /\ end[k2] <= Len(form) + 1
            /\ at[k2] \in Nat /\ at[k2] >= 1 /\ Len(k2) \in Nat /\ end[k2] \in Nat
            /\ Len(k2) >= 1
        BY <1>2, <1>3, <3>1, Lengths
      <4>2. Len(form) # 0
        BY <1>7, <4>1
      <4>3. Len(<<>>) = 0
        OBVIOUS
      <4> QED BY <1>13, <3>1, <4>2, <4>3
    <3>3. p = Len(form) + 2
      BY <1>4, <3>2 DEF NextStart
    <3>4. q \in (at[k2] + 1)..(Len(form) + 1) /\ q - 1 \in 1..Len(form)
      <4>1. Len(form) \in Nat /\ at[k2] \in Nat /\ at[k2] >= 1
        BY <1>2, <1>3, <3>1, Lengths
      <4> QED BY <2>1, <2>4, <3>2, <3>3, <4>1
    <3>5. form[q - 1] = And
      BY <1>7, <1>18, <3>4
    <3>6. PICK k3 \in Begun : at[k3] = q
      BY <1>3, <3>1, <3>4, <3>5 DEF Placed
    <3> QED BY <1>13, <3>6
  <2> QED BY <1>7, <2>1, <2>2, <2>3, <2>4
<1>19. writer = "gateway" => \E k2 \in B : at2[k2] = 1
  <2>1. CASE form = <<>>
    BY <1>4, <1>9, <1>12, <2>1 DEF NextStart
  <2>2. CASE form # <<>>
    BY <1>3, <1>13, <2>2 DEF Placed
  <2> QED BY <2>1, <2>2
<1>20. Placed(at2, end2)'
  <2>1. entry'.key = k /\ entry'.at = 0
    BY <1>5
  <2>2. ASSUME NEW k2 \in B
        PROVE  Shown(k2)' = IF k2 = k THEN <<>> ELSE meant[k2]
    <3>1. SubSeq(meant[k2], 1, 0) = <<>>
      BY SubSeqEmpty
    <3> QED BY <1>5, <2>1, <3>1 DEF Shown
  <2>3. at2 \in [B -> Nat] /\ end2 \in [B -> Nat]
    <3>1. DOMAIN at2 = B /\ DOMAIN end2 = B
      BY <1>10, <1>11
    <3>2. at2 = [k2 \in B |-> at2[k2]] /\ end2 = [k2 \in B |-> end2[k2]]
      BY <1>10, <1>11
    <3> QED BY <1>17, <3>2
  <2>4. Begun' = B
    BY <1>8, <1>9
  <2>5. \A k2 \in B :
          /\ ArgumentAt(form', k2, at2[k2], end2[k2], Shown(k2)')
          /\ IF k2 = entry'.key THEN end2[k2] = Len(form') + 1
             ELSE end2[k2] <= Len(form') /\ form'[end2[k2]] = And
    BY <1>6, <1>17, <2>1, <2>2
  <2>6. \A k2 \in B : \A q \in (at2[k2] + 1)..(Len(form') + 1) :
          form'[q - 1] = And => \E k3 \in B : at2[k3] = q
    BY <1>6, <1>18
  <2>7. writer' = "gateway" => \E k2 \in B : at2[k2] = 1
    BY <1>5, <1>19
  <2> QED BY <2>3, <2>4, <2>5, <2>6, <2>7 DEF Placed
<1>21. Passed(at2)'
  <2>1. argStartPos' = 1 /\ 1 \in 1..(Len(form') + 2)
    BY <1>1, <1>5, <1>6, <1>7
  <2>2. \A k2 \in B : ~(at2[k2] < 1)
    <3> TAKE k2 \in B
    <3>1. at2[k2] \in Nat \ {0}
      BY <1>17 DEF ArgumentAt
    <3> QED BY <3>1
  <2>3. Begun' = B
    BY <1>8, <1>9
  <2>4. writer' = "gateway" => DOMAIN parameters' \subseteq DOMAIN meant'
    BY <1>3, <1>5 DEF Passed
  <2> QED BY <2>1, <2>2, <2>3, <2>4 DEF Passed
<1>22. ReaderInv'
  <2>1. CastInv' /\ CountInv'
    BY <1>2, <1>5 DEF ReaderInv, CastInv, CountInv, ReaderOK, LoopInv, Loop, Counted, Refused,
                      OutOfRange, Greatest
  <2> QED BY <1>1, <1>5, <2>1 DEF ReaderInv
<1>23. ParameterTypes'
  BY <1>2, <1>5 DEF ParameterTypes
<1> QED BY <1>15, <1>20, <1>21, <1>22, <1>23 DEF FormInv

\* A character is written.
LEMMA WriteStep ==
  ASSUME FormInv, WriteCharacter
  PROVE  FormInv'
<1> DEFINE k == entry.key
           ch == meant[k][entry.at + 1]
           t == SubSeq(meant[k], 1, entry.at)
<1>1. argStartPos = 1 /\ reader.status = "idle"
  <2>1. FormTypes /\ entry # Nobody /\ entry.at < Len(meant[k])
    BY DEF FormInv, WriteCharacter
  <2>2. meant[k] \in Text /\ entry.at \in Nat
    BY <2>1 DEF FormTypes, Begun
  <2>3. Len(meant[k]) \in Nat
    BY <2>2 DEF Text
  <2>4. ~Written
    BY <2>1, <2>2, <2>3 DEF Written
  <2> QED BY <2>4, Writing
<1>2. /\ FormTypes /\ ParameterTypes /\ ReaderInv /\ form \in Text
      /\ k \in Begun /\ k \in Name /\ meant[k] \in Text /\ entry.at \in Nat
      /\ entry.at < Len(meant[k]) /\ entry # Nobody
      /\ entry \in [key : Name \cup {<<>>}, at : Nat]
  BY DEF FormInv, FormTypes, WriteCharacter, Begun
<1>3. PICK at, end : Placed(at, end) /\ Passed(at)
  BY DEF FormInv
<1>4. PICK bytes \in Escapes(ch) : form' = form \o bytes
  BY DEF WriteCharacter, Escapes
<1>5. /\ entry' = [entry EXCEPT !.at = @ + 1]
      /\ left' = left /\ writer' = writer /\ tracked' = tracked /\ meant' = meant
      /\ argStartPos' = argStartPos /\ parameters' = parameters
      /\ key' = key /\ reader' = reader
  BY DEF WriteCharacter, loopVars
<1>6. entry'.key = k /\ entry'.at = entry.at + 1 /\ Begun' = Begun
  BY <1>2, <1>5 DEF Begun
<1>7. /\ Len(meant[k]) \in Nat /\ meant[k] \in Seq(Char) /\ Len(form) \in Nat
      /\ entry.at + 1 \in 1..Len(meant[k])
  <2>1. Len(meant[k]) \in Nat /\ meant[k] \in Seq(Char) /\ Len(form) \in Nat
    BY <1>2 DEF Text
  <2> QED BY <1>2, <2>1
<1>8. ch \in Char
  BY <1>7
<1>9. t \in Text /\ SubSeq(meant[k], 1, entry.at + 1) = Append(t, ch)
  <2>1. \A i \in 1..entry.at : meant[k][i] \in Char
    BY <1>2, <1>7
  <2>2. t \in Seq(Char)
    BY <1>2, <2>1, SubSeqProperties
  <2>3. SubSeq(meant[k], 1, entry.at + 1) = t \o <<ch>>
    <3>1. 1 \in 1..Len(meant[k]) /\ entry.at + 1 \in 1..Len(meant[k])
          /\ (entry.at + 1) - 1 = entry.at
      BY <1>2, <1>7
    <3> QED BY <1>7, <3>1, SubSeqRecursiveSecond
  <2>4. Append(t, ch) = t \o <<ch>>
    BY <1>8, <2>2, AppendIsConcat
  <2> QED BY <2>2, <2>3, <2>4 DEF Text
<1>10. /\ bytes \in Text /\ Len(bytes) >= 1
       /\ \A i \in 1..Len(bytes) : bytes[i] # And
       /\ Stands(bytes, 1, Len(bytes) + 1, ch)
  BY <1>8, CharacterStands
<1>11. Len(bytes) \in Nat
  BY <1>10 DEF Text
<1>12. PICK h : h = form'
  OBVIOUS
<1>13. /\ h \in Text /\ Len(h) = Len(form) + Len(bytes) /\ Len(h) \in Nat
       /\ \A i \in 1..Len(form) : h[i] = form[i]
       /\ \A i \in 1..Len(bytes) : h[i + Len(form)] = bytes[i]
  <2>1. /\ h \in Seq(Char) /\ Len(h) = Len(form) + Len(bytes)
        /\ \A i \in 1..(Len(form) + Len(bytes)) :
             h[i] = IF i <= Len(form) THEN form[i] ELSE bytes[i - Len(form)]
    BY <1>2, <1>4, <1>10, <1>12, ConcatProperties DEF Text
  <2>2. ASSUME NEW i \in 1..Len(form)
        PROVE  h[i] = form[i]
    <3>1. i \in 1..(Len(form) + Len(bytes)) /\ i <= Len(form)
      BY <1>7, <1>11
    <3> QED BY <2>1, <3>1
  <2>3. ASSUME NEW i \in 1..Len(bytes)
        PROVE  h[i + Len(form)] = bytes[i]
    <3>1. /\ i + Len(form) \in 1..(Len(form) + Len(bytes)) /\ ~(i + Len(form) <= Len(form))
          /\ (i + Len(form)) - Len(form) = i
      BY <1>7, <1>11
    <3> QED BY <2>1, <3>1
  <2> QED BY <1>7, <1>11, <2>1, <2>2, <2>3 DEF Text
<1>14. PICK end2 : end2 = [k2 \in Begun |-> IF k2 = k THEN Len(h) + 1 ELSE end[k2]]
  OBVIOUS
<1>15. end2[k] = Len(h) + 1 /\ \A k2 \in Begun : k2 # k => end2[k2] = end[k2]
  BY <1>2, <1>14
<1>16. /\ at[k] \in Nat /\ at[k] >= 1 /\ end[k] = Len(form) + 1
       /\ Len(k) \in Nat /\ Len(k) >= 1 /\ at[k] + Len(k) + 1 <= end[k]
       /\ ArgumentAt(form, k, at[k], end[k], t)
  <2>1. Shown(k) = t
    BY DEF Shown
  <2> HIDE DEF t
  <2>2. ArgumentAt(form, k, at[k], end[k], t) /\ end[k] = Len(form) + 1
    BY <1>2, <1>3, <2>1 DEF Placed
  <2>3. /\ at[k] \in Nat /\ at[k] >= 1 /\ at[k] + Len(k) + 1 <= end[k]
        /\ Len(k) \in Nat /\ Len(k) >= 1
    BY <1>2, <1>3, Lengths
  <2> QED BY <2>2, <2>3
<1> HIDE DEF k, ch, t
<1>17. ArgumentAt(h, k, at[k], Len(h) + 1, Append(t, ch))
  <2> DEFINE q == at[k] + Len(k) + 1
             e == Len(form) + 1
             n == Len(h) + 1
  <2>1. /\ q \in Nat /\ e \in Nat /\ n \in Nat /\ q <= e /\ e <= n
        /\ e - 1 = Len(form)
    BY <1>7, <1>11, <1>13, <1>16
  <2>2. \A j \in 1..(e - 1) : h[j] = form[j]
    BY <1>13, <2>1
  <2>3. ArgumentAt(h, k, at[k], e, t)
    BY <1>2, <1>9, <1>16, <2>2, ArgumentKept
  <2>4. Reads(h, q, e, t)
    BY <2>3 DEF ArgumentAt
  <2>5. Stands(h, e, n, ch)
    <3>1. \A j \in 1..((Len(bytes) + 1) - 1) : h[j + Len(form)] = bytes[j]
      <4>1. (Len(bytes) + 1) - 1 = Len(bytes)
        BY <1>11
      <4> QED BY <1>13, <4>1
    <3>2. 1 \in Nat /\ Len(bytes) + 1 \in Nat
      BY <1>11
    <3>3. Stands(h, 1 + Len(form), (Len(bytes) + 1) + Len(form), ch)
      BY <1>7, <1>10, <3>1, <3>2, StandsMoved
    <3>4. 1 + Len(form) = e /\ (Len(bytes) + 1) + Len(form) = n
      BY <1>7, <1>11, <1>13
    <3> QED BY <3>3, <3>4
  <2>6. \A i \in at[k]..(n - 1) : h[i] # And
    <3> TAKE i \in at[k]..(n - 1)
    <3>1. CASE i <= Len(form)
      <4>1. i \in at[k]..(e - 1)
        BY <1>16, <2>1, <3>1
      <4> QED BY <2>3, <4>1 DEF ArgumentAt
    <3>2. CASE i > Len(form)
      <4>1. PICK j : j = i - Len(form)
        OBVIOUS
      <4>2. j \in 1..Len(bytes) /\ j + Len(form) = i
        BY <1>7, <1>11, <1>13, <1>16, <3>2, <4>1
      <4>3. h[j + Len(form)] = bytes[j] /\ bytes[j] # And
        BY <1>10, <1>13, <4>2
      <4> QED BY <4>2, <4>3
    <3> QED BY <1>7, <1>16, <3>1, <3>2
  <2> HIDE DEF n, e
  <2>7. Reads(h, q, n, Append(t, ch))
    BY <1>8, <1>9, <2>1, <2>4, <2>5, ReadsMore
  <2>8. /\ at[k] \in Nat \ {0} /\ at[k] # 1 => h[at[k] - 1] = And
        /\ \A i \in 1..Len(k) : h[at[k] + i - 1] = k[i]
        /\ h[at[k] + Len(k)] = Equals
    BY <2>3 DEF ArgumentAt
  <2>9. at[k] + Len(k) + 1 <= n
    BY <2>1
  <2>10. ArgumentAt(h, k, at[k], n, Append(t, ch))
    BY <2>1, <2>3, <2>6, <2>7, <2>8, <2>9 DEF ArgumentAt
  <2> QED BY <2>10 DEF n
<1>18. ASSUME NEW k2 \in Begun, k2 # k
       PROVE  /\ ArgumentAt(h, k2, at[k2], end2[k2], meant[k2])
              /\ end2[k2] <= Len(h) /\ h[end2[k2]] = And
              /\ end2[k2] \in Nat
  <2>1. end2[k2] = end[k2]
    BY <1>15, <1>18
  <2>2. /\ k2 \in Name /\ meant[k2] \in Text /\ at[k2] \in Nat /\ at[k2] >= 1
        /\ end[k2] \in Nat /\ at[k2] + Len(k2) + 1 <= end[k2] /\ Len(k2) \in Nat
    BY <1>2, <1>3, Lengths
  <2>3. Shown(k2) = meant[k2] /\ k2 # entry.key
    BY <1>18 DEF Shown, k
  <2>4. /\ ArgumentAt(form, k2, at[k2], end[k2], meant[k2])
        /\ end[k2] <= Len(form) /\ form[end[k2]] = And
    BY <1>3, <2>3 DEF Placed
  <2>5. \A j \in 1..(end[k2] - 1) : h[j] = form[j]
    <3> TAKE j \in 1..(end[k2] - 1)
    <3>1. j \in 1..Len(form)
      BY <1>7, <2>2, <2>4
    <3> QED BY <1>13, <3>1
  <2>6. ArgumentAt(h, k2, at[k2], end[k2], meant[k2])
    BY <2>2, <2>4, <2>5, ArgumentKept
  <2>7. end[k2] <= Len(h)
    BY <1>7, <1>11, <1>13, <2>2, <2>4
  <2>8. h[end[k2]] = And
    <3>1. end[k2] \in 1..Len(form)
      BY <1>7, <2>2, <2>4
    <3> QED BY <1>13, <2>4, <3>1
  <2> QED BY <2>1, <2>2, <2>6, <2>7, <2>8
<1>19. ASSUME NEW k2 \in Begun, NEW q \in (at[k2] + 1)..(Len(h) + 1), h[q - 1] = And
       PROVE  \E k3 \in Begun : at[k3] = q
  <2>1. at[k2] \in Nat /\ at[k2] >= 1
    BY <1>2, <1>3, Lengths
  <2>2. CASE q - 1 <= Len(form)
    <3>1. q \in (at[k2] + 1)..(Len(form) + 1) /\ q - 1 \in 1..Len(form)
      BY <1>7, <1>13, <2>1, <2>2
    <3>2. form[q - 1] = And
      BY <1>13, <1>19, <3>1
    <3> QED BY <1>3, <3>1, <3>2 DEF Placed
  <2>3. CASE q - 1 > Len(form)
    <3>1. PICK j : j = (q - 1) - Len(form)
      OBVIOUS
    <3>2. j \in 1..Len(bytes) /\ j + Len(form) = q - 1
      BY <1>7, <1>11, <1>13, <2>1, <2>3, <3>1
    <3>3. h[j + Len(form)] = bytes[j] /\ bytes[j] # And
      BY <1>10, <1>13, <3>2
    <3> QED BY <1>19, <3>2, <3>3
  <2> QED BY <1>7, <2>1, <2>2, <2>3
<1>20. Placed(at, end2)'
  <2>1. ASSUME NEW k2 \in Begun
        PROVE  Shown(k2)' = IF k2 = k THEN Append(t, ch) ELSE meant[k2]
    <3>1. CASE k2 = k
      BY <1>5, <1>6, <1>9, <3>1 DEF Shown, k
    <3>2. CASE k2 # k
      BY <1>5, <1>6, <3>2 DEF Shown
    <3> QED BY <3>1, <3>2
  <2>2. end2 \in [Begun -> Nat]
    <3>1. \A k2 \in Begun : end2[k2] \in Nat
      <4>1. Len(h) + 1 \in Nat
        BY <1>13
      <4> QED BY <1>15, <1>18, <4>1
    <3> QED BY <1>14, <3>1
  <2>3. \A k2 \in Begun :
          /\ ArgumentAt(form', k2, at[k2], end2[k2], Shown(k2)')
          /\ IF k2 = entry'.key THEN end2[k2] = Len(form') + 1
             ELSE end2[k2] <= Len(form') /\ form'[end2[k2]] = And
    <3> TAKE k2 \in Begun
    <3>1. CASE k2 = k
      BY <1>6, <1>12, <1>15, <1>17, <2>1, <3>1
    <3>2. CASE k2 # k
      BY <1>6, <1>12, <1>18, <2>1, <3>2
    <3> QED BY <3>1, <3>2
  <2>4. \A k2 \in Begun : \A q \in (at[k2] + 1)..(Len(form') + 1) :
          form'[q - 1] = And => \E k3 \in Begun : at[k3] = q
    BY <1>12, <1>19
  <2>5. writer' = "gateway" => \E k2 \in Begun : at[k2] = 1
    <3>1. form # <<>>
      <4>1. Len(form) # 0
        BY <1>7, <1>16
      <4>2. Len(<<>>) = 0
        OBVIOUS
      <4> QED BY <4>1, <4>2
    <3> QED BY <1>3, <1>5, <3>1 DEF Placed
  <2>6. at \in [Begun -> Nat]
    BY <1>3 DEF Placed
  <2> QED BY <1>6, <2>2, <2>3, <2>4, <2>5, <2>6 DEF Placed
<1>21. Passed(at)'
  <2>1. argStartPos' = 1 /\ 1 \in 1..(Len(form') + 2)
    BY <1>1, <1>5, <1>12, <1>13
  <2>2. \A k2 \in Begun : ~(at[k2] < 1)
    BY <1>1, <1>3, NotStarted
  <2>3. writer' = "gateway" => DOMAIN parameters' \subseteq DOMAIN meant'
    BY <1>3, <1>5 DEF Passed
  <2> QED BY <1>6, <2>1, <2>2, <2>3 DEF Passed
<1>22. ReaderInv'
  <2>1. CastInv' /\ CountInv'
    BY <1>2, <1>5 DEF ReaderInv, CastInv, CountInv, ReaderOK, LoopInv, Loop, Counted, Refused,
                      OutOfRange, Greatest
  <2> QED BY <1>1, <1>5, <2>1 DEF ReaderInv
<1>23. FormTypes'
  <2>1. entry' \in [key : Name \cup {<<>>}, at : Nat]
    BY <1>2, <1>5
  <2>2. entry' # Nobody
    <3>1. entry'.at # 0
      BY <1>2, <1>6
    <3> QED BY <3>1 DEF Nobody
  <2>3. Nobody' = Nobody
    BY DEF Nobody
  <2>4. entry'.key \in Begun' /\ entry'.at <= Len(meant'[entry'.key])
    BY <1>2, <1>5, <1>6, <1>7
  <2>5. writer = "gateway" => tracked \in Tracked /\ meant = Texts(tracked)
    BY <1>2 DEF FormTypes
  <2>6. Texts(tracked)' = Texts(tracked)
    BY <1>5 DEF Texts, SetText, Numeral
  <2> QED BY <1>2, <1>5, <1>12, <1>13, <2>1, <2>2, <2>3, <2>4, <2>5, <2>6 DEF FormTypes
<1>24. ParameterTypes'
  BY <1>2, <1>5 DEF ParameterTypes
<1> QED BY <1>20, <1>21, <1>22, <1>23, <1>24 DEF FormInv

\* What Find finds, and that there is no other such place.
LEMMA FindIs ==
  ASSUME form \in Text, NEW ch, NEW from \in 1..(Len(form) + 1)
  PROVE  /\ Find(ch, from) \in from..(Len(form) + 1)
         /\ Find(ch, from) <= Len(form) => form[Find(ch, from)] = ch
         /\ \A i \in from..(Find(ch, from) - 1) : form[i] # ch
<1> DEFINE at == {i \in from..Len(form) : form[i] = ch}
<1>1. Len(form) \in Nat /\ from \in Nat /\ from >= 1 /\ from <= Len(form) + 1
  BY DEF Text
<1>2. CASE at = {}
  <2>1. Find(ch, from) = Len(form) + 1
    BY <1>2 DEF Find
  <2>2. \A i \in from..Len(form) : form[i] # ch
    BY <1>2
  <2>3. (Len(form) + 1) - 1 = Len(form)
    BY <1>1
  <2> QED BY <1>1, <2>1, <2>2, <2>3
<1>3. CASE at # {}
  <2>1. at \subseteq Nat
    BY <1>1
  <2>2. \E i \in at : \A j \in at : i <= j
    <3> HIDE DEF at
    <3> QED BY <1>3, <2>1, LeastNumber
  <2>3. Find(ch, from) = CHOOSE i \in at : \A j \in at : i <= j
    BY <1>3 DEF Find
  <2>4. PICK p : p = Find(ch, from)
    OBVIOUS
  <2>5. p \in at /\ \A j \in at : p <= j
    <3> HIDE DEF at
    <3> QED BY <2>2, <2>3, <2>4, Zenon
  <2>6. p \in from..Len(form) /\ form[p] = ch
    BY <2>5
  <2>7. \A i \in from..(p - 1) : form[i] # ch
    <3> TAKE i \in from..(p - 1)
    <3>1. i \in from..Len(form) /\ ~(p <= i)
      BY <1>1, <2>6
    <3> QED BY <2>5, <3>1
  <2> QED BY <1>1, <2>4, <2>6, <2>7
<1> QED BY <1>2, <1>3

LEMMA FindOnly ==
  ASSUME form \in Text, NEW ch, NEW from \in 1..(Len(form) + 1),
         NEW p \in from..(Len(form) + 1),
         p <= Len(form) => form[p] = ch,
         \A i \in from..(p - 1) : form[i] # ch
  PROVE  Find(ch, from) = p
<1>1. Len(form) \in Nat
  BY DEF Text
<1>2. PICK q : q = Find(ch, from)
  OBVIOUS
<1>3. /\ q \in from..(Len(form) + 1)
      /\ q <= Len(form) => form[q] = ch
      /\ \A i \in from..(q - 1) : form[i] # ch
  BY <1>2, FindIs
<1>4. ~(q < p)
  <2> SUFFICES ASSUME q < p PROVE FALSE
    OBVIOUS
  <2>1. q \in from..(p - 1) /\ q <= Len(form)
    BY <1>1, <1>3
  <2> QED BY <1>3, <2>1
<1>5. ~(p < q)
  <2> SUFFICES ASSUME p < q PROVE FALSE
    OBVIOUS
  <2>1. p \in from..(q - 1) /\ p <= Len(form)
    BY <1>1, <1>3
  <2> QED BY <1>3, <2>1
<1>6. p \in Nat /\ q \in Nat
  BY <1>1, <1>3
<1> QED BY <1>2, <1>4, <1>5, <1>6

\* The parameter that stands where the loop is, is taken from there.
LEMMA IsParsed ==
  ASSUME FormTypes, Written, NEW at, NEW end, Placed(at, end), NEW k \in Begun
  PROVE  /\ Find(And, at[k]) = end[k]
         /\ Find(Equals, at[k]) = at[k] + Len(k)
         /\ HasValue(at[k] + Len(k), end[k])
         /\ SubSeq(form, at[k], (at[k] + Len(k)) - 1) = k
         /\ DecodeQuery((at[k] + Len(k)) + 1, end[k]) = meant[k]
<1> DEFINE s == at[k]
           e == end[k]
           n == Len(k)
<1>1. /\ k \in Name /\ n \in Nat /\ n >= 1 /\ meant[k] \in Text
      /\ s \in Nat /\ s >= 1 /\ e \in Nat
      /\ s + n + 1 <= e /\ e <= Len(form) + 1 /\ Len(form) \in Nat /\ entry # Nobody
  BY Lengths
<1>2. form \in Text /\ form \in Seq(Char)
  BY DEF FormTypes, Text
<1>3. Shown(k) = meant[k]
  <2>1. entry.at = Len(meant[entry.key])
    BY <1>1 DEF Written
  <2>2. SubSeq(meant[k], 1, Len(meant[k])) = meant[k]
    BY <1>1, SubSeqFull DEF Text
  <2> QED BY <2>1, <2>2 DEF Shown
<1>4. ArgumentAt(form, k, s, e, meant[k])
  BY <1>3 DEF Placed
<1>5. e <= Len(form) => form[e] = And
  BY <1>1 DEF Placed
<1> HIDE DEF s, e, n
<1>6. /\ \A i \in 1..n : form[s + i - 1] = k[i]
      /\ form[s + n] = Equals
      /\ \A i \in s..(e - 1) : form[i] # And
      /\ Reads(form, (s + n) + 1, e, meant[k])
  <2>1. s + n + 1 = (s + n) + 1
    OBVIOUS
  <2> QED BY <1>4, <2>1 DEF ArgumentAt, n
<1>7. s \in 1..(Len(form) + 1) /\ e \in s..(Len(form) + 1) /\ s + n \in s..(Len(form) + 1)
      /\ (s + n) + 1 \in Nat /\ (s + n) + 1 <= e /\ s + n < e
  BY <1>1
<1>8. Find(And, s) = e
  BY <1>2, <1>5, <1>6, <1>7, FindOnly
<1>9. \A i \in 1..n : k[i] \in Unreserved /\ k[i] \in Char /\ k[i] # Equals
  <2>1. k \in Seq(Unreserved)
    BY <1>1 DEF Name
  <2>2. Unreserved \subseteq Char /\ Equals \notin Unreserved
    BY DEF Unreserved, Char, Equals, Digit
  <2> QED BY <2>1, <2>2 DEF n
<1>10. Find(Equals, s) = s + n
  <2>1. \A i \in s..((s + n) - 1) : form[i] # Equals
    <3> TAKE i \in s..((s + n) - 1)
    <3>1. PICK j : j = i - s + 1
      OBVIOUS
    <3>2. j \in 1..n /\ s + j - 1 = i
      BY <1>1, <3>1
    <3>3. form[s + j - 1] = k[j] /\ k[j] # Equals
      BY <1>6, <1>9, <3>2
    <3> QED BY <3>2, <3>3
  <2> QED BY <1>2, <1>6, <1>7, <2>1, FindOnly
<1>11. SubSeq(form, s, (s + n) - 1) = k
  <2>1. s \in Int /\ (s + n) - 1 \in Int /\ s <= (s + n) - 1
        /\ ((s + n) - 1) - s + 1 = n
    BY <1>1
  <2>2. \A i \in s..((s + n) - 1) : form[i] \in Char
    <3> TAKE i \in s..((s + n) - 1)
    <3>1. i \in 1..Len(form)
      BY <1>1
    <3> QED BY <1>2, <3>1
  <2>3. PICK u : u = SubSeq(form, s, (s + n) - 1)
    OBVIOUS
  <2>4. /\ u \in Seq(Char) /\ Len(u) = n
        /\ \A i \in 1..n : u[i] = form[s + i - 1]
    BY <2>1, <2>2, <2>3, SubSeqProperties
  <2>5. k \in Seq(Char)
    <3>1. k \in Seq(Unreserved) /\ Unreserved \subseteq Char
      BY <1>1 DEF Name, Unreserved, Char, Digit
    <3> QED BY <3>1, SeqMonotonic
  <2>6. Len(u) = Len(k) /\ \A i \in 1..Len(u) : u[i] = k[i]
    BY <1>6, <2>4 DEF n
  <2> QED BY <2>3, <2>4, <2>5, <2>6, SeqEqual
<1>12. DecodeQuery((s + n) + 1, e) = meant[k]
  BY <1>1, <1>6, <1>7, DecodeReads
<1> QED BY <1>7, <1>8, <1>10, <1>11, <1>12 DEF HasValue, s, e, n

\* One round of the loop.
LEMMA ParseStep ==
  ASSUME FormInv, ParseArgument
  PROVE  FormInv'
<1> DEFINE s == argStartPos
<1>1. /\ FormTypes /\ ParameterTypes /\ ReaderInv /\ Written
      /\ form \in Text /\ Len(form) \in Nat
  <2>1. FormTypes /\ ParameterTypes /\ ReaderInv /\ Written
    BY DEF FormInv, ParseArgument
  <2> QED BY <2>1 DEF FormTypes, Text
<1>2. PICK at, end : Placed(at, end) /\ Passed(at)
  BY DEF FormInv
<1>3. s \in 1..(Len(form) + 1) /\ s <= Len(form)
  BY <1>1, <1>2 DEF Passed, ParseArgument
<1>4. reader.status = "idle"
  BY <1>1, <1>3 DEF ReaderInv, Parsed
<1>5. PICK e : e = Find(And, s)
  OBVIOUS
<1>6. PICK q : q = Find(Equals, s)
  OBVIOUS
<1>7. PICK name : name = SubSeq(form, s, q - 1)
  OBVIOUS
<1>8. PICK value : value = DecodeQuery(q + 1, e)
  OBVIOUS
<1>9. /\ e \in s..(Len(form) + 1)
      /\ e <= Len(form) => form[e] = And
      /\ \A i \in s..(e - 1) : form[i] # And
      /\ q \in s..(Len(form) + 1)
  BY <1>1, <1>3, <1>5, <1>6, FindIs
<1>10. /\ argStartPos' = e + 1
       /\ parameters' = IF HasValue(q, e)
            THEN [k \in DOMAIN parameters \cup {name} |->
                    IF k = name THEN value ELSE parameters[k]]
            ELSE parameters
       /\ UNCHANGED <<writerVars, form, key, reader>>
  BY <1>5, <1>6, <1>7, <1>8, Zenon DEF ParseArgument
<1>11. /\ writer' = writer /\ tracked' = tracked /\ meant' = meant /\ left' = left
       /\ entry' = entry /\ form' = form /\ key' = key /\ reader' = reader
  BY <1>10 DEF writerVars
<1>12. name \in Text
  <2>1. \A i \in s..(q - 1) : form[i] \in Char
    <3> TAKE i \in s..(q - 1)
    <3>1. i \in 1..Len(form)
      BY <1>1, <1>3, <1>9
    <3> QED BY <1>1, <3>1 DEF Text
  <2>2. s \in Int /\ q - 1 \in Int
    BY <1>1, <1>3, <1>9
  <2> QED BY <1>7, <2>1, <2>2, SubSeqProperties DEF Text
<1>13. HasValue(q, e) => value \in Text
  <2> SUFFICES ASSUME HasValue(q, e) PROVE value \in Text
    OBVIOUS
  <2>1. q + 1 \in Nat /\ e \in Nat /\ 1 <= q + 1 /\ q + 1 <= e /\ e <= Len(form) + 1
    BY <1>1, <1>3, <1>9 DEF HasValue
  <2> QED BY <1>1, <1>8, <2>1, QueryIsText
<1>14. ParameterTypes'
  <2>1. CASE HasValue(q, e)
    <3>1. DOMAIN parameters' = DOMAIN parameters \cup {name}
      BY <1>10, <2>1
    <3>2. \A k \in DOMAIN parameters \cup {name} :
            parameters'[k] = IF k = name THEN value ELSE parameters[k]
      BY <1>10, <2>1
    <3> QED BY <1>1, <1>12, <1>13, <2>1, <3>1, <3>2 DEF ParameterTypes
  <2>2. CASE ~HasValue(q, e)
    BY <1>1, <1>10, <2>2 DEF ParameterTypes
  <2> QED BY <2>1, <2>2
<1>15. \A k \in Begun : at[k] \in Nat /\ at[k] >= 1 /\ at[k] <= Len(form)
  <2> TAKE k \in Begun
  <2>1. /\ at[k] \in Nat /\ at[k] >= 1 /\ end[k] \in Nat /\ Len(k) \in Nat
        /\ at[k] + Len(k) + 1 <= end[k] /\ end[k] <= Len(form) + 1
    BY <1>1, <1>2, Lengths
  <2> QED BY <1>1, <2>1
<1>16. ASSUME NEW k \in Begun, at[k] = s
       PROVE  HasValue(q, e) /\ name = k /\ value = meant[k]
  <2>1. /\ Find(And, at[k]) = end[k]
        /\ Find(Equals, at[k]) = at[k] + Len(k)
        /\ HasValue(at[k] + Len(k), end[k])
        /\ SubSeq(form, at[k], (at[k] + Len(k)) - 1) = k
        /\ DecodeQuery((at[k] + Len(k)) + 1, end[k]) = meant[k]
    BY <1>1, <1>2, IsParsed
  <2>2. e = end[k] /\ q = at[k] + Len(k)
    BY <1>5, <1>6, <1>16, <2>1
  <2> QED BY <1>7, <1>8, <1>16, <2>1, <2>2
<1>17. ASSUME NEW k \in Begun, at[k] < s
       PROVE  \E k2 \in Begun : at[k2] = s
  <2>1. s # 1 /\ s \in (at[k] + 1)..(Len(form) + 1)
    BY <1>1, <1>3, <1>15, <1>17
  <2>2. form[s - 1] = And
    BY <1>2, <1>3, <2>1 DEF Passed
  <2> QED BY <1>2, <2>1, <2>2 DEF Placed
<1>18. ASSUME NEW k \in Begun, at[k] < e + 1
       PROVE  k \in DOMAIN parameters' /\ parameters'[k] = meant[k]
  <2>1. CASE at[k] = s
    <3>1. HasValue(q, e) /\ name = k /\ value = meant[k]
      BY <1>16, <2>1
    <3> QED BY <1>10, <3>1
  <2>2. CASE at[k] < s
    <3>1. PICK k2 \in Begun : at[k2] = s
      BY <1>17, <2>2
    <3>2. HasValue(q, e) /\ name = k2
      BY <1>16, <3>1
    <3>3. k # k2
      <4>1. at[k] # s
        BY <1>3, <1>15, <2>2
      <4> QED BY <3>1, <4>1
    <3>4. k \in DOMAIN parameters /\ parameters[k] = meant[k]
      BY <1>2, <2>2 DEF Passed
    <3> QED BY <1>10, <3>2, <3>3, <3>4
  <2>3. CASE at[k] > s
    <3>1. at[k] - 1 \in s..(e - 1) /\ at[k] # 1
      BY <1>1, <1>3, <1>9, <1>15, <1>18, <2>3
    <3>2. form[at[k] - 1] = And
      BY <1>2, <3>1 DEF Placed, ArgumentAt
    <3> QED BY <1>9, <3>1, <3>2
  <2> QED BY <1>3, <1>15, <2>1, <2>2, <2>3
<1>19. writer = "gateway" => DOMAIN parameters' \subseteq DOMAIN meant
  <2> SUFFICES ASSUME writer = "gateway" PROVE DOMAIN parameters' \subseteq DOMAIN meant
    OBVIOUS
  <2>1. form # <<>>
    <3>1. Len(<<>>) = 0 /\ Len(form) # 0
      BY <1>1, <1>3
    <3> QED BY <3>1
  <2>2. PICK k1 \in Begun : at[k1] = 1
    BY <1>2, <2>1 DEF Placed
  <2>3. PICK k2 \in Begun : at[k2] = s
    <3>1. CASE s = 1
      BY <2>2, <3>1
    <3>2. CASE s # 1
      <4>1. at[k1] < s
        BY <1>3, <2>2, <3>2
      <4> QED BY <1>17, <4>1
    <3> QED BY <3>1, <3>2
  <2>4. HasValue(q, e) /\ name = k2
    BY <1>16, <2>3
  <2>5. k2 \in DOMAIN meant
    BY DEF Begun
  <2>6. DOMAIN parameters' = DOMAIN parameters \cup {name}
    BY <1>10, <2>4
  <2>7. DOMAIN parameters \subseteq DOMAIN meant
    BY <1>2 DEF Passed
  <2> QED BY <2>4, <2>5, <2>6, <2>7
<1>20. Begun' = Begun /\ Written' = Written
  BY <1>11 DEF Begun, Written, Nobody
<1>21. Passed(at)'
  <2>1. e + 1 \in 1..(Len(form) + 2)
    BY <1>1, <1>3, <1>9
  <2>2. e + 1 <= Len(form) => form[(e + 1) - 1] = And
    <3>1. (e + 1) - 1 = e /\ (e + 1 <= Len(form) => e <= Len(form))
      BY <1>1, <1>3, <1>9
    <3> QED BY <1>9, <3>1
  <2> QED BY <1>1, <1>10, <1>11, <1>18, <1>19, <1>20, <2>1, <2>2 DEF Passed
<1>22. Placed(at, end)'
  <2>1. \A k : Shown(k)' = Shown(k)
    BY <1>11 DEF Shown
  <2> QED BY <1>2, <1>11, <1>20, <2>1 DEF Placed
<1>23. FormTypes'
  <2>1. Nobody' = Nobody /\ Texts(tracked)' = Texts(tracked)
    BY <1>11 DEF Nobody, Texts, SetText, Numeral
  <2> QED BY <1>1, <1>11, <1>20, <2>1 DEF FormTypes
<1>24. ReaderInv'
  <2>1. CastInv' /\ CountInv'
    BY <1>1, <1>11 DEF ReaderInv, CastInv, CountInv, ReaderOK, LoopInv, Loop, Counted, Refused,
                      OutOfRange, Greatest
  <2> QED BY <1>4, <1>11, <2>1 DEF ReaderInv
<1> QED BY <1>14, <1>21, <1>22, <1>23, <1>24 DEF FormInv

\* What only changes the getter leaves the form and what came of it.
LEMMA FormKept ==
  ASSUME FormInv, UNCHANGED <<writerVars, form, loopVars>>
  PROVE  /\ FormTypes' /\ ParameterTypes'
         /\ \E at, end : (Placed(at, end) /\ Passed(at))'
         /\ Parsed' = Parsed
<1>1. /\ writer' = writer /\ tracked' = tracked /\ meant' = meant /\ left' = left
      /\ entry' = entry /\ form' = form
      /\ argStartPos' = argStartPos /\ parameters' = parameters
  BY DEF writerVars, loopVars
<1>2. Begun' = Begun /\ Written' = Written /\ Parsed' = Parsed
  BY <1>1 DEF Begun, Written, Parsed, Nobody
<1>3. PICK at, end : Placed(at, end) /\ Passed(at)
  BY DEF FormInv
<1>4. Placed(at, end)'
  <2>1. \A k : Shown(k)' = Shown(k)
    BY <1>1 DEF Shown
  <2> QED BY <1>1, <1>2, <1>3, <2>1 DEF Placed
<1>5. Passed(at)'
  BY <1>1, <1>2, <1>3 DEF Passed
<1>6. FormTypes'
  <2>1. Nobody' = Nobody /\ Texts(tracked)' = Texts(tracked)
    BY <1>1 DEF Nobody, Texts, SetText, Numeral
  <2> QED BY <1>1, <1>2, <2>1 DEF FormInv, FormTypes
<1>7. ParameterTypes'
  BY <1>1 DEF FormInv, ParameterTypes
<1> QED BY <1>2, <1>4, <1>5, <1>6, <1>7

\* A getter is called.
LEMMA ParameterStep ==
  ASSUME FormInv, NEW getter \in Getters, NEW k \in DOMAIN parameters,
         GetParameter(getter, k)
  PROVE  FormInv'
<1>1. Parsed /\ Get(getter, parameters[k]) /\ key' = k
      /\ UNCHANGED <<writerVars, form, loopVars>>
  BY DEF GetParameter
<1>2. parameters[k] \in Text /\ CastInv
  BY DEF FormInv, ParameterTypes, ReaderInv
<1>3. CastInv' /\ CountInv'
  BY <1>1, <1>2, GetStep, CountGet
<1>4. /\ FormTypes' /\ ParameterTypes'
      /\ \E at, end : (Placed(at, end) /\ Passed(at))'
      /\ Parsed' = Parsed
  BY <1>1, FormKept
<1>5. reader'.text = parameters[k] /\ parameters' = parameters
  BY <1>1 DEF Get, loopVars
<1>6. ReaderInv'
  BY <1>1, <1>3, <1>4, <1>5 DEF ReaderInv
<1> QED BY <1>4, <1>6 DEF FormInv

\* Its cast takes a step.
LEMMA ReadStep ==
  ASSUME FormInv, Read
  PROVE  FormInv'
<1>1. Cast /\ UNCHANGED <<writerVars, form, loopVars, key>>
  BY DEF Read
<1>2. CastInv /\ CountInv
  BY DEF FormInv, ReaderInv
<1>3. CastInv' /\ CountInv'
  BY <1>1, <1>2, CharacterStep, EndStep, CountCast DEF Cast
<1>4. /\ FormTypes' /\ ParameterTypes'
      /\ \E at, end : (Placed(at, end) /\ Passed(at))'
      /\ Parsed' = Parsed
  BY <1>1, FormKept
<1>5. reader.status = "cast" /\ reader \in Reader
  BY <1>1, <1>2 DEF Cast, CastCharacter, CastEnd, CastInv, ReaderOK
<1>6. reader'.text = reader.text
  <2>1. CASE CastEnd
    BY <1>5, <2>1 DEF CastEnd, Reader
  <2>2. CASE CastCharacter
    BY <1>5, <2>2 DEF CastCharacter, Reader
  <2> QED BY <1>1, <2>1, <2>2 DEF Cast
<1>7. ReaderInv'
  BY <1>1, <1>3, <1>4, <1>5, <1>6 DEF FormInv, ReaderInv, loopVars
<1> QED BY <1>4, <1>7 DEF FormInv

\* What a setter writes is a text.
LEMMA SetTexts ==
  ASSUME NEW setter, NEW value \in Nat
  PROVE  SetText(setter, value) \in Text
<1>1. On \in Text /\ Off \in Text
  BY DEF On, Off, Text, Char
<1>2. Numeral(value) \in Text
  <2>1. Numeral(value) \in Seq(Digit) /\ Digit \subseteq Char
    BY Numerals DEF WritesNumber, Digit, Char
  <2> QED BY <2>1, SeqMonotonic DEF Text
<1> QED BY <1>1, <1>2 DEF SetText

\* Nothing is written yet, but for an argument that means nothing.
LEMMA FormStart ==
  ASSUME Init
  PROVE  FormInv
<1>1. /\ left = DOMAIN meant /\ entry = Nobody /\ argStartPos = 1
      /\ parameters = <<>> /\ CastInit
  BY DEF Init
<1>2. form \in Text /\ (writer = "gateway" => form = <<>>)
  <2>1. <<>> \in Text
    BY DEF Text
  <2>2. \/ writer = "gateway" /\ form = <<>>
        \/ writer = "client" /\ form \in Junk
    BY DEF Init
  <2>3. Junk \subseteq Text
    BY FormAssumption
  <2> QED BY <2>1, <2>2, <2>3
<1>3. \A k \in DOMAIN meant : k \in Name /\ meant[k] \in Text
  <2>1. CASE tracked \in Tracked /\ meant = Texts(tracked)
    <3> SUFFICES ASSUME NEW k \in DOMAIN meant
                 PROVE  k \in Name /\ meant[k] \in Text
      OBVIOUS
    <3>1. k \in DOMAIN tracked /\ meant[k] = SetText(tracked[k].setter, tracked[k].value)
      BY <2>1 DEF Texts
    <3>2. k \in Name /\ tracked[k].value \in Nat
      BY <2>1, <3>1, FormAssumption
    <3> QED BY <3>1, <3>2, SetTexts
  <2>2. CASE meant \in Posts
    BY <2>2, FormAssumption
  <2> QED BY <2>1, <2>2 DEF Init
<1>4. Begun = {}
  BY <1>1 DEF Begun
<1>5. FormTypes
  <2>1. entry \in [key : Name \cup {<<>>}, at : Nat]
    BY <1>1 DEF Nobody
  <2>2. writer = "gateway" => tracked \in Tracked /\ meant = Texts(tracked)
    BY DEF Init
  <2> QED BY <1>1, <1>2, <1>3, <1>4, <2>1, <2>2 DEF FormTypes
<1>6. DOMAIN parameters = {}
  BY <1>1
<1>7. \E at, end : Placed(at, end) /\ Passed(at)
  <2>1. PICK at : at = [k \in {} |-> 0]
    OBVIOUS
  <2>2. at \in [Begun -> Nat]
    BY <1>4, <2>1
  <2>3. Placed(at, at)
    BY <1>2, <1>4, <2>2 DEF Placed
  <2>4. 1 \in 1..(Len(form) + 2)
    BY <1>2 DEF Text
  <2>5. Passed(at)
    BY <1>1, <1>4, <1>6, <2>4 DEF Passed
  <2> QED BY <2>3, <2>5
<1>8. ReaderInv
  <2>1. CastInv
    BY <1>1, CastStart
  <2>2. reader.getter = "state" /\ reader.status = "idle"
    BY <1>1 DEF CastInit, Idle
  <2> QED BY <2>1, <2>2 DEF ReaderInv, CountInv
<1> QED BY <1>5, <1>6, <1>7, <1>8 DEF FormInv, ParameterTypes

\* FormInv is inductive.
LEMMA FormInvInductive == Spec => []FormInv
<1>1. Init => FormInv
  BY FormStart
<1>2. FormInv /\ [Next]_vars => FormInv'
  <2> SUFFICES ASSUME FormInv, [Next]_vars PROVE FormInv'
    OBVIOUS
  <2>1. ASSUME NEW k \in left, BeginEntry(k) PROVE FormInv'
    BY <2>1, BeginStep
  <2>2. CASE WriteCharacter
    BY <2>2, WriteStep
  <2>3. CASE ParseArgument
    BY <2>3, ParseStep
  <2>4. ASSUME NEW getter \in Getters, NEW k \in DOMAIN parameters, GetParameter(getter, k)
        PROVE  FormInv'
    BY <2>4, ParameterStep
  <2>5. CASE Read
    BY <2>5, ReadStep
  <2>6. CASE UNCHANGED vars
    <3>1. UNCHANGED <<writerVars, form, loopVars>> /\ key' = key /\ reader' = reader
      BY <2>6 DEF vars, writerVars, loopVars
    <3>2. /\ FormTypes' /\ ParameterTypes'
          /\ \E at, end : (Placed(at, end) /\ Passed(at))'
          /\ Parsed' = Parsed
      BY <3>1, FormKept
    <3>3. CastInv' /\ CountInv'
      BY <3>1 DEF FormInv, ReaderInv, CastInv, CountInv, ReaderOK, LoopInv, Loop, Counted, Refused,
                  OutOfRange, Greatest
    <3>4. ReaderInv'
      BY <3>1, <3>2, <3>3 DEF FormInv, ReaderInv, loopVars
    <3> QED BY <3>2, <3>4 DEF FormInv
  <2> QED BY <2>1, <2>2, <2>3, <2>4, <2>5, <2>6 DEF Next
<1> QED BY <1>1, <1>2, PTL DEF Spec

-----------------------------------------------------------------------------

\* Whatever a client writes, the form is taken apart within its bounds into
\* texts of characters, and a getter returns a value of its type (the loop in
\* Gateway::onRequest, decodeQuery, and cast).
THEOREM TypeCorrect == Spec => []TypeOK
<1>1. FormInv => TypeOK
  <2> SUFFICES ASSUME FormInv PROVE TypeOK
    OBVIOUS
  <2>1. form \in Text /\ argStartPos \in 1..(Len(form) + 2)
    BY DEF FormInv, FormTypes, Passed
  <2> QED BY <2>1 DEF FormInv, ParameterTypes, ReaderInv, CastInv, TypeOK
<1> QED BY <1>1, FormInvInductive, PTL

\* When the loop ends, every parameter the writer of the form meant is there
\* with the text it meant, however it was escaped and whatever stood in front
\* (encodeQuery, the loop in Gateway::onRequest and decodeQuery).
THEOREM ParseCorrect == Spec => []ParsedAsMeant
<1>1. FormInv => ParsedAsMeant
  <2> SUFFICES ASSUME FormInv, Parsed, NEW k \in DOMAIN meant
               PROVE  k \in DOMAIN parameters /\ parameters[k] = meant[k]
    BY DEF ParsedAsMeant
  <2>1. PICK at, end : Placed(at, end) /\ Passed(at)
    BY DEF FormInv
  <2>2. k \in Begun
    BY DEF Parsed, Written, Begun
  <2>3. /\ at[k] \in Nat /\ end[k] \in Nat /\ Len(k) \in Nat /\ Len(form) \in Nat
        /\ at[k] + Len(k) + 1 <= end[k] /\ end[k] <= Len(form) + 1
    BY <2>1, <2>2, Lengths DEF FormInv
  <2>4. argStartPos \in Nat /\ argStartPos > Len(form)
    BY <2>1, <2>3 DEF Passed, Parsed
  <2>5. at[k] < argStartPos
    BY <2>3, <2>4
  <2> QED BY <2>1, <2>2, <2>5 DEF Passed
<1> QED BY <1>1, FormInvInductive, PTL

\* A number that a command object was told, that the gateway reports in a form
\* and that comes back in it, is read as that number by every getter whose
\* range has it, unless it is 0 (setByte, setWord, getByte, getPercentage and
\* getWord of Parameters, the cast both ways, and Gateway::onRequest).
THEOREM ReadBackCorrect == Spec => []ReportedIsReadBack
<1>1. FormInv /\ ParsedAsMeant => ReportedIsReadBack
  <2> SUFFICES ASSUME FormInv, ParsedAsMeant, writer = "gateway",
                      reader.status \in {"null", "value"},
                      Fits(reader.getter, tracked[key]), tracked[key].value # 0
               PROVE  reader.status = "value" /\ reader.value = tracked[key].value
    BY DEF ReportedIsReadBack
  <2> DEFINE n == tracked[key].value
             setter == tracked[key].setter
  <2>1. /\ Parsed /\ key \in DOMAIN parameters /\ reader.text = parameters[key]
        /\ CastInv /\ CountInv /\ reader.getter \in Getters
    BY DEF FormInv, ReaderInv, CastInv, ReaderOK, Reader
  <2>2. key \in DOMAIN meant
    BY <2>1 DEF FormInv, Passed
  <2>3. tracked \in Tracked /\ meant = Texts(tracked)
    BY DEF FormInv, FormTypes
  <2>4. key \in DOMAIN tracked /\ meant[key] = SetText(setter, n)
    BY <2>2, <2>3 DEF Texts
  <2>5. /\ n \in Nat /\ (setter # "state" => n <= Max[setter])
        /\ Max["byte"] <= Max["word"]
    BY <2>3, <2>4, FormAssumption
  <2>6. reader.text = SetText(setter, n)
    BY <2>1, <2>2, <2>4 DEF ParsedAsMeant
  <2> HIDE DEF n, setter
  <2>7. /\ reader.getter # "state"
        /\ reader.getter = "word" => setter = "byte" \/ setter = "word"
        /\ reader.getter = "byte" => setter = "byte"
        /\ reader.getter = "percentage" => setter = "byte" /\ n <= 99
    BY <2>1 DEF Fits, Getters, n, setter
  <2>8. setter # "state"
    BY <2>1, <2>7 DEF Getters
  <2>9. WritesNumber(reader.text, n)
    BY <2>5, <2>6, <2>8, Numerals DEF SetText
  <2>10. n <= Greatest
    <3>1. Max["byte"] \in Nat /\ Max["word"] \in Nat /\ Max["percentage"] \in Nat
          /\ Max["percentage"] >= 99
      BY Bounds DEF Getters
    <3>2. CASE reader.getter = "word"
      BY <2>5, <2>7, <3>1, <3>2 DEF Greatest
    <3>3. CASE reader.getter = "byte"
      BY <2>5, <2>7, <3>1, <3>3 DEF Greatest
    <3>4. CASE reader.getter = "percentage"
      BY <2>5, <2>7, <3>1, <3>4 DEF Greatest
    <3> QED BY <2>1, <2>7, <3>2, <3>3, <3>4 DEF Getters
  <2>11. n # 0
    BY DEF n
  <2>12. reader.status = "value" /\ reader.value = n
    BY <2>1, <2>5, <2>7, <2>9, <2>10, <2>11, ReadsBack
  <2> QED BY <2>12 DEF n
<1> QED BY <1>1, FormInvInductive, ParseCorrect, PTL

\* What is read of a form is read as of any text: whatever the client sent, its
\* parameters are texts that the getters are specified for (Gateway::onRequest
\* and the getters of Parameters).
THEOREM FormsImplementCast == Spec => CastSpec
<1>1. Init => CastInit
  BY DEF Init
<1>2. FormInv /\ [Next]_vars => [CastNext]_reader
  <2> SUFFICES ASSUME FormInv, [Next]_vars PROVE CastNext \/ reader' = reader
    OBVIOUS
  <2>1. ASSUME NEW k \in left, BeginEntry(k) PROVE reader' = reader
    BY <2>1 DEF BeginEntry
  <2>2. CASE WriteCharacter
    BY <2>2 DEF WriteCharacter
  <2>3. CASE ParseArgument
    BY <2>3 DEF ParseArgument
  <2>4. ASSUME NEW getter \in Getters, NEW k \in DOMAIN parameters, GetParameter(getter, k)
        PROVE  CastNext
    <3>1. reader.status = "idle" /\ Get(getter, parameters[k]) /\ parameters[k] \in Text
      BY <2>4 DEF GetParameter, FormInv, ParameterTypes
    <3> QED BY <3>1 DEF CastNext
  <2>5. CASE Read
    BY <2>5 DEF Read, CastNext
  <2>6. CASE UNCHANGED vars
    BY <2>6 DEF vars
  <2> QED BY <2>1, <2>2, <2>3, <2>4, <2>5, <2>6 DEF Next
<1> QED BY <1>1, <1>2, FormInvInductive, PTL DEF Spec, CastSpec
=============================================================================
