------------------------- MODULE HttpChannelProofs --------------------------
(***************************************************************************)
(* What holds of HttpChannel for everything a client may write, in any     *)
(* chunks, and of the bytes of the messages of HttpClient, proved with     *)
(* TLAPS.                                                                  *)
(***************************************************************************)
EXTENDS HttpClient, SequenceTheorems, WellFoundedInduction, TLAPS

-----------------------------------------------------------------------------
(* Induction *)

\* The order of the natural numbers.
Less == {ss \in Nat \X Nat : ss[1] < ss[2]}

\* Less is well founded.
LEMMA LessWellFounded == IsWellFoundedOn(Less, Nat)
BY NatLessThanWellFounded DEF OpToRel, Less

\* Every set of numbers that is not empty has a least one.
LEMMA LeastNumber ==
  ASSUME NEW S, S \subseteq Nat, S # {}
  PROVE  \E n \in S : \A m \in S : n <= m
<1>1. PICK n \in S : \A m \in S : ~(<<m, n>> \in Less)
  BY LessWellFounded, WFMin, Zenon
<1>2. \A m \in S : n <= m
  <2> TAKE m \in S
  <2>1. ~(<<m, n>> \in Less) /\ m \in Nat /\ n \in Nat
    BY <1>1
  <2> QED BY <2>1 DEF Less
<1> QED BY <1>1, <1>2

\* A set holds every number if it holds each whose predecessors it holds.
LEMMA StrongInduction ==
  ASSUME NEW S, \A n \in Nat : (\A m \in 0..(n - 1) : m \in S) => n \in S
  PROVE  \A n \in Nat : n \in S
<1> DEFINE Wrong == {n \in Nat : n \notin S}
<1> SUFFICES ASSUME Wrong # {} PROVE FALSE
  OBVIOUS
<1>1. Wrong \subseteq Nat
  OBVIOUS
<1> HIDE DEF Wrong
<1>2. PICK n \in Wrong : \A m \in Wrong : n <= m
  BY <1>1, LeastNumber
<1>3. n \in Nat /\ n \notin S
  BY DEF Wrong
<1>4. \A m \in 0..(n - 1) : m \in Nat /\ m < n
  BY <1>3
<1>5. \A m \in 0..(n - 1) : m \notin Wrong
  BY <1>1, <1>2, <1>3, <1>4
<1>6. \A m \in 0..(n - 1) : m \in S
  BY <1>4, <1>5 DEF Wrong
<1> QED BY <1>3, <1>6

-----------------------------------------------------------------------------
(* Sequences of texts *)

\* The first elements of a sequence, and those behind them.
Upto(t, i) == SubSeq(t, 1, i)
From(t, i) == SubSeq(t, i + 1, Len(t))

\* One step of the fold in FlattenSeq, ...
FlattenOf(f, seqs, i) == IF i = 1 THEN seqs[i] ELSE f[i - 1] \o seqs[i]

\* ... and the function of all of them.
Flattens(f, seqs, n) == \A i \in 1..n : f[i] = FlattenOf(f, seqs, i)

\* The function that FlattenSeq is defined by exists, ...
LEMMA FlattenExists ==
  ASSUME NEW seqs, NEW n \in Nat
  PROVE  \E f : f = [i \in 1..n |-> FlattenOf(f, seqs, i)]
<1> DEFINE S == {k \in Nat : \E f : f = [i \in 1..k |-> FlattenOf(f, seqs, i)]}
<1>1. ASSUME NEW k \in Nat, \A m \in 0..(k - 1) : m \in S
      PROVE  k \in S
  <2>1. PICK g : k > 0 => g = [i \in 1..(k - 1) |-> FlattenOf(g, seqs, i)]
    <3>1. k > 0 => k - 1 \in 0..(k - 1)
      OBVIOUS
    <3> QED BY <1>1, <3>1
  <2> DEFINE f == [i \in 1..k |-> FlattenOf(g, seqs, i)]
  <2>2. ASSUME NEW i \in 1..k PROVE FlattenOf(f, seqs, i) = FlattenOf(g, seqs, i)
    <3>1. i # 1 => f[i - 1] = g[i - 1]
      <4> SUFFICES ASSUME i # 1 PROVE f[i - 1] = g[i - 1]
        OBVIOUS
      <4>1. i - 1 \in 1..k /\ i - 1 \in 1..(k - 1) /\ k > 0
        OBVIOUS
      <4>2. f[i - 1] = FlattenOf(g, seqs, i - 1)
        BY <4>1
      <4>3. g[i - 1] = FlattenOf(g, seqs, i - 1)
        BY <2>1, <4>1, Zenon
      <4> QED BY <4>2, <4>3
    <3> HIDE DEF f
    <3> QED BY <3>1, Zenon DEF FlattenOf
  <2>3. f = [i \in 1..k |-> FlattenOf(f, seqs, i)]
    BY <2>2
  <2> HIDE DEF f
  <2> QED BY <2>3
<1> HIDE DEF S
<1>2. n \in S
  BY <1>1, StrongInduction
<1> QED BY <1>2 DEF S

\* ... and is the only one.
LEMMA FlattenUnique ==
  ASSUME NEW seqs, NEW n \in Nat, NEW f, NEW g, Flattens(f, seqs, n), Flattens(g, seqs, n)
  PROVE  \A i \in 1..n : f[i] = g[i]
<1> DEFINE S == {k \in Nat : k \in 1..n => f[k] = g[k]}
<1>1. ASSUME NEW k \in Nat, \A m \in 0..(k - 1) : m \in S
      PROVE  k \in S
  <2> SUFFICES ASSUME k \in 1..n PROVE f[k] = g[k]
    OBVIOUS
  <2>1. k # 1 => f[k - 1] = g[k - 1]
    <3>1. k # 1 => k - 1 \in 0..(k - 1) /\ k - 1 \in 1..n
      OBVIOUS
    <3> QED BY <1>1, <3>1
  <2>2. f[k] = FlattenOf(f, seqs, k) /\ g[k] = FlattenOf(g, seqs, k)
    BY DEF Flattens
  <2> QED BY <2>1, <2>2, Zenon DEF FlattenOf
<1> HIDE DEF S
<1>2. \A k \in Nat : k \in S
  BY <1>1, StrongInduction
<1> QED BY <1>2 DEF S

\* No texts give the empty text.
LEMMA FlattenNone == FlattenSeq(<<>>) = <<>> /\ <<>> \in Text
BY DEF FlattenSeq, Text

\* The fold is a function of the number of texts joined.
LEMMA FlattenUnfolds ==
  ASSUME NEW seqs \in Seq(Text), Len(seqs) # 0
  PROVE  \E f : /\ FlattenSeq(seqs) = f[Len(seqs)]
                /\ Flattens(f, seqs, Len(seqs))
<1> DEFINE F == CHOOSE f : f = [i \in 1..Len(seqs) |->
                             IF i = 1 THEN seqs[i] ELSE f[i - 1] \o seqs[i]]
<1>1. F = [i \in 1..Len(seqs) |-> FlattenOf(F, seqs, i)]
  <2>1. \E f : f = [i \in 1..Len(seqs) |-> FlattenOf(f, seqs, i)]
    <3>1. Len(seqs) \in Nat
      OBVIOUS
    <3> QED BY <3>1, FlattenExists, Zenon
  <2> QED BY <2>1, Zenon DEF FlattenOf
<1>2. FlattenSeq(seqs) = F[Len(seqs)]
  BY Zenon DEF FlattenSeq
<1> HIDE DEF F
<1>3. Flattens(F, seqs, Len(seqs))
  <2> SUFFICES ASSUME NEW i \in 1..Len(seqs) PROVE F[i] = FlattenOf(F, seqs, i)
    BY DEF Flattens
  <2> QED BY <1>1, Zenon
<1> QED BY <1>2, <1>3

-----------------------------------------------------------------------------
(* Texts *)

\* A prefix of a sequence, and what is behind it.
LEMMA Pieces ==
  ASSUME NEW S, NEW t \in Seq(S), NEW i \in 0..Len(t)
  PROVE  /\ Upto(t, i) \in Seq(S) /\ Len(Upto(t, i)) = i
         /\ \A k \in 1..i : Upto(t, i)[k] = t[k]
         /\ From(t, i) \in Seq(S) /\ Len(From(t, i)) = Len(t) - i
         /\ \A k \in 1..(Len(t) - i) : From(t, i)[k] = t[i + k]
<1>1. Upto(t, i) \in Seq(S) /\ Len(Upto(t, i)) = i
  BY DEF Upto
<1>2. \A k \in 1..i : Upto(t, i)[k] = t[k]
  BY DEF Upto
<1>3. From(t, i) \in Seq(S) /\ Len(From(t, i)) = Len(t) - i
  BY DEF From
<1>4. \A k \in 1..(Len(t) - i) : From(t, i)[k] = t[i + k]
  BY DEF From
<1> QED BY <1>1, <1>2, <1>3, <1>4

\* Nothing and all of a sequence.
LEMMA Extremes ==
  ASSUME NEW S, NEW t \in Seq(S)
  PROVE  /\ Upto(t, 0) = <<>> /\ Upto(t, Len(t)) = t
         /\ From(t, 0) = t /\ From(t, Len(t)) = <<>>
<1>1. Upto(t, 0) = <<>> /\ From(t, Len(t)) = <<>>
  <2>1. 0 \in 0..Len(t) /\ Len(t) \in 0..Len(t) /\ Len(t) - Len(t) = 0
    OBVIOUS
  <2>2. Upto(t, 0) \in Seq(S) /\ Len(Upto(t, 0)) = 0
    BY <2>1, Pieces
  <2>3. From(t, Len(t)) \in Seq(S) /\ Len(From(t, Len(t))) = 0
    BY <2>1, Pieces
  <2> QED BY <2>2, <2>3, EmptySeq
<1>2. Upto(t, Len(t)) = t /\ From(t, 0) = t
  BY SubSeqFull DEF Upto, From
<1> QED BY <1>1, <1>2

\* One more element.
LEMMA Peel ==
  ASSUME NEW S, NEW t \in Seq(S), NEW i \in 0..(Len(t) - 1)
  PROVE  /\ t[i + 1] \in S /\ <<t[i + 1]>> \in Seq(S) /\ i + 1 \in 0..Len(t)
         /\ From(t, i) = <<t[i + 1]>> \o From(t, i + 1)
         /\ Upto(t, i + 1) = Upto(t, i) \o <<t[i + 1]>>
<1>1. /\ t[i + 1] \in S /\ <<t[i + 1]>> \in Seq(S) /\ i + 1 \in 0..Len(t)
      /\ i + 1 \in 1..Len(t) /\ Len(t) \in (i + 1)..Len(t) /\ 1 \in 1..Len(t)
      /\ i + 1 \in 1..Len(t) /\ (i + 1) - 1 = i
  OBVIOUS
<1>2. From(t, i) = <<t[i + 1]>> \o From(t, i + 1)
  BY <1>1, SubSeqRecursiveFirst DEF From
<1>3. SubSeq(t, 1, i + 1) = SubSeq(t, 1, (i + 1) - 1) \o <<t[i + 1]>>
  BY <1>1, SubSeqRecursiveSecond
<1>4. Upto(t, i + 1) = Upto(t, i) \o <<t[i + 1]>>
  BY <1>1, <1>3 DEF Upto
<1> QED BY <1>1, <1>2, <1>4

\* A sequence is its prefix and what is behind it.
LEMMA Whole ==
  ASSUME NEW S, NEW t \in Seq(S), NEW i \in 0..Len(t)
  PROVE  Upto(t, i) \o From(t, i) = t
<1>1. /\ 1 \in 1..(Len(t) + 1) /\ i \in (1 - 1)..Len(t) /\ Len(t) \in i..Len(t)
      /\ SubSeq(t, 1, Len(t)) = t
  BY SubSeqFull
<1> QED BY <1>1, ConcatAdjacentSubSeq DEF Upto, From

\* What is ahead begins with a symbol: that is the next, ...
LEMMA Advance ==
  ASSUME NEW S, NEW t \in Seq(S), NEW i \in 0..(Len(t) - 1), NEW x \in S, NEW rest \in Seq(S),
         From(t, i) = <<x>> \o rest
  PROVE  t[i + 1] = x /\ From(t, i + 1) = rest
<1>1. /\ i \in 0..Len(t) /\ i + 1 \in 0..Len(t) /\ 1 \in 1..(Len(t) - i)
      /\ Len(t) - (i + 1) \in Nat
  OBVIOUS
<1>2. /\ From(t, i)[1] = t[i + 1] /\ Len(From(t, i)) = Len(t) - i
      /\ From(t, i + 1) \in Seq(S) /\ Len(From(t, i + 1)) = Len(t) - (i + 1)
      /\ \A k \in 1..(Len(t) - (i + 1)) : From(t, i + 1)[k] = t[(i + 1) + k]
      /\ \A k \in 1..(Len(t) - i) : From(t, i)[k] = t[i + k]
  BY <1>1, Pieces
<1>3. <<x>> \in Seq(S) /\ Len(<<x>>) = 1 /\ <<x>>[1] = x
  OBVIOUS
<1>4. /\ Len(<<x>> \o rest) = 1 + Len(rest) /\ Len(rest) \in Nat
      /\ \A k \in 1..(1 + Len(rest)) :
           (<<x>> \o rest)[k] = IF k <= 1 THEN <<x>>[k] ELSE rest[k - 1]
  BY <1>3, ConcatProperties
<1>5. t[i + 1] = x
  BY <1>2, <1>3, <1>4
<1>6. Len(rest) = Len(t) - (i + 1)
  BY <1>2, <1>4
<1>7. ASSUME NEW k \in 1..Len(rest) PROVE From(t, i + 1)[k] = rest[k]
  <2>1. k + 1 \in 1..(1 + Len(rest)) /\ k + 1 \in 1..(Len(t) - i) /\ ~(k + 1 <= 1)
        /\ (k + 1) - 1 = k /\ i + (k + 1) = (i + 1) + k /\ k \in 1..(Len(t) - (i + 1))
    BY <1>6
  <2>2. (<<x>> \o rest)[k + 1] = rest[k]
    BY <1>4, <2>1
  <2>3. From(t, i)[k + 1] = t[(i + 1) + k]
    BY <1>2, <2>1
  <2> QED BY <1>2, <2>1, <2>2, <2>3
<1>8. From(t, i + 1) = rest
  BY <1>2, <1>6, <1>7, SeqEqual
<1> QED BY <1>5, <1>8

\* Texts put together are texts.
LEMMA Together ==
  ASSUME NEW u \in Text, NEW v \in Text
  PROVE  /\ u \o v \in Text /\ Len(u \o v) = Len(u) + Len(v)
         /\ u \o <<>> = u /\ <<>> \o u = u
BY ConcatProperties, ConcatEmptySeq DEF Text

\* Joining is associative.
LEMMA Regroup ==
  ASSUME NEW u \in Text, NEW v \in Text, NEW w \in Text
  PROVE  (u \o v) \o w = u \o (v \o w)
BY ConcatAssociative DEF Text

\* One more text behind the others.
LEMMA FlattenLast ==
  ASSUME NEW seqs \in Seq(Text), NEW x \in Text, FlattenSeq(seqs) \in Text
  PROVE  FlattenSeq(seqs \o <<x>>) = FlattenSeq(seqs) \o x
<1> DEFINE n == Len(seqs)
           all == seqs \o <<x>>
<1>1. /\ n \in Nat /\ <<x>> \in Seq(Text) /\ Len(<<x>>) = 1 /\ all \in Seq(Text) /\ Len(all) = n + 1 /\ all[n + 1] = x
      /\ \A i \in 1..n : all[i] = seqs[i]
  OBVIOUS
<1>2. PICK g : FlattenSeq(all) = g[Len(all)] /\ Flattens(g, all, Len(all))
  <2> HIDE DEF all
  <2> QED BY <1>1, FlattenUnfolds
<1> HIDE DEF all
<1>3. g[n + 1] = FlattenOf(g, all, n + 1) /\ FlattenSeq(all) = g[n + 1]
  BY <1>1, <1>2 DEF Flattens
<1>4. CASE n = 0
  <2>1. seqs = <<>>
    BY <1>4, EmptySeq
  <2>2. FlattenSeq(all) = x
    BY <1>1, <1>3, <1>4 DEF FlattenOf
  <2>3. <<>> \o x = x
    BY ConcatEmptySeq DEF Text
  <2> QED BY <2>1, <2>2, <2>3, FlattenNone DEF all
<1>5. CASE n # 0
  <2>1. PICK f : FlattenSeq(seqs) = f[n] /\ Flattens(f, seqs, n)
    BY <1>5, FlattenUnfolds
  <2>2. Flattens(g, seqs, n)
    <3> SUFFICES ASSUME NEW i \in 1..n PROVE g[i] = FlattenOf(g, seqs, i)
      BY DEF Flattens
    <3>1. g[i] = FlattenOf(g, all, i)
      BY <1>1, <1>2 DEF Flattens
    <3> QED BY <1>1, <3>1 DEF FlattenOf
  <2>3. n \in 1..n /\ n + 1 # 1 /\ (n + 1) - 1 = n
    BY <1>1, <1>5
  <2>4. f[n] = g[n]
    <3>1. \A i \in 1..n : f[i] = g[i]
      BY <1>1, <2>1, <2>2, FlattenUnique
    <3> QED BY <2>3, <3>1
  <2>5. g[n + 1] = g[n] \o x
    BY <1>1, <1>3, <2>3 DEF FlattenOf
  <2> QED BY <1>3, <2>1, <2>4, <2>5 DEF all
<1> QED BY <1>4, <1>5

\* Texts make a text, each prefix of them one text more.
LEMMA FlattenPrefix ==
  ASSUME NEW seqs \in Seq(Text)
  PROVE  \A i \in 0..Len(seqs) :
           /\ FlattenSeq(Upto(seqs, i)) \in Text
           /\ i > 0 => FlattenSeq(Upto(seqs, i)) = FlattenSeq(Upto(seqs, i - 1)) \o seqs[i]
<1> DEFINE S == {i \in Nat : i \in 0..Len(seqs) =>
                   /\ FlattenSeq(Upto(seqs, i)) \in Text
                   /\ i > 0 => FlattenSeq(Upto(seqs, i)) = FlattenSeq(Upto(seqs, i - 1)) \o seqs[i]}
<1>1. ASSUME NEW i \in Nat, \A m \in 0..(i - 1) : m \in S
      PROVE  i \in S
  <2> SUFFICES ASSUME i \in 0..Len(seqs)
               PROVE  /\ FlattenSeq(Upto(seqs, i)) \in Text
                      /\ i > 0 => FlattenSeq(Upto(seqs, i)) = FlattenSeq(Upto(seqs, i - 1)) \o seqs[i]
    OBVIOUS
  <2>1. CASE i = 0
    <3>1. Upto(seqs, i) = <<>>
      BY <2>1, Extremes
    <3> QED BY <2>1, <3>1, FlattenNone
  <2>2. CASE i > 0
    <3>1. i - 1 \in 0..(i - 1) /\ i - 1 \in 0..(Len(seqs) - 1) /\ i - 1 \in 0..Len(seqs) /\ (i - 1) + 1 = i
      BY <2>2
    <3>2. FlattenSeq(Upto(seqs, i - 1)) \in Text
      BY <1>1, <3>1
    <3>3. /\ seqs[i] \in Text
          /\ Upto(seqs, i) = Upto(seqs, i - 1) \o <<seqs[i]>>
      BY <3>1, Peel
    <3>4. Upto(seqs, i - 1) \in Seq(Text)
      BY <3>1, Pieces
    <3>5. FlattenSeq(Upto(seqs, i)) = FlattenSeq(Upto(seqs, i - 1)) \o seqs[i]
      BY <3>2, <3>3, <3>4, FlattenLast
    <3>6. FlattenSeq(Upto(seqs, i - 1)) \o seqs[i] \in Text
      BY <3>2, <3>3, ConcatProperties DEF Text
    <3> QED BY <3>5, <3>6
  <2>3. i = 0 \/ i > 0
    OBVIOUS
  <2> QED BY <2>1, <2>2, <2>3, Zenon
<1> HIDE DEF S
<1>2. \A i \in Nat : i \in S
  BY <1>1, StrongInduction
<1> SUFFICES ASSUME NEW i \in 0..Len(seqs)
             PROVE  /\ FlattenSeq(Upto(seqs, i)) \in Text
                    /\ i > 0 => FlattenSeq(Upto(seqs, i)) = FlattenSeq(Upto(seqs, i - 1)) \o seqs[i]
  OBVIOUS
<1>3. i \in S
  BY <1>2
<1> QED BY <1>3 DEF S

\* Texts joined are a text.
LEMMA FlattenType == ASSUME NEW seqs \in Seq(Text) PROVE FlattenSeq(seqs) \in Text
<1>1. Len(seqs) \in 0..Len(seqs) /\ Upto(seqs, Len(seqs)) = seqs
  BY Extremes
<1> QED BY <1>1, FlattenPrefix

\* A text in front of the others.
LEMMA FlattenFirst ==
  ASSUME NEW seqs \in Seq(Text), NEW x \in Text
  PROVE  FlattenSeq(<<x>> \o seqs) = x \o FlattenSeq(seqs)
<1> DEFINE S == {i \in Nat : i \in 0..Len(seqs) =>
                   FlattenSeq(<<x>> \o Upto(seqs, i)) = x \o FlattenSeq(Upto(seqs, i))}
<1>x. <<x>> \in Seq(Text) /\ <<>> \in Seq(Text) /\ <<>> \in Text
  BY DEF Text
<1>1. ASSUME NEW i \in Nat, \A m \in 0..(i - 1) : m \in S
      PROVE  i \in S
  <2> SUFFICES ASSUME i \in 0..Len(seqs)
               PROVE  FlattenSeq(<<x>> \o Upto(seqs, i)) = x \o FlattenSeq(Upto(seqs, i))
    OBVIOUS
  <2>1. CASE i = 0
    <3>1. Upto(seqs, i) = <<>>
      BY <2>1, Extremes
    <3>2. /\ <<x>> \o <<>> = <<x>> /\ <<>> \o <<x>> = <<x>>
      BY <1>x, ConcatEmptySeq
    <3>3. x \o <<>> = x /\ <<>> \o x = x
      BY ConcatEmptySeq DEF Text
    <3>4. FlattenSeq(<<>> \o <<x>>) = FlattenSeq(<<>>) \o x
      BY <1>x, FlattenNone, FlattenLast
    <3> QED BY <3>1, <3>2, <3>3, <3>4, FlattenNone
  <2>2. CASE i > 0
    <3>1. i - 1 \in 0..(i - 1) /\ i - 1 \in 0..(Len(seqs) - 1) /\ i - 1 \in 0..Len(seqs) /\ (i - 1) + 1 = i
      BY <2>2
    <3>2. FlattenSeq(<<x>> \o Upto(seqs, i - 1)) = x \o FlattenSeq(Upto(seqs, i - 1))
      BY <1>1, <3>1
    <3> DEFINE u == Upto(seqs, i - 1)
    <3>3. /\ seqs[i] \in Text /\ <<seqs[i]>> \in Seq(Text)
          /\ Upto(seqs, i) = u \o <<seqs[i]>>
      BY <3>1, Peel
    <3>4. u \in Seq(Text) /\ FlattenSeq(u) \in Text
      BY <3>1, Pieces, FlattenType
    <3>5. FlattenSeq(Upto(seqs, i)) = FlattenSeq(u) \o seqs[i]
      BY <2>2, FlattenPrefix
    <3> HIDE DEF u
    <3>6. <<x>> \o u \in Seq(Text) /\ <<x>> \o Upto(seqs, i) = (<<x>> \o u) \o <<seqs[i]>>
      BY <1>x, <3>3, <3>4, ConcatProperties, ConcatAssociative
    <3>7. FlattenSeq(<<x>> \o u) \in Text
      BY <3>6, FlattenType
    <3>8. FlattenSeq(<<x>> \o Upto(seqs, i)) = FlattenSeq(<<x>> \o u) \o seqs[i]
      BY <3>3, <3>6, <3>7, FlattenLast
    <3>9. (x \o FlattenSeq(u)) \o seqs[i] = x \o (FlattenSeq(u) \o seqs[i])
      BY <3>3, <3>4, Regroup, Zenon
    <3> QED BY <3>2, <3>5, <3>8, <3>9 DEF u
  <2> QED BY <2>1, <2>2
<1> HIDE DEF S
<1>2. Len(seqs) \in S
  BY <1>1, StrongInduction
<1>3. Len(seqs) \in 0..Len(seqs) /\ Upto(seqs, Len(seqs)) = seqs
  BY Extremes
<1> QED BY <1>2, <1>3 DEF S

\* ... from any place on.
LEMMA FlattenFrom ==
  ASSUME NEW seqs \in Seq(Text), NEW i \in 0..(Len(seqs) - 1)
  PROVE  FlattenSeq(From(seqs, i)) = seqs[i + 1] \o FlattenSeq(From(seqs, i + 1))
<1>1. /\ seqs[i + 1] \in Text /\ i + 1 \in 0..Len(seqs)
      /\ From(seqs, i) = <<seqs[i + 1]>> \o From(seqs, i + 1)
  BY Peel
<1>2. From(seqs, i + 1) \in Seq(Text)
  BY <1>1, Pieces
<1> QED BY <1>1, <1>2, FlattenFirst

\* A prefix of the texts and what is behind it.
LEMMA FlattenWhole ==
  ASSUME NEW seqs \in Seq(Text), NEW i \in 0..Len(seqs)
  PROVE  FlattenSeq(Upto(seqs, i)) \o FlattenSeq(From(seqs, i)) = FlattenSeq(seqs)
<1> DEFINE S == {k \in Nat : k \in 0..Len(seqs) =>
                   FlattenSeq(Upto(seqs, k)) \o FlattenSeq(From(seqs, k)) = FlattenSeq(seqs)}
<1>1. ASSUME NEW k \in Nat, \A m \in 0..(k - 1) : m \in S
      PROVE  k \in S
  <2> SUFFICES ASSUME k \in 0..Len(seqs)
               PROVE  FlattenSeq(Upto(seqs, k)) \o FlattenSeq(From(seqs, k)) = FlattenSeq(seqs)
    OBVIOUS
  <2>1. CASE k = 0
    <3>1. FlattenSeq(seqs) \in Text /\ Upto(seqs, k) = <<>> /\ From(seqs, k) = seqs
      BY <2>1, FlattenType, Extremes
    <3> QED BY <3>1, FlattenNone, ConcatEmptySeq DEF Text
  <2>2. CASE k > 0
    <3>1. k - 1 \in 0..(k - 1) /\ k - 1 \in 0..(Len(seqs) - 1) /\ k - 1 \in 0..Len(seqs) /\ (k - 1) + 1 = k
      BY <2>2
    <3> DEFINE u == FlattenSeq(Upto(seqs, k - 1))
               v == FlattenSeq(From(seqs, k))
    <3>2. u \o FlattenSeq(From(seqs, k - 1)) = FlattenSeq(seqs)
      BY <1>1, <3>1
    <3>3. FlattenSeq(From(seqs, k - 1)) = seqs[k] \o v
      BY <3>1, FlattenFrom
    <3>4. FlattenSeq(Upto(seqs, k)) = u \o seqs[k]
      BY <2>2, FlattenPrefix
    <3>5. u \in Text /\ v \in Text /\ seqs[k] \in Text
      BY <2>2, <3>1, Pieces, FlattenType
    <3> HIDE DEF u, v
    <3>6. (u \o seqs[k]) \o v = u \o (seqs[k] \o v)
      BY <3>5, Regroup, Zenon
    <3> QED BY <3>2, <3>3, <3>4, <3>6 DEF v
  <2> QED BY <2>1, <2>2
<1> HIDE DEF S
<1>2. i \in S
  BY <1>1, StrongInduction
<1> QED BY <1>2 DEF S

-----------------------------------------------------------------------------
(* What is written of a message from a place on *)

\* The texts of headers, chunks and messages, ...
HeaderTexts(headers) == [i \in DOMAIN headers |-> HeaderBytes(headers[i])]
ChunkTexts(m)        == [i \in DOMAIN m.chunks |-> ChunkBytes(m.chunks[i])]
MessageTexts(s)      == [i \in DOMAIN s |-> MessageBytes(s[i])]

\* Headers from one on, chunks from one on, messages from one on.
Lines(headers, j, rest) ==
  FlattenSeq(From(HeaderTexts(headers), j)) \o (<<Eol>> \o rest)

ChunkLines(m, j, rest) ==
  FlattenSeq(From(ChunkTexts(m), j)) \o (<<"0">> \o (<<Eol>> \o Lines(m.trailer, 0, rest)))

\* What is written behind message i.
Later(s, i) == FlattenSeq(From(MessageTexts(s), i))

\* The symbols of the grammar.
LEMMA Vocabulary ==
  /\ {":", ",", "0", Eol, Bad} \subseteq Symbols
  /\ Methods \cup Versions \cup Digits \cup Tokens \cup Names \subseteq Symbols
  /\ \A x \in Symbols : <<x>> \in Text /\ Len(<<x>>) = 1
<1>1. {":", ",", "0", Eol, Bad} \subseteq Symbols
  BY DEF Symbols, Digits
<1>2. Methods \cup Versions \cup Digits \cup Tokens \cup Names \subseteq Symbols
  BY Zenon DEF Symbols
<1>3. \A x \in Symbols : <<x>> \in Text /\ Len(<<x>>) = 1
  BY DEF Text
<1> QED BY <1>1, <1>2, <1>3

\* The digit of a length has its value.
LEMMA DigitOfLength ==
  ASSUME NEW n \in 0..2
  PROVE  LengthDigit(n) \in Digits /\ Value[LengthDigit(n)] = n
<1>1. Value["0"] = 0 /\ Value["1"] = 1 /\ Value["2"] = 2 /\ {"0", "1", "2"} = Digits
  BY DEF Value, Digits
<1>2. \E d \in Digits : Value[d] = n
  BY <1>1
<1> QED BY <1>2, Zenon DEF LengthDigit

\* A header is its name, a colon, its value and an end of line.
LEMMA HeaderUnfolds ==
  ASSUME NEW h \in Field
  PROVE  /\ h.name \in Text /\ h.value \in Text /\ HeaderBytes(h) \in Text
         /\ \A rest \in Text :
              HeaderBytes(h) \o rest = h.name \o (<<":">> \o (h.value \o (<<Eol>> \o rest)))
<1>1. h.name \in Text /\ h.value \in Text
  <2>1. h.name \in Seq(Tokens \cup Digits \cup Names) /\ h.value \in Seq(Symbols \ {Eol, Bad})
    BY DEF Field
  <2>2. (Tokens \cup Digits \cup Names) \subseteq Symbols /\ Symbols \ {Eol, Bad} \subseteq Symbols
    BY Vocabulary
  <2> QED BY <2>1, <2>2, SeqMonotonic DEF Text
<1> DEFINE n == h.name
           v == h.value
           c == <<":">>
           e == <<Eol>>
<1>2. c \in Text /\ e \in Text
  BY Vocabulary
<1>3. HeaderBytes(h) = ((n \o c) \o v) \o e
  BY DEF HeaderBytes
<1> HIDE DEF n, v, c, e
<1>n. n \in Text /\ v \in Text
  BY <1>1 DEF n, v
<1> DEFINE nc  == n \o c
           ncv == nc \o v
<1>4. nc \in Text
  BY <1>n, <1>2, Together
<1>5. ncv \in Text
  BY <1>n, <1>4, Together
<1>6. ncv \o e \in Text
  BY <1>2, <1>5, Together
<1>7. ASSUME NEW rest \in Text
      PROVE  (ncv \o e) \o rest = n \o (c \o (v \o (e \o rest)))
  <2>1. e \o rest \in Text
    BY <1>2, Together
  <2>2. v \o (e \o rest) \in Text
    BY <1>n, <2>1, Together
  <2>3. nc \o (v \o (e \o rest)) = n \o (c \o (v \o (e \o rest)))
    BY <1>n, <1>2, <2>2, Regroup, Zenon
  <2> HIDE DEF nc
  <2>4. ncv \o (e \o rest) = nc \o (v \o (e \o rest))
    BY <1>n, <1>4, <2>1, Regroup, Zenon
  <2> HIDE DEF ncv
  <2>5. (ncv \o e) \o rest = ncv \o (e \o rest)
    BY <1>2, <1>5, Regroup, Zenon
  <2> QED BY <2>3, <2>4, <2>5, Zenon
<1> QED BY <1>1, <1>3, <1>6, <1>7, Zenon DEF n, v, c, e

\* A header gives one text.
LEMMA HeaderTextsType ==
  ASSUME NEW headers \in Seq(Field)
  PROVE  /\ HeaderTexts(headers) \in Seq(Text) /\ Len(HeaderTexts(headers)) = Len(headers)
         /\ \A i \in 1..Len(headers) : HeaderTexts(headers)[i] = HeaderBytes(headers[i])
<1>1. \A i \in 1..Len(headers) : headers[i] \in Field /\ HeaderBytes(headers[i]) \in Text
  <2> SUFFICES ASSUME NEW i \in 1..Len(headers)
               PROVE  headers[i] \in Field /\ HeaderBytes(headers[i]) \in Text
    OBVIOUS
  <2>1. headers[i] \in Field
    OBVIOUS
  <2> QED BY <2>1, HeaderUnfolds, Zenon
<1> QED BY <1>1 DEF HeaderTexts

\* Headers, line by line.
LEMMA LinesUnfold ==
  ASSUME NEW headers \in Seq(Field), NEW rest \in Text
  PROVE  \A j \in 0..Len(headers) :
           /\ Lines(headers, j, rest) \in Text /\ Len(Lines(headers, j, rest)) > Len(rest)
           /\ j = Len(headers) => Lines(headers, j, rest) = <<Eol>> \o rest
           /\ j # Len(headers) =>
                Lines(headers, j, rest) =
                  headers[j + 1].name \o (<<":">> \o
                    (headers[j + 1].value \o (<<Eol>> \o Lines(headers, j + 1, rest))))
<1> SUFFICES ASSUME NEW j \in 0..Len(headers)
             PROVE  /\ Lines(headers, j, rest) \in Text /\ Len(Lines(headers, j, rest)) > Len(rest)
                    /\ j = Len(headers) => Lines(headers, j, rest) = <<Eol>> \o rest
                    /\ j # Len(headers) =>
                         Lines(headers, j, rest) =
                           headers[j + 1].name \o (<<":">> \o
                             (headers[j + 1].value \o (<<Eol>> \o Lines(headers, j + 1, rest))))
  OBVIOUS
<1> DEFINE texts == HeaderTexts(headers)
           end   == <<Eol>> \o rest
<1>1. /\ texts \in Seq(Text) /\ Len(texts) = Len(headers)
      /\ \A i \in 1..Len(headers) : texts[i] = HeaderBytes(headers[i])
  BY HeaderTextsType
<1>2. <<Eol>> \in Text /\ end \in Text /\ Len(end) = 1 + Len(rest)
  BY Vocabulary, Together
<1>3. Lines(headers, j, rest) = FlattenSeq(From(texts, j)) \o end
  BY DEF Lines
<1> HIDE DEF texts, end
<1>4. From(texts, j) \in Seq(Text) /\ FlattenSeq(From(texts, j)) \in Text
  BY <1>1, Pieces, FlattenType
<1>5. /\ Lines(headers, j, rest) \in Text
      /\ Len(Lines(headers, j, rest)) = Len(FlattenSeq(From(texts, j))) + Len(end)
  BY <1>2, <1>3, <1>4, Together
<1>6. Len(Lines(headers, j, rest)) > Len(rest)
  <2>1. Len(FlattenSeq(From(texts, j))) \in Nat /\ Len(rest) \in Nat
    BY <1>4 DEF Text
  <2> QED BY <1>2, <1>5, <2>1
<1>7. ASSUME j = Len(headers) PROVE Lines(headers, j, rest) = end
  <2>1. FlattenSeq(From(texts, j)) = <<>>
    BY <1>1, <1>7, Extremes, FlattenNone
  <2> QED BY <1>2, <1>3, <2>1, Together
<1>8. ASSUME j # Len(headers)
      PROVE  Lines(headers, j, rest) =
               headers[j + 1].name \o (<<":">> \o
                 (headers[j + 1].value \o (<<Eol>> \o Lines(headers, j + 1, rest))))
  <2>1. j \in 0..(Len(texts) - 1) /\ j + 1 \in 1..Len(headers) /\ j + 1 \in 0..Len(texts)
    BY <1>1, <1>8
  <2>2. FlattenSeq(From(texts, j)) = HeaderBytes(headers[j + 1]) \o FlattenSeq(From(texts, j + 1))
    BY <1>1, <2>1, FlattenFrom
  <2>3. From(texts, j + 1) \in Seq(Text)
    BY <1>1, <2>1, Pieces
  <2>4. headers[j + 1] \in Field
    BY <2>1
  <2> DEFINE more == FlattenSeq(From(texts, j + 1))
             line == HeaderBytes(headers[j + 1])
  <2>5. more \in Text
    BY <2>3, FlattenType
  <2>6. line \in Text
    BY <2>4, HeaderUnfolds
  <2>7. Lines(headers, j + 1, rest) = more \o end
    BY DEF Lines, texts, end
  <2>8. Lines(headers, j, rest) = (line \o more) \o end
    BY <1>3, <2>2
  <2> HIDE DEF more
  <2>9. Lines(headers, j + 1, rest) \in Text
    BY <1>2, <2>5, <2>7, Together
  <2> HIDE DEF line
  <2>10. (line \o more) \o end = line \o (more \o end)
    BY <1>2, <2>5, <2>6, Regroup, Zenon
  <2>11. Lines(headers, j, rest) = line \o Lines(headers, j + 1, rest)
    BY <2>7, <2>8, <2>10, Zenon
  <2> QED BY <2>4, <2>9, <2>11, HeaderUnfolds, Zenon DEF line
<1> QED BY <1>5, <1>6, <1>7, <1>8, Zenon DEF end

\* A message that a client writes.
Sound(m) == m \in Request /\ WellFramed(m)

\* Two symbols one behind the other.
LEMMA TwoSymbols ==
  ASSUME NEW x \in Symbols, NEW y \in Symbols
  PROVE  <<x, y>> \in Text /\ <<x, y>> = <<x>> \o <<y>>
<1>1. <<x, y>> \in Seq(Symbols) /\ <<x>> \in Seq(Symbols) /\ <<y>> \in Seq(Symbols)
  OBVIOUS
<1>2. <<x, y>> = <<x>> \o <<y>>
  <2> DEFINE a == <<x>>
             b == <<y>>
             c == <<x, y>>
  <2>1. /\ a \in Seq(Symbols) /\ Len(a) = 1 /\ a[1] = x /\ b \in Seq(Symbols) /\ Len(b) = 1
        /\ b[1] = y /\ c \in Seq(Symbols) /\ Len(c) = 2 /\ c[1] = x /\ c[2] = y
    OBVIOUS
  <2> HIDE DEF a, b, c
  <2>2. a \o b \in Seq(Symbols) /\ Len(a \o b) = 2 /\ (a \o b)[1] = x /\ (a \o b)[2] = y
    BY <2>1
  <2>3. \A k \in 1..2 : c[k] = (a \o b)[k]
    BY <2>1, <2>2
  <2>4. c = a \o b
    BY <2>1, <2>2, <2>3, SeqEqual
  <2> QED BY <2>4 DEF a, b, c
<1> QED BY <1>1, <1>2 DEF Text

\* A chunk is its size, an end of line, its data and an end of line.
LEMMA ChunkUnfolds ==
  ASSUME NEW data \in Text, Len(data) \in 1..2
  PROVE  /\ ChunkBytes(data) \in Text
         /\ \A rest \in Text :
              ChunkBytes(data) \o rest =
                <<LengthDigit(Len(data))>> \o (<<Eol>> \o (data \o (<<Eol>> \o rest)))
<1> DEFINE d == LengthDigit(Len(data))
           e == <<Eol>>
           de == <<d, Eol>>
<1>1. d \in Symbols
  <2>1. Len(data) \in 0..2
    OBVIOUS
  <2>2. d \in Digits
    BY <2>1, DigitOfLength
  <2> QED BY <2>2, Vocabulary
<1>2. e \in Text /\ <<d>> \in Text
  BY <1>1, Vocabulary
<1>d. de \in Text /\ de = <<d>> \o e
  BY <1>1, Vocabulary, TwoSymbols
<1>3. ChunkBytes(data) = (de \o data) \o e
  BY DEF ChunkBytes
<1> HIDE DEF d
<1>4. de \o data \in Text
  BY <1>d, Together
<1> DEFINE ded == de \o data
<1>5. ded \o e \in Text
  BY <1>2, <1>4, Together
<1>6. ASSUME NEW rest \in Text
      PROVE  (ded \o e) \o rest = <<d>> \o (e \o (data \o (e \o rest)))
  <2>1. e \o rest \in Text
    BY <1>2, Together
  <2>2. data \o (e \o rest) \in Text
    BY <2>1, Together
  <2> HIDE DEF e
  <2>3. de \o (data \o (e \o rest)) = <<d>> \o (e \o (data \o (e \o rest)))
    <3> HIDE DEF de
    <3>1. <<d>> \in Text /\ e \in Text /\ data \o (e \o rest) \in Text
      BY <1>2, <2>2
    <3>2. (<<d>> \o e) \o (data \o (e \o rest)) = <<d>> \o (e \o (data \o (e \o rest)))
      BY <3>1, Regroup, Zenon
    <3> QED BY <1>d, <3>2, Zenon
  <2> HIDE DEF de
  <2>4. ded \o (e \o rest) = de \o (data \o (e \o rest))
    <3>1. de \in Text /\ e \o rest \in Text
      BY <1>d, <2>1
    <3> QED BY <3>1, Regroup, Zenon
  <2> HIDE DEF ded
  <2>5. (ded \o e) \o rest = ded \o (e \o rest)
    BY <1>2, <1>4, Regroup, Zenon DEF ded
  <2> QED BY <2>3, <2>4, <2>5, Zenon
<1> QED BY <1>3, <1>5, <1>6, Zenon DEF d

\* A chunk gives one text, and has one or two bytes.
LEMMA ChunkTextsType ==
  ASSUME NEW m, Sound(m)
  PROVE  /\ ChunkTexts(m) \in Seq(Text) /\ Len(ChunkTexts(m)) = Len(m.chunks)
         /\ \A i \in 1..Len(m.chunks) :
              /\ ChunkTexts(m)[i] = ChunkBytes(m.chunks[i])
              /\ m.chunks[i] \in Text /\ Len(m.chunks[i]) \in 1..2
<1>1. m.chunks \in Seq(Text)
  BY DEF Sound, Request
<1>2. \A i \in 1..Len(m.chunks) : m.chunks[i] \in Text /\ Len(m.chunks[i]) \in 1..2
  BY <1>1 DEF Sound, WellFramed
<1>3. \A i \in 1..Len(m.chunks) : ChunkBytes(m.chunks[i]) \in Text
  BY <1>2, ChunkUnfolds
<1> QED BY <1>1, <1>2, <1>3 DEF ChunkTexts

\* Chunk by chunk, and the end of a message in chunks.
LEMMA ChunksUnfold ==
  ASSUME NEW m, Sound(m), NEW rest \in Text, NEW j \in 0..Len(m.chunks)
  PROVE  /\ ChunkLines(m, j, rest) \in Text
         /\ j = Len(m.chunks) =>
              ChunkLines(m, j, rest) = <<"0">> \o (<<Eol>> \o Lines(m.trailer, 0, rest))
         /\ j # Len(m.chunks) =>
              ChunkLines(m, j, rest) =
                <<LengthDigit(Len(m.chunks[j + 1]))>> \o (<<Eol>> \o
                  (m.chunks[j + 1] \o (<<Eol>> \o ChunkLines(m, j + 1, rest))))
<1> DEFINE texts == ChunkTexts(m)
           tail  == Lines(m.trailer, 0, rest)
           end   == <<"0">> \o (<<Eol>> \o tail)
<1>1. /\ texts \in Seq(Text) /\ Len(texts) = Len(m.chunks)
      /\ \A i \in 1..Len(m.chunks) :
           texts[i] = ChunkBytes(m.chunks[i]) /\ m.chunks[i] \in Text /\ Len(m.chunks[i]) \in 1..2
  BY ChunkTextsType
<1>t. m.trailer \in Seq(Field) /\ 0 \in 0..Len(m.trailer)
  BY DEF Sound, Request
<1>2. tail \in Text
  BY <1>t, LinesUnfold
<1> HIDE DEF tail
<1>3. <<Eol>> \o tail \in Text /\ <<"0">> \in Text
  BY <1>2, Vocabulary, Together
<1>4. end \in Text
  BY <1>3, Together
<1>5. ChunkLines(m, j, rest) = FlattenSeq(From(texts, j)) \o end
  BY DEF ChunkLines, tail
<1>6. ChunkLines(m, j + 1, rest) = FlattenSeq(From(texts, j + 1)) \o end
  BY DEF ChunkLines, tail
<1> HIDE DEF texts, end
<1>7. From(texts, j) \in Seq(Text)
  BY <1>1, Pieces
<1>8. FlattenSeq(From(texts, j)) \in Text
  BY <1>7, FlattenType
<1>9. ChunkLines(m, j, rest) \in Text
  BY <1>4, <1>5, <1>8, Together
<1>10. ASSUME j = Len(m.chunks) PROVE ChunkLines(m, j, rest) = end
  <2>1. FlattenSeq(From(texts, j)) = <<>>
    BY <1>1, <1>10, Extremes, FlattenNone
  <2> QED BY <1>4, <1>5, <2>1, Together
<1>11. ASSUME j # Len(m.chunks)
       PROVE  ChunkLines(m, j, rest) =
                <<LengthDigit(Len(m.chunks[j + 1]))>> \o (<<Eol>> \o
                  (m.chunks[j + 1] \o (<<Eol>> \o ChunkLines(m, j + 1, rest))))
  <2>1. j \in 0..(Len(texts) - 1) /\ j + 1 \in 1..Len(m.chunks) /\ j + 1 \in 0..Len(texts)
    BY <1>1, <1>11
  <2> DEFINE more == FlattenSeq(From(texts, j + 1))
             data == m.chunks[j + 1]
             line == ChunkBytes(data)
  <2>2. FlattenSeq(From(texts, j)) = texts[j + 1] \o more
    BY <1>1, <2>1, FlattenFrom
  <2>3. From(texts, j + 1) \in Seq(Text)
    BY <1>1, <2>1, Pieces
  <2>4. data \in Text /\ Len(data) \in 1..2 /\ texts[j + 1] = line
    BY <1>1, <2>1
  <2>5. more \in Text
    BY <2>3, FlattenType
  <2>6. ChunkLines(m, j + 1, rest) = more \o end
    BY <1>6
  <2>7. ChunkLines(m, j, rest) = (line \o more) \o end
    BY <1>5, <2>2, <2>4
  <2> HIDE DEF more
  <2>8. more \o end \in Text
    BY <1>4, <2>5, Together
  <2> HIDE DEF data
  <2>9. line \in Text
    BY <2>4, ChunkUnfolds
  <2> HIDE DEF line
  <2>10. (line \o more) \o end = line \o (more \o end)
    BY <1>4, <2>5, <2>9, Regroup, Zenon
  <2>11. ChunkLines(m, j, rest) = line \o ChunkLines(m, j + 1, rest)
    BY <2>6, <2>7, <2>10, Zenon
  <2>12. ChunkLines(m, j + 1, rest) \in Text
    BY <2>6, <2>8, Zenon
  <2>13. line \o ChunkLines(m, j + 1, rest) =
           <<LengthDigit(Len(data))>> \o (<<Eol>> \o (data \o (<<Eol>> \o ChunkLines(m, j + 1, rest))))
    BY <2>4, <2>12, ChunkUnfolds DEF line
  <2> QED BY <2>11, <2>13, Zenon DEF data
<1> QED BY <1>9, <1>10, <1>11, Zenon DEF end, tail

\* A message is its first line, its headers and its content.
LEMMA MessageUnfolds ==
  ASSUME NEW m, Sound(m)
  PROVE  /\ Content(m) \in Text /\ HeadBytes(m) \in Text
         /\ MessageBytes(m) = HeadBytes(m) \o Content(m)
         /\ \A rest \in Text :
              /\ HeadBytes(m) \o rest =
                   <<m.method>> \o (m.url \o (<<m.version>> \o Lines(m.headers, 0, rest)))
              /\ m.chunks # <<>> => Content(m) \o rest = ChunkLines(m, 0, rest)
<1>1. /\ m.method \in Symbols /\ m.version \in Symbols /\ m.headers \in Seq(Field)
      /\ m.trailer \in Seq(Field) /\ m.body \in Text
      /\ m.url \in Seq(Symbols \ (Versions \cup {Eol, Bad}))
  BY Vocabulary DEF Sound, Request
<1>2. m.url \in Text
  <2>1. Symbols \ (Versions \cup {Eol, Bad}) \subseteq Symbols
    OBVIOUS
  <2> QED BY <1>1, <2>1, SeqMonotonic DEF Text
<1>e. <<Eol>> \in Text /\ <<"0">> \in Text /\ <<"0", Eol>> \in Text /\ <<"0", Eol>> = <<"0">> \o <<Eol>>
  BY Vocabulary, TwoSymbols
<1>3. ASSUME NEW headers \in Seq(Field)
      PROVE  /\ FieldBytes(headers) \in Text
             /\ \A rest \in Text : FieldBytes(headers) \o (<<Eol>> \o rest) = Lines(headers, 0, rest)
  <2>1. /\ HeaderTexts(headers) \in Seq(Text) /\ FieldBytes(headers) = FlattenSeq(HeaderTexts(headers))
    BY HeaderTextsType DEF FieldBytes, HeaderTexts
  <2>2. From(HeaderTexts(headers), 0) = HeaderTexts(headers)
    BY <2>1, Extremes
  <2> QED BY <2>1, <2>2, FlattenType DEF Lines
<1>4. Content(m) \in Text /\ \A rest \in Text : m.chunks # <<>> => Content(m) \o rest = ChunkLines(m, 0, rest)
  <2>1. CASE m.chunks = <<>>
    BY <1>1, <2>1 DEF Content
  <2>2. CASE m.chunks # <<>>
    <3> DEFINE c == FlattenSeq(ChunkTexts(m))
               z == <<"0", Eol>>
               t == FieldBytes(m.trailer)
               e == <<Eol>>
    <3>1. Content(m) = ((c \o z) \o t) \o e
      BY <2>2 DEF Content, ChunkTexts
    <3>2. ChunkTexts(m) \in Seq(Text)
      BY ChunkTextsType
    <3>3. c \in Text /\ t \in Text /\ z \in Text /\ e \in Text
      BY <1>1, <1>e, <1>3, <3>2, FlattenType
    <3>4. \A rest \in Text : ChunkLines(m, 0, rest) = c \o (<<"0">> \o (<<Eol>> \o Lines(m.trailer, 0, rest)))
      <4>1. From(ChunkTexts(m), 0) = ChunkTexts(m)
        BY <3>2, Extremes
      <4> QED BY <4>1, Zenon DEF ChunkLines
    <3>5. \A rest \in Text : t \o (e \o rest) = Lines(m.trailer, 0, rest)
      BY <1>1, <1>3
    <3> HIDE DEF c, t
    <3> DEFINE cz  == c \o z
               czt == cz \o t
    <3>6. cz \in Text
      BY <3>3, Together
    <3>7. czt \in Text
      BY <3>3, <3>6, Together
    <3>8. czt \o e \in Text
      BY <3>3, <3>7, Together
    <3>9. ASSUME NEW rest \in Text
          PROVE  (czt \o e) \o rest = c \o (<<"0">> \o (<<Eol>> \o Lines(m.trailer, 0, rest)))
      <4> DEFINE l == Lines(m.trailer, 0, rest)
      <4>1. e \o rest \in Text
        BY <3>3, Together
      <4>2. l = t \o (e \o rest)
        BY <3>5
      <4> HIDE DEF l
      <4>3. l \in Text
        BY <3>3, <4>1, <4>2, Together
      <4>4. z \o l = <<"0">> \o (<<Eol>> \o l)
        <5>1. (<<"0">> \o <<Eol>>) \o l = <<"0">> \o (<<Eol>> \o l)
          BY <1>e, <4>3, Regroup, Zenon
        <5> QED BY <1>e, <5>1, Zenon
      <4> HIDE DEF z, e
      <4>5. z \o l \in Text
        BY <3>3, <4>3, Together
      <4>6. cz \o l = c \o (z \o l)
        <5>1. c \in Text /\ z \in Text
          BY <3>3
        <5> QED BY <5>1, <4>3, Regroup, Zenon
      <4> HIDE DEF cz
      <4>7. czt \o (e \o rest) = cz \o (t \o (e \o rest))
        BY <3>3, <3>6, <4>1, Regroup, Zenon
      <4> HIDE DEF czt
      <4>8. (czt \o e) \o rest = czt \o (e \o rest)
        BY <3>3, <3>7, Regroup, Zenon
      <4> QED BY <4>2, <4>4, <4>6, <4>7, <4>8, Zenon DEF l
    <3> QED BY <3>1, <3>4, <3>8, <3>9, Zenon
  <2> QED BY <2>1, <2>2
<1>5. HeadBytes(m) \in Text /\ \A rest \in Text :
        HeadBytes(m) \o rest = <<m.method>> \o (m.url \o (<<m.version>> \o Lines(m.headers, 0, rest)))
  <2> DEFINE a == <<m.method>>
             u == m.url
             v == <<m.version>>
             f == FieldBytes(m.headers)
             e == <<Eol>>
  <2>1. HeadBytes(m) = (((a \o u) \o v) \o f) \o e
    BY DEF HeadBytes
  <2>2. a \in Text /\ u \in Text /\ v \in Text /\ f \in Text /\ e \in Text
    BY <1>1, <1>2, <1>3, <1>e, Vocabulary
  <2>3. \A rest \in Text : f \o (e \o rest) = Lines(m.headers, 0, rest)
    BY <1>1, <1>3
  <2> HIDE DEF a, u, v, f, e
  <2> DEFINE au   == a \o u
             auv  == au \o v
             auvf == auv \o f
  <2>4. au \in Text
    BY <2>2, Together
  <2>5. auv \in Text
    BY <2>2, <2>4, Together
  <2>6. auvf \in Text
    BY <2>2, <2>5, Together
  <2>7. auvf \o e \in Text
    BY <2>2, <2>6, Together
  <2>8. ASSUME NEW rest \in Text
        PROVE  (auvf \o e) \o rest = a \o (u \o (v \o Lines(m.headers, 0, rest)))
    <3> DEFINE l == Lines(m.headers, 0, rest)
    <3>1. e \o rest \in Text
      BY <2>2, Together
    <3>2. l = f \o (e \o rest)
      BY <2>3
    <3> HIDE DEF l
    <3>3. l \in Text
      BY <2>2, <3>1, <3>2, Together
    <3>4. v \o l \in Text
      BY <2>2, <3>3, Together
    <3>5. au \o (v \o l) = a \o (u \o (v \o l))
      <4>1. a \in Text /\ u \in Text
        BY <2>2
      <4> QED BY <4>1, <3>4, Regroup, Zenon
    <3> HIDE DEF au
    <3>6. auv \o l = au \o (v \o l)
      <4>1. v \in Text
        BY <2>2
      <4> QED BY <4>1, <2>4, <3>3, Regroup, Zenon
    <3> HIDE DEF auv
    <3>7. auvf \o (e \o rest) = auv \o (f \o (e \o rest))
      BY <2>2, <2>5, <3>1, Regroup, Zenon
    <3> HIDE DEF auvf
    <3>8. (auvf \o e) \o rest = auvf \o (e \o rest)
      BY <2>2, <2>6, Regroup, Zenon
    <3> QED BY <3>2, <3>5, <3>6, <3>7, <3>8, Zenon DEF l
  <2> QED BY <2>1, <2>7, <2>8, Zenon DEF a, u, v
<1> QED BY <1>4, <1>5, Zenon DEF MessageBytes

\* What a client may write.
LEMMA ScriptType ==
  ASSUME NEW s \in Scripts
  PROVE  /\ s \in Seq(Request) /\ Len(s) \in Nat /\ DOMAIN s = 1..Len(s)
         /\ \A i \in 1..Len(s) :
              /\ Sound(s[i]) /\ s[i] \in Range(s)
              /\ \A k \in 1..Len(s[i].headers) :
                   s[i].headers[k].name = <<"connection">> => ListOfTokens(s[i].headers[k].value)
              /\ s \in Garbled => ~Switches(s[i])
<1>1. s \in Seq(Request)
  BY ScriptsAssumption
<1>2. Len(s) \in Nat /\ DOMAIN s = 1..Len(s)
  BY <1>1
<1>3. ASSUME NEW i \in 1..Len(s)
      PROVE  /\ Sound(s[i]) /\ s[i] \in Range(s)
             /\ \A k \in 1..Len(s[i].headers) :
                  s[i].headers[k].name = <<"connection">> => ListOfTokens(s[i].headers[k].value)
             /\ s \in Garbled => ~Switches(s[i])
  <2>1. s[i] \in Request
    BY <1>1
  <2>2. s[i] \in Range(s)
    BY <1>2 DEF Range
  <2>3. DOMAIN s[i].headers = 1..Len(s[i].headers)
    BY <2>1 DEF Request
  <2> QED BY <2>1, <2>2, <2>3, ScriptsAssumption, Zenon DEF Sound
<1> QED BY <1>1, <1>2, <1>3

\* A message gives one text.
LEMMA MessageTextsType ==
  ASSUME NEW s \in Scripts
  PROVE  /\ MessageTexts(s) \in Seq(Text) /\ Len(MessageTexts(s)) = Len(s)
         /\ ScriptBytes(s) = FlattenSeq(MessageTexts(s)) /\ ScriptBytes(s) \in Text
         /\ \A i \in 1..Len(s) : MessageTexts(s)[i] = MessageBytes(s[i])
<1>1. s \in Seq(Request) /\ \A i \in 1..Len(s) : Sound(s[i])
  BY ScriptType
<1>2. ASSUME NEW i \in 1..Len(s) PROVE MessageBytes(s[i]) \in Text
  <2> DEFINE h == HeadBytes(s[i])
             c == Content(s[i])
  <2>1. h \in Text /\ c \in Text /\ MessageBytes(s[i]) = h \o c
    BY <1>1, MessageUnfolds, Zenon
  <2> HIDE DEF h, c
  <2> QED BY <2>1, Together
<1>3. /\ MessageTexts(s) \in Seq(Text) /\ Len(MessageTexts(s)) = Len(s)
      /\ \A i \in 1..Len(s) : MessageTexts(s)[i] = MessageBytes(s[i])
  BY <1>1, <1>2 DEF MessageTexts
<1>4. ScriptBytes(s) = FlattenSeq(MessageTexts(s))
  BY Zenon DEF ScriptBytes, MessageTexts
<1> QED BY <1>3, <1>4, FlattenType

\* Message by message.
LEMMA LaterUnfolds ==
  ASSUME NEW s \in Scripts, NEW i \in 0..Len(s)
  PROVE  /\ Later(s, i) \in Text
         /\ i = Len(s) => Later(s, i) = <<>>
         /\ i # Len(s) =>
              /\ i + 1 \in 1..Len(s) /\ i + 1 \in 0..Len(s) /\ Sound(s[i + 1])
              /\ Later(s, i) = HeadBytes(s[i + 1]) \o (Content(s[i + 1]) \o Later(s, i + 1))
<1> DEFINE texts == MessageTexts(s)
<1>1. texts \in Seq(Text) /\ Len(texts) = Len(s) /\ \A k \in 1..Len(s) : texts[k] = MessageBytes(s[k])
  BY MessageTextsType
<1>2. Later(s, i) = FlattenSeq(From(texts, i)) /\ Later(s, i + 1) = FlattenSeq(From(texts, i + 1))
  BY DEF Later
<1> HIDE DEF texts
<1>3. From(texts, i) \in Seq(Text)
  BY <1>1, Pieces
<1>4. Later(s, i) \in Text
  BY <1>2, <1>3, FlattenType
<1>5. i = Len(s) => Later(s, i) = <<>>
  BY <1>1, <1>2, Extremes, FlattenNone
<1>6. ASSUME i # Len(s)
      PROVE  /\ i + 1 \in 1..Len(s) /\ i + 1 \in 0..Len(s) /\ Sound(s[i + 1])
             /\ Later(s, i) = HeadBytes(s[i + 1]) \o (Content(s[i + 1]) \o Later(s, i + 1))
  <2>1. Len(s) \in Nat
    BY ScriptType
  <2>2. i + 1 \in 1..Len(s) /\ i + 1 \in 0..Len(s) /\ i \in 0..(Len(texts) - 1)
        /\ i + 1 \in 0..Len(texts)
    BY <1>1, <1>6, <2>1
  <2>3. Sound(s[i + 1])
    BY <2>2, ScriptType
  <2>4. Later(s, i) = MessageBytes(s[i + 1]) \o Later(s, i + 1)
    BY <1>1, <1>2, <2>2, FlattenFrom
  <2>5. From(texts, i + 1) \in Seq(Text)
    BY <1>1, <2>2, Pieces
  <2> DEFINE l == Later(s, i + 1)
             h == HeadBytes(s[i + 1])
             c == Content(s[i + 1])
  <2>6. l \in Text
    BY <1>2, <2>5, FlattenType
  <2>7. h \in Text /\ c \in Text /\ MessageBytes(s[i + 1]) = h \o c
    BY <2>3, MessageUnfolds, Zenon
  <2> HIDE DEF l, h, c
  <2>8. (h \o c) \o l = h \o (c \o l)
    BY <2>6, <2>7, Regroup, Zenon
  <2> QED BY <2>2, <2>3, <2>4, <2>7, <2>8, Zenon DEF l, h, c
<1> QED BY <1>4, <1>5, <1>6

\* The end of a head is where its message's content begins.
LEMMA HeadEndIs ==
  ASSUME NEW s \in Scripts, NEW i \in 1..Len(s)
  PROVE  /\ HeadEnd(s, i) \in Nat
         /\ HeadEnd(s, i) + Len(Content(s[i]) \o Later(s, i)) = Len(ScriptBytes(s))
<1> DEFINE texts  == MessageTexts(s)
           before == Upto(texts, i - 1)
           h      == HeadBytes(s[i])
           rest   == Content(s[i]) \o Later(s, i)
<1>1. /\ texts \in Seq(Text) /\ Len(texts) = Len(s) /\ ScriptBytes(s) = FlattenSeq(texts)
      /\ \A k \in 1..Len(s) : texts[k] = MessageBytes(s[k])
  BY MessageTextsType
<1>2. /\ i - 1 \in 0..Len(s) /\ i - 1 # Len(s) /\ (i - 1) + 1 = i /\ i \in 0..Len(s)
      /\ s \in Seq(Request)
  BY ScriptType
<1>3. Sound(s[i]) /\ Later(s, i - 1) = h \o rest
  BY <1>2, LaterUnfolds
<1>4. Content(s[i]) \in Text /\ Later(s, i) \in Text /\ h \in Text
  BY <1>2, <1>3, LaterUnfolds, MessageUnfolds
<1>5. rest \in Text
  BY <1>4, Together
<1> HIDE DEF rest
<1>6. Len(Later(s, i - 1)) = Len(h) + Len(rest)
  BY <1>3, <1>4, <1>5, Together
<1>7. ScriptBytes(SubSeq(s, 1, i - 1)) = FlattenSeq(before)
  <2> DEFINE t == Upto(s, i - 1)
  <2>1. /\ t \in Seq(Request) /\ Len(t) = i - 1 /\ \A k \in 1..(i - 1) : t[k] = s[k]
    BY <1>2, Pieces
  <2>2. /\ before \in Seq(Text) /\ Len(before) = i - 1 /\ \A k \in 1..(i - 1) : before[k] = texts[k]
    <3>1. i - 1 \in 0..Len(texts)
      BY <1>1, <1>2
    <3>2. texts \in Seq(Text)
      BY <1>1
    <3> HIDE DEF texts
    <3> QED BY <3>1, <3>2, Pieces
  <2> HIDE DEF t, before
  <2> DEFINE f == [k \in DOMAIN t |-> MessageBytes(t[k])]
  <2>3. DOMAIN t = 1..(i - 1) /\ DOMAIN before = 1..(i - 1)
    BY <2>1, <2>2
  <2>4. \A k \in 1..(i - 1) : before[k] = MessageBytes(t[k])
    <3> SUFFICES ASSUME NEW k \in 1..(i - 1) PROVE before[k] = MessageBytes(t[k])
      OBVIOUS
    <3>1. k \in 1..Len(s)
      BY <1>2
    <3> QED BY <1>1, <2>1, <2>2, <3>1
  <2>5. before = [k \in 1..(i - 1) |-> before[k]]
    BY <2>2
  <2>6. before = f
    BY <2>3, <2>4, <2>5
  <2> QED BY <2>6, Zenon DEF ScriptBytes, t, Upto
<1>8. FlattenSeq(before) \o Later(s, i - 1) = ScriptBytes(s)
  BY <1>1, <1>2, FlattenWhole DEF Later
<1>9. FlattenSeq(before) \in Text /\ Later(s, i - 1) \in Text
  <2>1. before \in Seq(Text)
    BY <1>1, <1>2, Pieces
  <2> QED BY <1>2, <2>1, FlattenType, LaterUnfolds
<1> HIDE DEF texts, before, h
<1>10. Len(ScriptBytes(s)) = Len(FlattenSeq(before)) + (Len(h) + Len(rest))
  BY <1>6, <1>8, <1>9, Together
<1>11. HeadEnd(s, i) = Len(FlattenSeq(before)) + Len(h)
  BY <1>7 DEF HeadEnd, h
<1>12. Len(FlattenSeq(before)) \in Nat /\ Len(h) \in Nat /\ Len(rest) \in Nat
  BY <1>4, <1>5, <1>9 DEF Text
<1> QED BY <1>10, <1>11, <1>12 DEF rest

-----------------------------------------------------------------------------
(* What the parser makes of a header *)

\* What the parser makes of a header: the kind of its name, ...
Kind(name) == IF Len(name) = 1 /\ name[1] \in Names THEN name[1] ELSE "general"

\* ... that of the k-th symbol of a list, that of a value of which r symbols are
\* read, ...
Leads(value, k) == value[k] # "," /\ (k = 1 \/ value[k - 1] = ",")

ElementKind(value, k) ==
  CASE value[k] = ","                                                   -> "connection"
    [] Leads(value, k) /\ value[k] \in {"close", "keep-alive"}          -> value[k]
    [] Leads(value, k) /\ value[k] = "upgrade"                          -> "connection-upgrade"
    [] OTHER                                                            -> "token"

ValueKind(h, r) ==
  CASE Kind(h.name) = "connection"     -> ElementKind(h.value, r)
    [] Kind(h.name) = "content-length" -> "content-length"
    [] Kind(h.name) = "transfer-encoding" /\ r = 1 /\ h.value[1] = "chunked" -> "chunked"
    [] OTHER                           -> "general"

\* ... and the flags it stands for.
FlagsRead(h, r) ==
  CASE Kind(h.name) = "connection" ->
         UNION {HeaderFlag(ElementKind(h.value, k)) : k \in {q \in 1..(r - 1) : h.value[q + 1] = ","}}
    [] Kind(h.name) = "upgrade"        -> {"UPGRADE"}
    [] Kind(h.name) = "content-length" -> {"CONTENTLENGTH"}
    [] OTHER                           -> {}

\* ... those of a header, and those of the first j headers.
FieldFlags(h) ==
  IF h.value = <<>> THEN {}
    ELSE FlagsRead(h, Len(h.value)) \cup HeaderFlag(ValueKind(h, Len(h.value)))

HeadFlags(headers, j) == UNION {FieldFlags(headers[i]) : i \in 1..j}

\* The parser knows a header by its name.
LEMMA KindIs ==
  ASSUME NEW name \in Text
  PROVE  /\ Kind(name) \in Names => name = <<Kind(name)>>
         /\ \A x \in Names : Kind(<<x>>) = x
         /\ Kind(name) \in Names \cup {"general"}
<1>1. ASSUME Kind(name) \in Names PROVE name = <<Kind(name)>>
  <2>1. Len(name) = 1 /\ name[1] = Kind(name)
    BY <1>1 DEF Kind, Names
  <2> DEFINE t == <<Kind(name)>>
  <2>2. t \in Seq(Symbols) /\ Len(t) = 1 /\ t[1] = Kind(name)
    <3>1. Kind(name) \in Symbols
      BY <1>1, Vocabulary
    <3> QED BY <3>1
  <2> HIDE DEF t
  <2>3. name \in Seq(Symbols) /\ \A k \in 1..Len(name) : name[k] = t[k]
    BY <2>1, <2>2 DEF Text
  <2>4. name = t
    BY <2>1, <2>2, <2>3, SeqEqual
  <2> QED BY <2>4 DEF t
<1>2. \A x \in Names : Kind(<<x>>) = x
  BY DEF Kind
<1>3. Kind(name) \in Names \cup {"general"}
  BY DEF Kind
<1> QED BY <1>1, <1>2, <1>3

\* The kind of a name of which a part is read.
LEMMA KindOfPart ==
  ASSUME NEW name \in Text, NEW r \in 1..Len(name)
  PROVE  /\ Kind(Upto(name, r)) = IF r = 1 /\ name[1] \in Names THEN name[1] ELSE "general"
         /\ r = Len(name) => Kind(Upto(name, r)) = Kind(name)
<1>1. r \in 0..Len(name) /\ 1 \in 1..r /\ name \in Seq(Symbols)
  BY DEF Text
<1>2. Len(Upto(name, r)) = r /\ Upto(name, r)[1] = name[1]
  BY <1>1, Pieces
<1>3. r = Len(name) => Upto(name, r) = name
  BY <1>1, Extremes
<1> QED BY <1>2, <1>3 DEF Kind

\* The options of a list, and the flags they stand for.
Options == {"close", "keep-alive", "connection-upgrade"}

\* The token of an option, and the flag.
OptionOf(x) == IF x = "connection-upgrade" THEN "upgrade" ELSE x

FlagOf(x) == CASE x = "close"      -> "CONNECTION_CLOSE"
               [] x = "keep-alive" -> "CONNECTION_KEEP_ALIVE"
               [] OTHER            -> "CONNECTION_UPGRADE"

\* Which flags a header state stands for.
LEMMA HeaderFlagIs ==
  ASSUME NEW h
  PROVE  /\ \A x \in Options : FlagOf(x) \in HeaderFlag(h) <=> h = x
         /\ "CHUNKED" \in HeaderFlag(h) <=> h = "chunked"
         /\ HeaderFlag(h) \cap {"TRAILING", "UPGRADE", "CONTENTLENGTH"} = {}
<1>1. CASE h = "close"
  BY <1>1 DEF HeaderFlag, FlagOf, Options
<1>2. CASE h = "keep-alive"
  BY <1>2 DEF HeaderFlag, FlagOf, Options
<1>3. CASE h = "connection-upgrade"
  BY <1>3 DEF HeaderFlag, FlagOf, Options
<1>4. CASE h = "chunked"
  BY <1>4 DEF HeaderFlag, FlagOf, Options
<1>5. CASE h \notin {"close", "keep-alive", "connection-upgrade", "chunked"}
  BY <1>5 DEF HeaderFlag, FlagOf, Options
<1> QED BY <1>1, <1>2, <1>3, <1>4, <1>5

\* The state after a symbol of a list tells the option, if it is one.
LEMMA ElementKindIs ==
  ASSUME NEW v, NEW k
  PROVE  /\ ElementKind(v, k) \in {"connection", "close", "keep-alive", "connection-upgrade", "token"}
         /\ ElementKind(v, k) = "connection" <=> v[k] = ","
         /\ \A x \in Options : ElementKind(v, k) = x <=> Leads(v, k) /\ v[k] = OptionOf(x)
<1>1. CASE v[k] = ","
  BY <1>1 DEF ElementKind, Leads, Options, OptionOf
<1>2. CASE Leads(v, k) /\ v[k] = "close"
  <2>1. ElementKind(v, k) = "close"
    BY <1>2 DEF ElementKind
  <2> QED BY <1>2, <2>1 DEF Options, OptionOf
<1>3. CASE Leads(v, k) /\ v[k] = "keep-alive"
  <2>1. ElementKind(v, k) = "keep-alive"
    BY <1>3 DEF ElementKind
  <2> QED BY <1>3, <2>1 DEF Options, OptionOf
<1>4. CASE Leads(v, k) /\ v[k] = "upgrade"
  <2>1. ElementKind(v, k) = "connection-upgrade"
    BY <1>4 DEF ElementKind
  <2> QED BY <1>4, <2>1 DEF Options, OptionOf
<1>5. CASE v[k] # "," /\ ~(Leads(v, k) /\ v[k] \in {"close", "keep-alive", "upgrade"})
  <2>1. ElementKind(v, k) = "token"
    BY <1>5 DEF ElementKind
  <2> QED BY <1>5, <2>1 DEF Options, OptionOf
<1> QED BY <1>1, <1>2, <1>3, <1>4, <1>5

\* The parser follows the elements of a list.
LEMMA ElementStep ==
  ASSUME NEW v \in Text, ListOfTokens(v), NEW k \in 1..(Len(v) - 1), Symbol = v[k + 1]
  PROVE  /\ ValueState(ElementKind(v, k)) = ElementKind(v, k + 1)
         /\ ElementFlag(ElementKind(v, k)) =
              IF v[k + 1] = "," THEN HeaderFlag(ElementKind(v, k)) ELSE {}
<1>1. /\ k \in DOMAIN v /\ k + 1 \in DOMAIN v /\ (k + 1) - 1 = k /\ k + 1 # 1
  BY DEF Text
<1>2. /\ v[k + 1] = "," => v[k] # ","
      /\ v[k + 1] # "," => IsToken(v[k + 1])
  BY <1>1 DEF ListOfTokens
<1>3. Leads(v, k + 1) <=> v[k + 1] # "," /\ v[k] = ","
  BY <1>1 DEF Leads
<1> DEFINE e == ElementKind(v, k)
           f == ElementKind(v, k + 1)
<1>4. /\ e \in {"connection", "close", "keep-alive", "connection-upgrade", "token"}
      /\ e = "connection" <=> v[k] = ","
  BY ElementKindIs
<1>5. ElementFlag(e) = IF v[k + 1] = "," THEN HeaderFlag(e) ELSE {}
  BY <1>4 DEF ElementFlag
<1>6. CASE v[k + 1] = ","
  <2>1. f = "connection"
    BY <1>6 DEF ElementKind
  <2> HIDE DEF e, f
  <2> QED BY <1>2, <1>4, <1>5, <1>6, <2>1 DEF ValueState, e, f
<1>7. CASE v[k + 1] # "," /\ v[k] # ","
  <2>1. f = "token"
    BY <1>3, <1>7 DEF ElementKind
  <2>2. ValueState(e) = "token"
    <3> HIDE DEF e
    <3> QED BY <1>4, <1>7 DEF ValueState
  <2> QED BY <1>5, <2>1, <2>2
<1>8. CASE v[k + 1] # "," /\ v[k] = ","
  <2>1. e = "connection" /\ Leads(v, k + 1) /\ IsToken(Symbol)
    BY <1>2, <1>3, <1>4, <1>8
  <2>2. ValueState(e) = ElementState("connection")
    <3> HIDE DEF e
    <3> QED BY <2>1 DEF ValueState
  <2>3. ElementState("connection") = f
    BY <1>8, <2>1 DEF ElementState, ElementKind
  <2> QED BY <1>5, <2>2, <2>3
<1> QED BY <1>6, <1>7, <1>8

\* A header of a message: its value is a list of tokens where it should be.
WellFormed(h) == h \in Field /\ (h.name = <<"connection">> => ListOfTokens(h.value))

\* The value of Connection is a list of tokens.
LEMMA ConnectionIsList ==
  ASSUME NEW h, WellFormed(h), Kind(h.name) = "connection"
  PROVE  ListOfTokens(h.value)
<1>1. h.name \in Text
  BY HeaderUnfolds DEF WellFormed
<1> QED BY <1>1, KindIs DEF WellFormed, Names

\* The first symbol of a value ...
LEMMA ValueBegins ==
  ASSUME NEW h, WellFormed(h), h.value # <<>>, Symbol = h.value[1],
         Kind(h.name) # "content-length"
  PROVE  /\ ElementState(Kind(h.name)) = ValueKind(h, 1)
         /\ FlagsRead(h, 1) = IF Kind(h.name) = "upgrade" THEN {"UPGRADE"} ELSE {}
<1>1. h.name \in Text /\ h.value \in Text /\ Kind(h.name) \in Names \cup {"general"}
  BY HeaderUnfolds, KindIs DEF WellFormed
<1>2. Len(h.value) >= 1 /\ 1 \in DOMAIN h.value
  BY <1>1 DEF Text
<1>3. CASE Kind(h.name) = "connection"
  <2>1. h.value[1] # ","
    BY <1>2, <1>3, ConnectionIsList DEF ListOfTokens
  <2>2. ElementState("connection") = ElementKind(h.value, 1)
    BY <2>1 DEF ElementState, ElementKind, Leads
  <2>3. {q \in 1..(1 - 1) : h.value[q + 1] = ","} = {}
    OBVIOUS
  <2>4. FlagsRead(h, 1) = {}
    BY <1>3, <2>3 DEF FlagsRead
  <2> QED BY <1>3, <2>2, <2>4 DEF ValueKind
<1>4. CASE Kind(h.name) = "transfer-encoding"
  BY <1>4 DEF ElementState, ValueKind, FlagsRead
<1>5. CASE Kind(h.name) \in {"upgrade", "general"}
  BY <1>5 DEF ElementState, ValueKind, FlagsRead
<1> QED BY <1>1, <1>3, <1>4, <1>5 DEF Names

\* ... and a further one.
LEMMA ValueGoesOn ==
  ASSUME NEW h, WellFormed(h), NEW r \in 1..(Len(h.value) - 1), Symbol = h.value[r + 1],
         Kind(h.name) # "content-length"
  PROVE  /\ ValueState(ValueKind(h, r)) = ValueKind(h, r + 1)
         /\ FlagsRead(h, r + 1) = FlagsRead(h, r) \cup ElementFlag(ValueKind(h, r))
<1>1. h.name \in Text /\ h.value \in Text /\ Kind(h.name) \in Names \cup {"general"}
  BY HeaderUnfolds, KindIs DEF WellFormed
<1>2. r # 0 /\ r + 1 # 1 /\ (r + 1) - 1 = r /\ r \in Nat
  BY <1>1 DEF Text
<1>3. CASE Kind(h.name) = "connection"
  <2> DEFINE v == h.value
             N == {q \in 1..(r - 1) : v[q + 1] = ","}
             M == {q \in 1..r : v[q + 1] = ","}
             E(k) == HeaderFlag(ElementKind(v, k))
  <2>1. /\ ValueState(ElementKind(v, r)) = ElementKind(v, r + 1)
        /\ ElementFlag(ElementKind(v, r)) = IF v[r + 1] = "," THEN E(r) ELSE {}
    BY <1>1, <1>3, ConnectionIsList, ElementStep
  <2>2. FlagsRead(h, r) = UNION {E(k) : k \in N} /\ FlagsRead(h, r + 1) = UNION {E(k) : k \in M}
    BY <1>2, <1>3 DEF FlagsRead
  <2>3. M = N \cup IF v[r + 1] = "," THEN {r} ELSE {}
    <3>1. \A q : q \in 1..r <=> q \in 1..(r - 1) \/ q = r
      BY <1>2
    <3>2. M \subseteq N \cup IF v[r + 1] = "," THEN {r} ELSE {}
      BY <3>1, Zenon
    <3>3. N \cup (IF v[r + 1] = "," THEN {r} ELSE {}) \subseteq M
      BY <3>1, Zenon
    <3> QED BY <3>2, <3>3
  <2>4. ValueKind(h, r) = ElementKind(v, r) /\ ValueKind(h, r + 1) = ElementKind(v, r + 1)
    BY <1>3 DEF ValueKind
  <2> HIDE DEF v, N, M, E
  <2>5. UNION {E(k) : k \in M} = (UNION {E(k) : k \in N}) \cup IF v[r + 1] = "," THEN E(r) ELSE {}
    <3>1. CASE v[r + 1] = ","
      <4>1. M = N \cup {r}
        BY <2>3, <3>1
      <4> QED BY <3>1, <4>1
    <3>2. CASE v[r + 1] # ","
      <4>1. M = N
        BY <2>3, <3>2
      <4> QED BY <3>2, <4>1
    <3> QED BY <3>1, <3>2
  <2> QED BY <2>1, <2>2, <2>4, <2>5
<1>4. CASE Kind(h.name) = "transfer-encoding"
  <2>1. ValueKind(h, r) \in {"chunked", "general"} /\ ValueKind(h, r + 1) = "general"
    BY <1>2, <1>4 DEF ValueKind
  <2>2. ValueState(ValueKind(h, r)) = "general"
    BY <2>1 DEF ValueState
  <2>3. ElementFlag(ValueKind(h, r)) = {}
    BY <2>1 DEF ElementFlag, HeaderFlag
  <2>4. FlagsRead(h, r + 1) = {} /\ FlagsRead(h, r) = {}
    BY <1>4 DEF FlagsRead
  <2> QED BY <2>1, <2>2, <2>3, <2>4
<1>5. CASE Kind(h.name) \in {"upgrade", "general"}
  <2>1. ValueKind(h, r) = "general" /\ ValueKind(h, r + 1) = "general"
    BY <1>5 DEF ValueKind
  <2>2. ValueState("general") = "general"
    BY DEF ValueState
  <2>3. ElementFlag("general") = {}
    BY DEF ElementFlag, HeaderFlag
  <2>4. FlagsRead(h, r + 1) = FlagsRead(h, r)
    BY <1>5 DEF FlagsRead
  <2> QED BY <2>1, <2>2, <2>3, <2>4
<1> QED BY <1>1, <1>3, <1>4, <1>5 DEF Names

\* The flags of a header say what it says.
LEMMA FieldFlagsIs ==
  ASSUME NEW h, WellFormed(h)
  PROVE  /\ \A x \in Options :
              FlagOf(x) \in FieldFlags(h) <=>
                /\ h.name = <<"connection">>
                /\ \E k \in 1..Len(h.value) : Element(h.value, k) /\ h.value[k] = OptionOf(x)
         /\ "CHUNKED" \in FieldFlags(h) <=>
              h.name = <<"transfer-encoding">> /\ h.value = <<"chunked">>
         /\ "CONTENTLENGTH" \in FieldFlags(h) <=>
              h.name = <<"content-length">> /\ h.value # <<>>
         /\ "TRAILING" \notin FieldFlags(h)
<1> DEFINE v == h.value
           L == Len(h.value)
           K == Kind(h.name)
<1>1. h.name \in Text /\ v \in Text /\ K \in Names \cup {"general"} /\ L \in Nat
  <2>1. h \in Field
    BY DEF WellFormed
  <2>2. h.name \in Text /\ v \in Text
    BY <2>1, HeaderUnfolds
  <2>3. K \in Names \cup {"general"}
    BY <2>2, KindIs
  <2> QED BY <2>2, <2>3 DEF Text
<1>2. \A x \in Names : h.name = <<x>> <=> K = x
  <2> TAKE x \in Names
  <2>1. h.name = <<x>> => K = x
    BY <1>1, KindIs, Zenon
  <2>2. K = x => h.name = <<x>>
    BY <1>1, KindIs
  <2> QED BY <2>1, <2>2
<1>3. v = <<>> <=> L = 0
  BY <1>1, EmptySeq DEF Text
<1>4. v = <<"chunked">> <=> L = 1 /\ v[1] = "chunked"
  <2>1. ASSUME L = 1, v[1] = "chunked" PROVE v = <<"chunked">>
    <3> DEFINE t == <<"chunked">>
    <3>1. t \in Seq(Symbols) /\ Len(t) = 1 /\ t[1] = "chunked"
      BY DEF Symbols
    <3> HIDE DEF t
    <3>2. \A k \in 1..L : v[k] = t[k]
      BY <2>1, <3>1
    <3> HIDE DEF v
    <3>3. v \in Seq(Symbols) /\ Len(v) = Len(t)
      BY <1>1, <2>1, <3>1 DEF Text, v
    <3>4. v = t
      BY <3>1, <3>2, <3>3, SeqEqual DEF v
    <3> QED BY <3>4 DEF t
  <2> QED BY <2>1
<1>5. /\ "connection" \in Names /\ "content-length" \in Names /\ "transfer-encoding" \in Names
  BY DEF Names
<1> HIDE DEF K
<1>6. CASE L = 0
  <2>1. FieldFlags(h) = {}
    BY <1>3, <1>6 DEF FieldFlags
  <2> QED BY <1>3, <1>4, <1>6, <2>1
<1>7. CASE L # 0 /\ K = "connection"
  <2> DEFINE N == {q \in 1..(L - 1) : v[q + 1] = ","}
             E(k) == HeaderFlag(ElementKind(v, k))
  <2>1. FieldFlags(h) = (UNION {E(k) : k \in N}) \cup E(L)
    BY <1>3, <1>7 DEF FieldFlags, FlagsRead, ValueKind, K
  <2>2. /\ h.name = <<"connection">> /\ h.name # <<"content-length">>
        /\ h.name # <<"transfer-encoding">>
    BY <1>2, <1>5, <1>7
  <2> HIDE DEF N, E
  <2>3. \A f : f \in FieldFlags(h) <=> \E k \in N \cup {L} : f \in E(k)
    BY <2>1
  <2>4. ASSUME NEW k
        PROVE  /\ \A x \in Options : FlagOf(x) \in E(k) <=> Leads(v, k) /\ v[k] = OptionOf(x)
               /\ "CHUNKED" \notin E(k) /\ "CONTENTLENGTH" \notin E(k) /\ "TRAILING" \notin E(k)
    BY HeaderFlagIs, ElementKindIs DEF E
  <2>5. \A k : k \in N \cup {L} <=> k \in 1..L /\ (k = L \/ v[k + 1] = ",")
    <3>1. \A k : k \in 1..L <=> k \in 1..(L - 1) \/ k = L
      BY <1>1, <1>7
    <3>2. \A k : k \in N <=> k \in 1..(L - 1) /\ v[k + 1] = ","
      BY DEF N
    <3> QED BY <3>1, <3>2, Zenon
  <2>6. \A k : Element(v, k) <=> Leads(v, k) /\ (k = L \/ v[k + 1] = ",")
    BY DEF Element, Leads
  <2>7. ASSUME NEW x \in Options
        PROVE  FlagOf(x) \in FieldFlags(h) <=>
                 \E k \in 1..L : Element(v, k) /\ v[k] = OptionOf(x)
    <3>1. FlagOf(x) \in FieldFlags(h) <=> \E k \in N \cup {L} : Leads(v, k) /\ v[k] = OptionOf(x)
      BY <2>3, <2>4
    <3> QED BY <2>5, <2>6, <3>1, Zenon
  <2> QED BY <2>2, <2>3, <2>4, <2>7
<1>8. CASE L # 0 /\ K = "transfer-encoding"
  <2>1. FieldFlags(h) = HeaderFlag(ValueKind(h, L))
    BY <1>3, <1>8 DEF FieldFlags, FlagsRead, K
  <2>2. ValueKind(h, L) = IF L = 1 /\ v[1] = "chunked" THEN "chunked" ELSE "general"
    BY <1>8 DEF ValueKind, K
  <2>3. h.name = <<"transfer-encoding">> /\ h.name # <<"connection">> /\ h.name # <<"content-length">>
    BY <1>2, <1>5, <1>8
  <2>4. \A x \in Options : x # "chunked" /\ x # "general"
    BY DEF Options
  <2> QED BY <1>4, <2>1, <2>2, <2>3, <2>4, HeaderFlagIs
<1>9. CASE L # 0 /\ K = "content-length"
  <2>1. FieldFlags(h) = {"CONTENTLENGTH"} \cup HeaderFlag("content-length")
    BY <1>3, <1>9 DEF FieldFlags, FlagsRead, ValueKind, K
  <2>2. HeaderFlag("content-length") = {}
    BY DEF HeaderFlag
  <2>3. h.name = <<"content-length">> /\ h.name # <<"connection">> /\ h.name # <<"transfer-encoding">>
    BY <1>2, <1>5, <1>9
  <2> QED BY <1>3, <1>9, <2>1, <2>2, <2>3 DEF Options, FlagOf
<1>10. CASE L # 0 /\ K \in {"upgrade", "general"}
  <2>1. FieldFlags(h) \subseteq {"UPGRADE"} \cup HeaderFlag("general")
    BY <1>3, <1>10 DEF FieldFlags, FlagsRead, ValueKind, K
  <2>2. HeaderFlag("general") = {}
    BY DEF HeaderFlag
  <2>3. h.name # <<"connection">> /\ h.name # <<"content-length">> /\ h.name # <<"transfer-encoding">>
    BY <1>2, <1>5, <1>10
  <2> QED BY <2>1, <2>2, <2>3 DEF Options, FlagOf
<1> QED BY <1>1, <1>6, <1>7, <1>8, <1>9, <1>10 DEF Names

\* The flags of some headers, and of one more.
LEMMA HeadFlagsIs ==
  ASSUME NEW headers, NEW j \in Nat
  PROVE  /\ \A f : f \in HeadFlags(headers, j) <=> \E i \in 1..j : f \in FieldFlags(headers[i])
         /\ HeadFlags(headers, 0) = {}
         /\ HeadFlags(headers, j + 1) = HeadFlags(headers, j) \cup FieldFlags(headers[j + 1])
<1>1. \A n : \A f : f \in HeadFlags(headers, n) <=> \E i \in 1..n : f \in FieldFlags(headers[i])
  BY DEF HeadFlags
<1>2. \A i : i \in 1..(j + 1) <=> i \in 1..j \/ i = j + 1
  OBVIOUS
<1>3. HeadFlags(headers, 0) = {}
  BY <1>1
<1>4. \A f : f \in HeadFlags(headers, j + 1) <=>
               f \in HeadFlags(headers, j) \cup FieldFlags(headers[j + 1])
  BY <1>1, <1>2, Zenon
<1> QED BY <1>1, <1>3, <1>4

\* A message of a script: what it says is well formed.
Proper(m) == Sound(m) /\ \A i \in 1..Len(m.headers) : WellFormed(m.headers[i])

\* The messages of a script are proper.
LEMMA ScriptProper ==
  ASSUME NEW s \in Scripts, NEW i \in 1..Len(s)
  PROVE  Proper(s[i])
<1>1. /\ Sound(s[i])
      /\ \A k \in 1..Len(s[i].headers) :
           s[i].headers[k].name = <<"connection">> => ListOfTokens(s[i].headers[k].value)
  BY ScriptType
<1>2. \A k \in 1..Len(s[i].headers) : s[i].headers[k] \in Field
  BY <1>1 DEF Sound, Request
<1> QED BY <1>1, <1>2 DEF Proper, WellFormed

\* The flags of a head say what the message says.
LEMMA FlagsOfHead ==
  ASSUME NEW m, Proper(m), NEW F, F = HeadFlags(m.headers, Len(m.headers))
  PROVE  /\ \A x \in Options : FlagOf(x) \in F <=> Lists(m, OptionOf(x))
         /\ "CHUNKED" \in F <=> m.chunks # <<>>
         /\ "CONTENTLENGTH" \notin F /\ m.chunks = <<>> => m.body = <<>>
         /\ {"CHUNKED", "CONTENTLENGTH"} \subseteq F => Refused(m)
         /\ "TRAILING" \notin F
<1> DEFINE H == m.headers
           n == Len(m.headers)
<1>1. H \in Seq(Field) /\ n \in Nat /\ DOMAIN H = 1..n /\ WellFramed(m)
  BY DEF Proper, Sound, Request
<1>2. \A f : f \in F <=> \E i \in 1..n : f \in FieldFlags(H[i])
  BY <1>1, HeadFlagsIs
<1>3. \A i \in 1..n : WellFormed(H[i]) /\ H[i] \in Field
  BY DEF Proper, WellFormed
<1>4. \A i \in 1..n : DOMAIN H[i].value = 1..Len(H[i].value)
  BY <1>3 DEF Field
<1>5. ASSUME NEW x \in Options PROVE FlagOf(x) \in F <=> Lists(m, OptionOf(x))
  <2>1. FlagOf(x) \in F <=>
          \E i \in 1..n : /\ H[i].name = <<"connection">>
                          /\ \E k \in 1..Len(H[i].value) :
                               Element(H[i].value, k) /\ H[i].value[k] = OptionOf(x)
    <3>1. ASSUME NEW i \in 1..n
          PROVE  FlagOf(x) \in FieldFlags(H[i]) <=>
                   /\ H[i].name = <<"connection">>
                   /\ \E k \in 1..Len(H[i].value) :
                        Element(H[i].value, k) /\ H[i].value[k] = OptionOf(x)
      <4>1. WellFormed(H[i])
        BY <1>3
      <4> QED BY <4>1, FieldFlagsIs, Zenon
    <3> QED BY <1>2, <3>1, Zenon
  <2>2. Lists(m, OptionOf(x)) <=>
          \E i \in 1..n : /\ H[i].name = <<"connection">>
                          /\ \E k \in 1..Len(H[i].value) :
                               Element(H[i].value, k) /\ H[i].value[k] = OptionOf(x)
    BY <1>1, <1>4, Zenon DEF Lists
  <2> QED BY <2>1, <2>2, Zenon
<1>6. \A i \in 1..n :
        /\ "CHUNKED" \in FieldFlags(H[i]) <=>
             H[i].name = <<"transfer-encoding">> /\ H[i].value = <<"chunked">>
        /\ "CONTENTLENGTH" \in FieldFlags(H[i]) <=>
             H[i].name = <<"content-length">> /\ H[i].value # <<>>
        /\ "TRAILING" \notin FieldFlags(H[i])
  BY <1>3, FieldFlagsIs, Zenon
<1>7. HeadersOf(m) = {<<H[i].name, H[i].value>> : i \in 1..n}
  BY <1>1, Zenon DEF HeadersOf
<1>8. "CHUNKED" \in F <=> m.chunks # <<>>
  <2>1. "CHUNKED" \in F <=>
          \E i \in 1..n : H[i].name = <<"transfer-encoding">> /\ H[i].value = <<"chunked">>
    BY <1>2, <1>6, Zenon
  <2>2. <<<<"transfer-encoding">>, <<"chunked">>>> \in HeadersOf(m) <=>
          \E i \in 1..n : H[i].name = <<"transfer-encoding">> /\ H[i].value = <<"chunked">>
    <3> DEFINE a == <<"transfer-encoding">>
               b == <<"chunked">>
    <3> HIDE DEF a, b
    <3>1. <<a, b>> \in HeadersOf(m) <=> \E i \in 1..n : H[i].name = a /\ H[i].value = b
      BY <1>7
    <3> QED BY <3>1 DEF a, b
  <2>3. m.chunks # <<>> <=> <<<<"transfer-encoding">>, <<"chunked">>>> \in HeadersOf(m)
    BY <1>1, Zenon DEF WellFramed
  <2> QED BY <2>1, <2>2, <2>3, Zenon
<1>9. "CONTENTLENGTH" \in F <=>
        \E i \in 1..n : H[i].name = <<"content-length">> /\ H[i].value # <<>>
  BY <1>2, <1>6, Zenon
<1>10. ASSUME "CONTENTLENGTH" \notin F, m.chunks = <<>> PROVE m.body = <<>>
  <2> SUFFICES ASSUME m.body # <<>> PROVE FALSE
    OBVIOUS
  <2>1. Announced(m) # {} /\ \A v \in Announced(m) : v \in Seq(Digits) \ {<<>>}
    BY <1>1, <1>10 DEF WellFramed
  <2>2. PICK i \in 1..n : H[i].name = <<"content-length">>
    BY <1>1, <2>1 DEF Announced
  <2>3. H[i].value \in Announced(m)
    BY <1>1, <2>2 DEF Announced
  <2> QED BY <1>9, <1>10, <2>1, <2>2, <2>3
<1>11. ASSUME {"CHUNKED", "CONTENTLENGTH"} \subseteq F PROVE Refused(m)
  <2>1. PICK i \in 1..n : H[i].name = <<"content-length">>
    BY <1>9, <1>11
  <2>2. PICK k \in 1..n : H[k].name = <<"transfer-encoding">>
    BY <1>2, <1>6, <1>11
  <2>3. <<"content-length">> # <<"transfer-encoding">>
    OBVIOUS
  <2>4. i # k /\ i \in Framing(m) /\ k \in Framing(m)
    BY <1>1, <2>1, <2>2, <2>3 DEF Framing
  <2> QED BY <2>4 DEF Refused
<1> QED BY <1>2, <1>5, <1>6, <1>8, <1>10, <1>11

\* A second length is refused, and so is a length of two digits; a length is
\* that of the body.
LEMMA Lengths ==
  ASSUME NEW m, Proper(m), NEW j \in 1..Len(m.headers), Kind(m.headers[j].name) = "content-length"
  PROVE  /\ m.headers[j].value \in Seq(Digits) /\ m.headers[j].value # <<>>
         /\ "CONTENTLENGTH" \in HeadFlags(m.headers, j - 1) => Refused(m)
         /\ Len(m.headers[j].value) # 1 =>
              Refused(m) /\ ~Fits(10, Value[m.headers[j].value[1]])
         /\ Len(m.headers[j].value) = 1 /\ m.chunks = <<>> =>
              Value[m.headers[j].value[1]] = Len(m.body)
<1> DEFINE H == m.headers
           n == Len(m.headers)
           v == m.headers[j].value
<1>1. H \in Seq(Field) /\ n \in Nat /\ DOMAIN H = 1..n /\ WellFramed(m)
  BY DEF Proper, Sound, Request
<1>2. \A i \in 1..n : WellFormed(H[i]) /\ H[i] \in Field
  BY DEF Proper, WellFormed
<1>3. H[j].name = <<"content-length">>
  <2>1. H[j].name \in Text
    BY <1>2, HeaderUnfolds
  <2> QED BY <2>1, KindIs DEF Names
<1>4. v \in Announced(m)
  BY <1>1, <1>3 DEF Announced
<1>5. v \in Seq(Digits) /\ v # <<>>
  BY <1>1, <1>4 DEF WellFramed
<1>6. Len(v) \in Nat /\ Len(v) # 0
  BY <1>5, EmptySeq
<1>7. ASSUME "CONTENTLENGTH" \in HeadFlags(H, j - 1) PROVE Refused(m)
  <2>1. j - 1 \in Nat
    OBVIOUS
  <2>2. PICK i \in 1..(j - 1) : "CONTENTLENGTH" \in FieldFlags(H[i])
    BY <1>7, <2>1, HeadFlagsIs
  <2>3. i \in 1..n /\ i # j
    BY <1>1
  <2>4. H[i].name = <<"content-length">>
    BY <1>2, <2>2, <2>3, FieldFlagsIs
  <2>5. i \in Framing(m) /\ j \in Framing(m)
    BY <1>1, <1>3, <2>3, <2>4 DEF Framing
  <2> QED BY <2>3, <2>5 DEF Refused
<1>8. IF Len(v) > 1 THEN ~Fits(10, Value[v[1]])
                    ELSE m.chunks = <<>> => Value[v[1]] = Len(m.body)
  <2>1. IF Len(v) > 1 THEN 10 * Value[v[1]] > MaxLength - 10
                      ELSE m.chunks = <<>> => Value[v[1]] = Len(m.body)
    BY <1>1, <1>4, Zenon DEF WellFramed
  <2>2. ASSUME Len(v) > 1 PROVE v[1] \in Digits
    BY <1>5
  <2>3. \A d \in Digits : Value[d] \in Nat
    BY DEF Digits, Value
  <2>4. \A q \in Nat : 10 * q > MaxLength - 10 => ~Fits(10, q)
    BY LengthAssumption DEF Fits
  <2> HIDE DEF v
  <2> QED BY <2>1, <2>2, <2>3, <2>4
<1> HIDE DEF v
<1>9. Len(v) # 1 => Refused(m) /\ ~Fits(10, Value[v[1]])
  <2>1. \A q \in Nat : q # 0 /\ q # 1 => q > 1
    OBVIOUS
  <2>2. Len(v) # 1 => Len(v) > 1
    BY <1>6, <2>1, Zenon
  <2> QED BY <1>4, <1>8, <2>2 DEF Refused
<1>10. Len(v) = 1 /\ m.chunks = <<>> => Value[v[1]] = Len(m.body)
  BY <1>8
<1> QED BY <1>5, <1>7, <1>9, <1>10 DEF v

\* What the parser does at the end of a message is what its head says.
LEMMA HeadSays ==
  ASSUME NEW m, Proper(m), NEW p, p.version = m.version,
         \A x \in Options : FlagOf(x) \in p.flags <=> Lists(m, OptionOf(x))
  PROVE  /\ KeepAlive(p) <=> ~Closes(m)
         /\ Upgrades(p) /\ p.method = m.method => Switches(m)
<1>1. /\ "CONNECTION_CLOSE" \in p.flags <=> Lists(m, "close")
      /\ "CONNECTION_KEEP_ALIVE" \in p.flags <=> Lists(m, "keep-alive")
      /\ "CONNECTION_UPGRADE" \in p.flags <=> Lists(m, "upgrade")
  BY DEF Options, FlagOf, OptionOf
<1> QED BY <1>1 DEF KeepAlive, Closes, Upgrades, Switches

-----------------------------------------------------------------------------
(* The parser and the channel *)

USE StreamsAssumption, LengthAssumption

(* Type correctness *)

\* The limits of the parser are conservative: a digit more still fits.
LEMMA DigitFits ==
  ASSUME NEW base \in {10, 16}, NEW length \in Nat, Fits(base, length),
         NEW digit \in 0..2
  PROVE  base * length + digit \in 0..MaxLength
<1>1. length <= (MaxLength - base) \div base /\ MaxLength \in Nat /\ MaxLength >= 16
  BY DEF Fits
<1>2. CASE base = 10
  BY <1>1, <1>2
<1>3. CASE base = 16
  BY <1>1, <1>3
<1> QED BY <1>2, <1>3

\* Digits have their values.
LEMMA ValueType == \A d \in Digits : Value[d] \in 0..2
BY DEF Value, Digits

\* What is left of the chunk is a part of the stream.
LEMMA SymbolType ==
  ASSUME TypeOK, pos < chunkEnd
  PROVE  Symbol \in Symbols /\ pos + 1 \in 0..chunkEnd
BY DEF TypeOK, Symbol

\* The parts that are marked.
Parts == {"none", "url", "field", "value", "body"}

\* The bytes of a part are symbols of the stream.
LEMMA ExtendType ==
  ASSUME TypeOK, pos < chunkEnd, NEW part \in Parts
  PROVE  /\ Extend(part) \in Mark /\ Extend(part).part = part
         /\ Extend(part).bytes \in Text
<1>1. Symbol \in Symbols
  BY SymbolType
<1>2. <<Symbol>> \in Seq(Symbols) /\ <<>> \in Seq(Symbols)
  BY <1>1
<1> DEFINE old == IF mark.part = part THEN mark.bytes ELSE <<>>
<1>3. old \in Seq(Symbols)
  BY <1>2 DEF TypeOK, Mark, Text
<1> HIDE DEF old
<1>4. old \o <<Symbol>> \in Seq(Symbols)
  BY <1>2, <1>3
<1> QED BY <1>4 DEF Extend, Mark, Parts, Text, old

\* Nothing is marked between two chunks.
LEMMA NoMarkType == NoMark \in Mark /\ NoMark.part = "none"
<1>1. <<>> \in Seq(Symbols)
  OBVIOUS
<1> QED BY <1>1 DEF NoMark, Mark, Text

\* What the callbacks collect of a head are texts.
LEMMA MoveHeaderType ==
  ASSUME NEW c \in HeadParts
  PROVE  MoveHeader(c) \in HeadParts /\ MoveOut(c) \in HeadParts
<1>1. <<>> \in Text
  BY DEF Text
<1>2. /\ c.field \in Text /\ c.value \in Text /\ c.urlOrStatus \in Text
      /\ c.headers \in SUBSET (Text \X Text)
  BY DEF HeadParts
<1> DEFINE headers == {h \in c.headers : h[1] # c.field} \cup {<<c.field, c.value>>}
           field   == IF \E h \in c.headers : h[1] = c.field THEN c.field ELSE <<>>
<1>3. headers \in SUBSET (Text \X Text) /\ field \in Text
  BY <1>1, <1>2
<1>4. c.valueValid =>
        MoveHeader(c) = [c EXCEPT !.headers = headers, !.field = field,
                                  !.value = <<>>, !.valueValid = FALSE]
  BY DEF MoveHeader, HeadParts
<1>5. ~c.valueValid => MoveHeader(c) = c
  BY DEF MoveHeader
<1> HIDE DEF headers, field
<1>6. [c EXCEPT !.headers = headers, !.field = field, !.value = <<>>,
                !.valueValid = FALSE] \in HeadParts
  BY <1>1, <1>3 DEF HeadParts
<1>7. MoveOut(c) \in HeadParts
  BY <1>1 DEF HeadParts, MoveOut
<1> QED BY <1>4, <1>5, <1>6, <1>7

\* ... also when a part is only begun.
LEMMA HeadAfterType ==
  ASSUME TypeOK, NEW part, NEW bytes \in Text
  PROVE  HeadAfter(part, bytes) \in HeadParts
<1>1. channel \in HeadParts /\ MoveHeader(channel) \in HeadParts
  BY MoveHeaderType DEF TypeOK
<1>2. /\ channel.urlOrStatus \o bytes \in Text
      /\ MoveHeader(channel).field \o bytes \in Text
      /\ channel.value \o bytes \in Text
  BY <1>1 DEF HeadParts, Text
<1>3. OnUrl(channel, bytes) \in HeadParts
  BY <1>1, <1>2 DEF OnUrl, HeadParts
<1>4. OnHeaderField(channel, bytes) \in HeadParts
  <2> DEFINE c == MoveHeader(channel)
             f == c.field \o bytes
  <2>1. c \in HeadParts /\ f \in Text
    BY <1>1, <1>2
  <2>2. OnHeaderField(channel, bytes) = [c EXCEPT !.field = f]
    BY <2>1 DEF OnHeaderField, HeadParts
  <2> HIDE DEF c, f
  <2> QED BY <2>1, <2>2 DEF HeadParts
<1>5. OnHeaderValue(channel, bytes) \in HeadParts
  BY <1>1, <1>2 DEF OnHeaderValue, HeadParts
<1>6. CASE part = "url"
  BY <1>3, <1>6 DEF HeadAfter
<1>7. CASE part = "field"
  BY <1>4, <1>7 DEF HeadAfter
<1>8. CASE part = "value"
  BY <1>5, <1>8 DEF HeadAfter
<1>9. CASE part \notin {"url", "field", "value"}
  BY <1>1, <1>9 DEF HeadAfter
<1> QED BY <1>6, <1>7, <1>8, <1>9

-----------------------------------------------------------------------------
(* The inductive invariant *)

\* A body or chunk whose bytes are read has some left, and bytes of a body are
\* marked only there; the flags of the last message are gone when the next
\* begins.  p and m are the parser and the mark.
ParserInv(p, m) ==
  /\ p.state \in {"body_identity", "chunk_data"} => p.contentLength >= 1
  /\ m.part = "body" => p.state \in {"body_identity", "chunk_data", "chunk_data_done"}
  /\ p.state \in {"url_start", "url"} => "TRAILING" \notin p.flags

\* A trailer may change what the response announced, a body of known length
\* has none.
MayDiffer(i) == received[i].chunked /\ received[i].version # "HTTP/1.1"

\* What the response to the message in progress announced, and what the parser
\* will do at its end.
CloseInv ==
  /\ \A i \in 1..(Current - 1) : answers[i].close => MayDiffer(i)
  /\ parser.state = "dead" =>
       Current > 0 /\ (answers[Current].close \/ received[Current].chunked)
  /\ ~InMessage(parser) /\ parser.state # "dead" /\ Current > 0 =>
       (answers[Current].close => MayDiffer(Current))
  /\ InMessage(parser) =>
       /\ received[Current].version = parser.version
       /\ ~received[Current].chunked => parser.state = "body_identity"
       /\ answers[Current].close /\ ~MayDiffer(Current) => ~KeepAlive(parser)
       /\ ~answers[Current].close /\ ~received[Current].chunked => KeepAlive(parser)

\* The messages handled, and the inductive invariant of HttpChannel.
MessageInv == Len(answers) = Len(received) /\ MessagesAreFramed /\ CloseInv

Inv == TypeOK /\ ParserInv(parser, mark) /\ MessageInv

\* Parser p is within the same message: only the flags may grow, and only
\* outside a body of known length.
Keeps(p) ==
  /\ InMessage(p) <=> InMessage(parser)
  /\ p.state = "dead" <=> parser.state = "dead"
  /\ InMessage(parser) =>
       /\ p.version = parser.version
       /\ parser.flags \subseteq p.flags
       /\ p.state = "body_identity" <=> parser.state = "body_identity"
       /\ parser.state = "body_identity" => p.flags = parser.flags

\* The messages are the same but for their bodies.
SameMessages ==
  /\ Len(received') = Len(received)
  /\ \A i \in 1..Len(received) :
       /\ received'[i].version = received[i].version
       /\ received'[i].chunked = received[i].chunked
       /\ received'[i].ended = received[i].ended

\* Within a message nothing changes for the messages before.
LEMMA QuietStep ==
  ASSUME Inv, SameMessages, answers' = answers, Keeps(parser')
  PROVE  MessageInv'
<1> USE DEF Inv
<1>1. Len(received) \in Nat /\ Current' = Current /\ Current = Len(received)
      /\ Len(answers') = Len(answers)
  BY DEF TypeOK, SameMessages, Current
<1>2. MessagesAreFramed'
  <2>1. \A i \in 1..(Current - 1) : i \in 1..Current
    BY <1>1
  <2>2. Current > 0 => Current \in 1..Current
    BY <1>1
  <2>3. \A i \in 1..Current : received'[i].ended = received[i].ended
    BY <1>1 DEF SameMessages
  <2>4. InMessage(parser') <=> InMessage(parser)
    BY DEF Keeps
  <2>5. /\ \A i \in 1..(Current - 1) : received[i].ended
        /\ InMessage(parser) => Current > 0 /\ ~received[Current].ended
        /\ ~InMessage(parser) => Current = 0 \/ received[Current].ended
    BY DEF MessageInv, MessagesAreFramed
  <2>6. Current = 0 \/ Current > 0
    BY <1>1
  <2>7. /\ \A i \in 1..(Current - 1) : received'[i].ended
        /\ InMessage(parser') => Current > 0 /\ ~received'[Current].ended
        /\ ~InMessage(parser') => Current = 0 \/ received'[Current].ended
    BY <2>1, <2>2, <2>3, <2>4, <2>5, <2>6
  <2> QED BY <1>1, <2>7 DEF MessagesAreFramed
<1>3. ASSUME InMessage(parser)
      PROVE  /\ KeepAlive(parser) /\ parser.state = "body_identity" => KeepAlive(parser')
             /\ ~KeepAlive(parser) /\ parser.version = "HTTP/1.1" => ~KeepAlive(parser')
             /\ ~KeepAlive(parser) /\ parser.state = "body_identity" => ~KeepAlive(parser')
  BY <1>3 DEF Keeps, KeepAlive
<1>4. \A i \in 1..Current : MayDiffer(i)' <=> MayDiffer(i)
  BY <1>1 DEF SameMessages, MayDiffer
<1>5. CloseInv'
  <2>1. \A i \in 1..(Current - 1) : i \in 1..Current
    BY <1>1
  <2>2. Current > 0 => Current \in 1..Current
    BY <1>1
  <2>3. InMessage(parser) => Current > 0
    BY DEF MessageInv, MessagesAreFramed
  <2>4. \A i \in 1..(Current' - 1) : answers'[i].close => MayDiffer(i)'
    BY <1>1, <1>4, <2>1 DEF MessageInv, CloseInv
  <2>5. parser'.state = "dead" =>
          Current' > 0 /\ (answers'[Current'].close \/ received'[Current'].chunked)
    BY <1>1, <2>2 DEF MessageInv, CloseInv, Keeps, SameMessages
  <2>6. ~InMessage(parser') /\ parser'.state # "dead" /\ Current' > 0 =>
          (answers'[Current'].close => MayDiffer(Current)')
    BY <1>1, <1>4, <2>2 DEF MessageInv, CloseInv, Keeps
  <2>7. ASSUME InMessage(parser')
        PROVE  /\ received'[Current'].version = parser'.version
               /\ ~received'[Current'].chunked => parser'.state = "body_identity"
               /\ answers'[Current'].close /\ ~MayDiffer(Current)' => ~KeepAlive(parser')
               /\ ~answers'[Current'].close /\ ~received'[Current'].chunked
                    => KeepAlive(parser')
    <3>1. InMessage(parser) /\ Current \in 1..Current
      BY <2>2, <2>3, <2>7 DEF Keeps
    <3>2. /\ received[Current].version = parser.version
          /\ ~received[Current].chunked => parser.state = "body_identity"
          /\ answers[Current].close /\ ~MayDiffer(Current) => ~KeepAlive(parser)
          /\ ~answers[Current].close /\ ~received[Current].chunked => KeepAlive(parser)
      BY <3>1 DEF MessageInv, CloseInv
    <3>3. /\ received'[Current'].version = received[Current].version
          /\ received'[Current'].chunked = received[Current].chunked
          /\ MayDiffer(Current)' <=> MayDiffer(Current)
      BY <1>1, <1>4, <3>1 DEF SameMessages
    <3>4. /\ parser'.version = parser.version
          /\ parser'.state = "body_identity" <=> parser.state = "body_identity"
      BY <3>1 DEF Keeps
    <3>5. ASSUME answers'[Current'].close, ~MayDiffer(Current)' PROVE ~KeepAlive(parser')
      <4>1. ~KeepAlive(parser)
        BY <1>1, <3>2, <3>3, <3>5
      <4>2. parser.state = "body_identity" \/ parser.version = "HTTP/1.1"
        BY <3>2, <3>3, <3>5 DEF MayDiffer
      <4> QED BY <1>3, <3>1, <4>1, <4>2
    <3>6. ASSUME ~answers'[Current'].close, ~received'[Current'].chunked
          PROVE  KeepAlive(parser')
      BY <1>1, <1>3, <3>1, <3>2, <3>3, <3>6
    <3> QED BY <3>2, <3>3, <3>4, <3>5, <3>6
  <2> QED BY <1>1, <2>4, <2>5, <2>6, <2>7 DEF CloseInv, MayDiffer
<1> QED BY <1>1, <1>2, <1>5 DEF MessageInv, Current

-----------------------------------------------------------------------------
(* Steps of the parser within a message *)

\* What a step of the parser leaves alone.
Rest == UNCHANGED <<stream, chunkEnd, isOpen>>

\* Messages that are not touched are the same.
LEMMA Untouched == ASSUME received' = received PROVE SameMessages
BY DEF SameMessages

\* A refused byte ends the chunk and nothing else.
LEMMA FailStep ==
  ASSUME Inv, Rest, NEW error \in Errors, Fail(error)
  PROVE  Inv'
<1> USE DEF Inv, Rest
<1>1. /\ parser' = [parser EXCEPT !.errno = error]
      /\ pos' = chunkEnd /\ mark' = NoMark /\ NoMark \in Mark /\ NoMark.part = "none"
      /\ UNCHANGED <<stream, chunkEnd, isOpen, channel, received, answers>>
  BY NoMarkType DEF Fail
<1>2. /\ parser' \in Parser /\ parser'.state = parser.state
      /\ parser'.contentLength = parser.contentLength
      /\ parser'.flags = parser.flags /\ parser'.version = parser.version
  BY <1>1 DEF TypeOK, Parser
<1>3. InMessage(parser') <=> InMessage(parser)
  BY <1>2 DEF InMessage
<1>4. Keeps(parser')
  BY <1>2, <1>3 DEF Keeps
<1>5. MessageInv'
  BY <1>1, <1>4, Untouched, QuietStep
<1>6. TypeOK'
  BY <1>1, <1>2 DEF TypeOK
<1>7. ParserInv(parser', mark')
  BY <1>1, <1>2 DEF ParserInv
<1> QED BY <1>5, <1>6, <1>7

\* A byte that is read within a message.
LEMMA ReadStep ==
  ASSUME Inv, Rest, pos < chunkEnd, NEW p \in Parser, NEW m \in Mark, Read(p, m),
         channel' \in HeadParts, Keeps(p), ParserInv(p, m)
  PROVE  Inv'
<1> USE DEF Inv, Rest
<1>1. /\ parser' = p /\ mark' = m /\ pos' = pos + 1
      /\ UNCHANGED <<stream, chunkEnd, isOpen, received, answers>>
  BY DEF Read
<1>2. MessageInv'
  BY <1>1, Untouched, QuietStep
<1>3. pos' \in 0..chunkEnd
  BY <1>1, SymbolType
<1>4. TypeOK'
  BY <1>1, <1>3 DEF TypeOK
<1> QED BY <1>1, <1>2, <1>4

\* Inside a head, or a trailer, the state of the parser moves from one of its
\* states to another, and flags are added.
FieldStates == {"field_start", "field", "value_start", "value"}

\* Within the headers, of a head or a trailer, nothing changes for the message.
LEMMA HeadKeeps ==
  ASSUME Inv, parser.state \in FieldStates,
         NEW p \in Parser, NEW m \in Mark, p.state \in FieldStates, m.part # "body",
         p.version = parser.version, parser.flags \subseteq p.flags,
         "TRAILING" \in p.flags <=> "TRAILING" \in parser.flags
  PROVE  Keeps(p) /\ ParserInv(p, m)
<1>1. InMessage(p) <=> InMessage(parser)
  BY DEF FieldStates, InMessage
<1> QED BY <1>1 DEF Keeps, ParserInv, FieldStates

\* What In says, and what may be marked there.
LEMMA InFacts ==
  ASSUME Inv, NEW states, In(states)
  PROVE  /\ pos < chunkEnd /\ parser.state \in states /\ parser.errno = "OK"
         /\ parser \in Parser /\ Symbol \in Symbols /\ channel \in HeadParts
         /\ mark \in Mark /\ mark.bytes \in Text
BY SymbolType DEF Inv, In, TypeOK, Mark

\* The first line of a request, its method and its url.
LEMMA FirstLine == Inv /\ Rest /\ (ReadMethod \/ ReadUrl) => Inv'
<1> SUFFICES ASSUME Inv, Rest, ReadMethod \/ ReadUrl PROVE Inv'
  OBVIOUS
<1>n. NoMark \in Mark /\ NoMark.part = "none"
  BY NoMarkType
<1>1. CASE ReadMethod
  <2>1. In({"start_req"})
    BY <1>1 DEF ReadMethod
  <2>2. /\ pos < chunkEnd /\ parser.state = "start_req" /\ parser \in Parser
        /\ channel \in HeadParts
    BY <2>1, InFacts
  <2>3. CASE Symbol \in Methods /\ Read(Begin(parser), NoMark) /\ UNCHANGED channel
    <3> DEFINE p == Begin(parser)
    <3>1. p \in Parser /\ p.state = "url_start" /\ p.flags = {}
      <4> DEFINE method == Symbol
      <4>1. method \in Methods /\ 0 \in 0..MaxLength
        BY <2>3
      <4>2. p = [parser EXCEPT !.state = "url_start", !.method = method,
                               !.flags = {}, !.contentLength = 0]
        BY DEF Begin
      <4> HIDE DEF p, method
      <4> QED BY <2>2, <4>1, <4>2 DEF Parser, States
    <3> HIDE DEF p
    <3>2. Keeps(p) /\ ParserInv(p, NoMark)
      BY <1>n, <2>2, <3>1 DEF Keeps, InMessage, ParserInv
    <3> QED BY <1>n, <2>2, <2>3, <3>1, <3>2, ReadStep DEF p
  <2>4. CASE Read(parser, NoMark) /\ UNCHANGED channel
    <3>1. Keeps(parser) /\ ParserInv(parser, NoMark)
      BY <1>n, <2>2 DEF Keeps, ParserInv
    <3> QED BY <1>n, <2>2, <2>4, <3>1, ReadStep
  <2>5. CASE Fail("INVALID_METHOD")
    BY <2>5, FailStep DEF Errors
  <2> QED BY <1>1, <2>3, <2>4, <2>5 DEF ReadMethod
<1>2. CASE ReadUrl
  <2>1. In({"url_start", "url"})
    BY <1>2 DEF ReadUrl
  <2>2. /\ pos < chunkEnd /\ parser.state \in {"url_start", "url"} /\ parser \in Parser
        /\ channel \in HeadParts /\ mark.bytes \in Text
        /\ "TRAILING" \notin parser.flags
    BY <2>1, InFacts DEF Inv, ParserInv
  <2>3. CASE /\ EndsUrl
             /\ Read([parser EXCEPT
                   !.state = "field_start",
                   !.version = IF Symbol = Eol THEN "HTTP/0.9" ELSE Symbol], NoMark)
             /\ channel' = HeadAfter("url", mark.bytes)
    <3> DEFINE v == IF Symbol = Eol THEN "HTTP/0.9" ELSE Symbol
               p == [parser EXCEPT !.state = "field_start", !.version = v]
    <3>1. v \in Versions \cup {"HTTP/0.9"}
      BY <2>3 DEF EndsUrl
    <3> HIDE DEF v
    <3>2. p \in Parser /\ p.state = "field_start" /\ p.flags = parser.flags
      BY <2>2, <3>1 DEF Parser, States
    <3> HIDE DEF p
    <3>3. Keeps(p) /\ ParserInv(p, NoMark)
      BY <1>n, <2>2, <3>2 DEF Keeps, InMessage, ParserInv
    <3>4. channel' \in HeadParts
      BY <2>2, <2>3, HeadAfterType DEF Inv
    <3>5. Read(p, NoMark)
      BY <2>3 DEF p, v
    <3> QED BY <1>n, <2>2, <3>2, <3>3, <3>4, <3>5, ReadStep
  <2>4. CASE Read([parser EXCEPT !.state = "url"], Extend("url")) /\ UNCHANGED channel
    <3> DEFINE p == [parser EXCEPT !.state = "url"]
               m == Extend("url")
    <3>1. p \in Parser /\ p.state = "url" /\ p.flags = parser.flags
      BY <2>2 DEF Parser, States
    <3>2. m \in Mark /\ m.part = "url"
      BY <2>2, ExtendType DEF Inv, Parts
    <3> HIDE DEF p, m
    <3>3. Keeps(p) /\ ParserInv(p, m)
      BY <2>2, <3>1, <3>2 DEF Keeps, InMessage, ParserInv
    <3>4. Read(p, m)
      BY <2>4 DEF p, m
    <3> QED BY <2>2, <2>4, <3>1, <3>2, <3>3, <3>4, ReadStep
  <2>5. CASE Fail("INVALID_URL")
    BY <2>5, FailStep DEF Errors
  <2> QED BY <1>2, <2>3, <2>4, <2>5 DEF ReadUrl
<1> QED BY <1>1, <1>2

\* The names and values of a head or trailer.
LEMMA FieldNames == Inv /\ Rest /\ (ReadFieldStart \/ ReadField) => Inv'
<1> SUFFICES ASSUME Inv, Rest, ReadFieldStart \/ ReadField PROVE Inv'
  OBVIOUS
<1>n. NoMark \in Mark /\ NoMark.part = "none"
  BY NoMarkType
<1>1. CASE ReadFieldStart
  <2>1. In({"field_start"})
    BY <1>1 DEF ReadFieldStart
  <2>2. /\ pos < chunkEnd /\ parser.state = "field_start" /\ parser \in Parser
        /\ channel \in HeadParts
    BY <2>1, InFacts
  <2>3. CASE /\ Read([parser EXCEPT
                   !.state = "field",
                   !.headerState = IF Symbol \in Names THEN Symbol ELSE "general"],
                   Extend("field"))
             /\ UNCHANGED channel
    <3> DEFINE h == IF Symbol \in Names THEN Symbol ELSE "general"
               p == [parser EXCEPT !.state = "field", !.headerState = h]
               m == Extend("field")
    <3>1. h \in HeaderStates
      BY DEF Names, HeaderStates
    <3> HIDE DEF h
    <3>2. /\ p \in Parser /\ p.state = "field" /\ p.flags = parser.flags
          /\ p.version = parser.version
      BY <2>2, <3>1 DEF Parser, States
    <3>3. m \in Mark /\ m.part = "field"
      BY <2>2, ExtendType DEF Inv, Parts
    <3> HIDE DEF p, m
    <3>4. Keeps(p) /\ ParserInv(p, m)
      BY <2>2, <3>2, <3>3, HeadKeeps DEF FieldStates
    <3>5. Read(p, m)
      BY <2>3 DEF p, m, h
    <3> QED BY <2>2, <2>3, <3>2, <3>3, <3>4, <3>5, ReadStep
  <2>4. CASE Fail("INVALID_HEADER_TOKEN")
    BY <2>4, FailStep DEF Errors
  <2> QED BY <1>1, <2>3, <2>4 DEF ReadFieldStart
<1>2. CASE ReadField
  <2>1. In({"field"})
    BY <1>2 DEF ReadField
  <2>2. /\ pos < chunkEnd /\ parser.state = "field" /\ parser \in Parser
        /\ channel \in HeadParts /\ mark.bytes \in Text
    BY <2>1, InFacts
  <2>3. CASE /\ Read([parser EXCEPT !.state = "value_start"], NoMark)
             /\ channel' = HeadAfter("field", mark.bytes)
    <3> DEFINE p == [parser EXCEPT !.state = "value_start"]
    <3>1. /\ p \in Parser /\ p.state = "value_start" /\ p.flags = parser.flags
          /\ p.version = parser.version
      BY <2>2 DEF Parser, States
    <3> HIDE DEF p
    <3>2. Keeps(p) /\ ParserInv(p, NoMark)
      BY <1>n, <2>2, <3>1, HeadKeeps DEF FieldStates
    <3>3. channel' \in HeadParts
      BY <2>2, <2>3, HeadAfterType DEF Inv
    <3>4. Read(p, NoMark)
      BY <2>3 DEF p
    <3> QED BY <1>n, <2>2, <3>1, <3>2, <3>3, <3>4, ReadStep
  <2>4. CASE /\ Read([parser EXCEPT !.headerState = "general"], Extend("field"))
             /\ UNCHANGED channel
    <3> DEFINE p == [parser EXCEPT !.headerState = "general"]
               m == Extend("field")
    <3>1. /\ p \in Parser /\ p.state = "field" /\ p.flags = parser.flags
          /\ p.version = parser.version
      BY <2>2 DEF Parser, HeaderStates
    <3>2. m \in Mark /\ m.part = "field"
      BY <2>2, ExtendType DEF Inv, Parts
    <3> HIDE DEF p, m
    <3>3. Keeps(p) /\ ParserInv(p, m)
      BY <2>2, <3>1, <3>2, HeadKeeps DEF FieldStates
    <3>4. Read(p, m)
      BY <2>4 DEF p, m
    <3> QED BY <2>2, <2>4, <3>1, <3>2, <3>3, <3>4, ReadStep
  <2>5. CASE Fail("INVALID_HEADER_TOKEN")
    BY <2>5, FailStep DEF Errors
  <2> QED BY <1>2, <2>3, <2>4, <2>5 DEF ReadField
<1> QED BY <1>1, <1>2

\* The states of a header value are such states, its flags are flags and never
\* the one that tells a trailer.
LEMMA HeaderTypes ==
  ASSUME NEW h \in HeaderStates
  PROVE  /\ ElementState(h) \in HeaderStates /\ ValueState(h) \in HeaderStates
         /\ HeaderFlag(h) \subseteq Flags /\ "TRAILING" \notin HeaderFlag(h)
<1>1. ElementState(h) \in HeaderStates
  <2>1. CASE h = "connection" /\ Symbol \in {"close", "keep-alive"}
    BY <2>1 DEF ElementState, HeaderStates
  <2>2. CASE h = "connection" /\ Symbol = "upgrade"
    BY <2>2 DEF ElementState, HeaderStates
  <2>3. CASE h = "connection" /\ Symbol \notin {"close", "keep-alive", "upgrade"}
    BY <2>3 DEF ElementState, HeaderStates
  <2>4. CASE h = "transfer-encoding" /\ Symbol = "chunked"
    BY <2>4 DEF ElementState, HeaderStates
  <2>5. CASE h # "connection" /\ ~(h = "transfer-encoding" /\ Symbol = "chunked")
    BY <2>5 DEF ElementState, HeaderStates
  <2> QED BY <2>1, <2>2, <2>3, <2>4, <2>5
<1>2. ValueState(h) \in HeaderStates
  <2>1. CASE h \in {"close", "keep-alive", "connection-upgrade", "token"}
    BY <2>1 DEF ValueState, HeaderStates
  <2>2. CASE h = "connection" /\ (IsToken(Symbol) \/ Symbol \in Versions)
    BY <1>1, <2>2 DEF ValueState
  <2>3. CASE /\ h \notin {"close", "keep-alive", "connection-upgrade", "token"}
             /\ ~(h = "connection" /\ (IsToken(Symbol) \/ Symbol \in Versions))
    BY <2>3 DEF ValueState, HeaderStates
  <2> QED BY <2>1, <2>2, <2>3
<1>3. HeaderFlag(h) \subseteq Flags /\ "TRAILING" \notin HeaderFlag(h)
  <2>1. CASE h = "close"
    BY <2>1 DEF HeaderFlag, Flags
  <2>2. CASE h = "keep-alive"
    BY <2>2 DEF HeaderFlag, Flags
  <2>3. CASE h = "connection-upgrade"
    BY <2>3 DEF HeaderFlag, Flags
  <2>4. CASE h = "chunked"
    BY <2>4 DEF HeaderFlag, Flags
  <2>5. CASE h \notin {"close", "keep-alive", "connection-upgrade", "chunked"}
    BY <2>5 DEF HeaderFlag, Flags
  <2> QED BY <2>1, <2>2, <2>3, <2>4, <2>5
<1> QED BY <1>1, <1>2, <1>3

\* A byte of a header that is read.
LEMMA FieldStep ==
  ASSUME Inv, Rest, pos < chunkEnd, parser.state \in FieldStates,
         NEW p \in Parser, NEW m \in Mark, p.state \in FieldStates, m.part # "body",
         p.version = parser.version, parser.flags \subseteq p.flags,
         "TRAILING" \in p.flags <=> "TRAILING" \in parser.flags,
         Read(p, m), channel' \in HeadParts
  PROVE  Inv'
BY HeadKeeps, ReadStep

\* Values that are not numbers, and the end of each value.
LEMMA FieldValues ==
  Inv /\ Rest /\ (ReadEmptyValue \/ ReadValueStart \/ ReadValue \/ ReadValueEnd) => Inv'
<1> SUFFICES ASSUME Inv, Rest,
                    ReadEmptyValue \/ ReadValueStart \/ ReadValue \/ ReadValueEnd
             PROVE  Inv'
  OBVIOUS
<1>n. NoMark \in Mark /\ NoMark.part = "none"
  BY NoMarkType
<1>m. pos < chunkEnd => Extend("value") \in Mark /\ Extend("value").part = "value"
  BY ExtendType DEF Inv, Parts
<1>1. CASE ReadEmptyValue
  <2>1. In({"value_start"})
    BY <1>1 DEF ReadEmptyValue
  <2>2. /\ pos < chunkEnd /\ parser.state \in FieldStates /\ parser \in Parser
        /\ channel \in HeadParts
    BY <2>1, InFacts DEF FieldStates
  <2> DEFINE p == [parser EXCEPT !.state = "field_start"]
  <2>3. /\ p \in Parser /\ p.state \in FieldStates /\ p.flags = parser.flags
        /\ p.version = parser.version
    BY <2>2 DEF Parser, States, FieldStates
  <2>4. Read(p, NoMark) /\ channel' = HeadAfter("value", <<>>)
    BY <1>1 DEF ReadEmptyValue
  <2> HIDE DEF p
  <2>5. channel' \in HeadParts
    <3>1. <<>> \in Text
      BY DEF Text
    <3> QED BY <2>4, <3>1, HeadAfterType DEF Inv
  <2> QED BY <1>n, <2>2, <2>3, <2>4, <2>5, FieldStep
<1>2. CASE ReadValueStart
  <2>1. In({"value_start"})
    BY <1>2 DEF ReadValueStart
  <2>2. /\ pos < chunkEnd /\ parser.state \in FieldStates /\ parser \in Parser
        /\ channel \in HeadParts
    BY <2>1, InFacts DEF FieldStates
  <2> DEFINE h  == ElementState(parser.headerState)
             fl == parser.flags \cup
                     IF parser.headerState = "upgrade" THEN {"UPGRADE"} ELSE {}
             p  == [parser EXCEPT !.state = "value", !.flags = fl, !.headerState = h]
             m  == Extend("value")
  <2>3. Read(p, m) /\ channel' = channel
    BY <1>2 DEF ReadValueStart
  <2>4. parser.headerState \in HeaderStates /\ parser.flags \in SUBSET Flags
    BY <2>2 DEF Parser
  <2>5. h \in HeaderStates
    BY <2>4, HeaderTypes
  <2>6. /\ fl \in SUBSET Flags /\ parser.flags \subseteq fl
        /\ "TRAILING" \in fl <=> "TRAILING" \in parser.flags
    BY <2>4 DEF Flags
  <2> HIDE DEF h, fl
  <2>7. /\ p \in Parser /\ p.state \in FieldStates /\ p.flags = fl
        /\ p.version = parser.version
    BY <2>2, <2>5, <2>6 DEF Parser, States, FieldStates
  <2> HIDE DEF p, m
  <2>8. m \in Mark /\ m.part = "value"
    BY <1>m, <2>2 DEF m
  <2> QED BY <2>2, <2>3, <2>6, <2>7, <2>8, FieldStep
<1>3. CASE ReadValue
  <2>1. In({"value"})
    BY <1>3 DEF ReadValue
  <2>2. /\ pos < chunkEnd /\ parser.state \in FieldStates /\ parser \in Parser
        /\ parser.state = "value" /\ channel \in HeadParts
    BY <2>1, InFacts DEF FieldStates
  <2> DEFINE h  == ValueState(parser.headerState)
             fl == parser.flags \cup ElementFlag(parser.headerState)
             p  == [parser EXCEPT !.flags = fl, !.headerState = h]
             m  == Extend("value")
  <2>3. (Read(p, m) /\ channel' = channel) \/ Fail("INVALID_HEADER_TOKEN")
    BY <1>3 DEF ReadValue
  <2>4. parser.headerState \in HeaderStates /\ parser.flags \in SUBSET Flags
    BY <2>2 DEF Parser
  <2>5. /\ h \in HeaderStates /\ HeaderFlag(parser.headerState) \in SUBSET Flags
        /\ "TRAILING" \notin HeaderFlag(parser.headerState)
    BY <2>4, HeaderTypes
  <2>6. /\ fl \in SUBSET Flags /\ parser.flags \subseteq fl
        /\ "TRAILING" \in fl <=> "TRAILING" \in parser.flags
    BY <2>4, <2>5 DEF ElementFlag
  <2> HIDE DEF h, fl
  <2>7. /\ p \in Parser /\ p.state \in FieldStates /\ p.flags = fl
        /\ p.version = parser.version
    BY <2>2, <2>5, <2>6 DEF Parser, States, FieldStates
  <2> HIDE DEF p, m
  <2>8. m \in Mark /\ m.part = "value"
    BY <1>m, <2>2 DEF m
  <2>9. CASE Read(p, m) /\ channel' = channel
    BY <2>2, <2>6, <2>7, <2>8, <2>9, FieldStep
  <2>10. CASE Fail("INVALID_HEADER_TOKEN")
    BY <2>10, FailStep DEF Errors
  <2> QED BY <2>3, <2>9, <2>10
<1>4. CASE ReadValueEnd
  <2>1. In({"value"})
    BY <1>4 DEF ReadValueEnd
  <2>2. /\ pos < chunkEnd /\ parser.state \in FieldStates /\ parser \in Parser
        /\ mark.bytes \in Text
    BY <2>1, InFacts DEF FieldStates
  <2> DEFINE fl == parser.flags \cup HeaderFlag(parser.headerState)
             p  == [parser EXCEPT !.state = "field_start", !.flags = fl]
  <2>3. Read(p, NoMark) /\ channel' = HeadAfter("value", mark.bytes)
    BY <1>4 DEF ReadValueEnd
  <2>4. parser.headerState \in HeaderStates /\ parser.flags \in SUBSET Flags
    BY <2>2 DEF Parser
  <2>5. /\ HeaderFlag(parser.headerState) \in SUBSET Flags
        /\ "TRAILING" \notin HeaderFlag(parser.headerState)
    BY <2>4, HeaderTypes
  <2>6. /\ fl \in SUBSET Flags /\ parser.flags \subseteq fl
        /\ "TRAILING" \in fl <=> "TRAILING" \in parser.flags
    BY <2>4, <2>5
  <2> HIDE DEF fl
  <2>7. /\ p \in Parser /\ p.state \in FieldStates /\ p.flags = fl
        /\ p.version = parser.version
    BY <2>2, <2>6 DEF Parser, States, FieldStates
  <2> HIDE DEF p
  <2>8. channel' \in HeadParts
    BY <2>2, <2>3, HeadAfterType DEF Inv
  <2> QED BY <1>n, <2>2, <2>3, <2>6, <2>7, <2>8, FieldStep
<1> QED BY <1>1, <1>2, <1>3, <1>4

\* The length of a body: a digit is taken only when the length still fits its
\* integer.
LEMMA FieldLengths == Inv /\ Rest /\ (ReadContentLength \/ ReadLengthDigit) => Inv'
<1> SUFFICES ASSUME Inv, Rest, ReadContentLength \/ ReadLengthDigit PROVE Inv'
  OBVIOUS
<1>m. pos < chunkEnd => Extend("value") \in Mark /\ Extend("value").part = "value"
  BY ExtendType DEF Inv, Parts
<1>1. CASE ReadContentLength
  <2>1. In({"value_start"})
    BY <1>1 DEF ReadContentLength
  <2>2. /\ pos < chunkEnd /\ parser.state \in FieldStates /\ parser \in Parser
        /\ channel \in HeadParts
    BY <2>1, InFacts DEF FieldStates
  <2> DEFINE fl == parser.flags \cup {"CONTENTLENGTH"}
             n  == Value[Symbol]
             p  == [parser EXCEPT !.state = "value", !.flags = fl, !.contentLength = n]
             m  == Extend("value")
  <2>3. CASE Symbol \in Digits /\ Read(p, m) /\ channel' = channel
    <3>1. n \in 0..MaxLength
      <4>1. n \in 0..2
        BY <2>3, ValueType
      <4> HIDE DEF n
      <4> QED BY <4>1
    <3>2. /\ fl \in SUBSET Flags /\ parser.flags \subseteq fl
          /\ "TRAILING" \in fl <=> "TRAILING" \in parser.flags
      BY <2>2 DEF Parser, Flags
    <3> HIDE DEF fl, n
    <3>3. /\ p \in Parser /\ p.state \in FieldStates /\ p.flags = fl
          /\ p.version = parser.version
      BY <2>2, <3>1, <3>2 DEF Parser, States, FieldStates
    <3> HIDE DEF p, m
    <3>4. m \in Mark /\ m.part = "value"
      BY <1>m, <2>2 DEF m
    <3> QED BY <2>2, <2>3, <3>2, <3>3, <3>4, FieldStep
  <2>4. CASE Fail("INVALID_CONTENT_LENGTH")
    BY <2>4, FailStep DEF Errors
  <2>5. CASE Fail("UNEXPECTED_CONTENT_LENGTH")
    BY <2>5, FailStep DEF Errors
  <2> QED BY <1>1, <2>3, <2>4, <2>5 DEF ReadContentLength
<1>2. CASE ReadLengthDigit
  <2>1. In({"value"})
    BY <1>2 DEF ReadLengthDigit
  <2>2. /\ pos < chunkEnd /\ parser.state \in FieldStates /\ parser \in Parser
        /\ channel \in HeadParts
    BY <2>1, InFacts DEF FieldStates
  <2> DEFINE n == 10 * parser.contentLength + Value[Symbol]
             p == [parser EXCEPT !.contentLength = n]
             m == Extend("value")
  <2>3. CASE /\ Symbol \in Digits /\ Fits(10, parser.contentLength)
             /\ Read(p, m) /\ channel' = channel
    <3>1. n \in 0..MaxLength
      <4> DEFINE d == Value[Symbol]
                 length == parser.contentLength
      <4>1. d \in 0..2 /\ length \in Nat
        BY <2>2, <2>3, ValueType DEF Parser
      <4> HIDE DEF d, length
      <4>2. Fits(10, length)
        BY <2>3 DEF length
      <4>3. 10 * length + d \in 0..MaxLength
        BY <4>1, <4>2, DigitFits
      <4> QED BY <4>3 DEF d, length
    <3> HIDE DEF n
    <3>2. /\ p \in Parser /\ p.state \in FieldStates /\ p.flags = parser.flags
          /\ p.version = parser.version
      BY <2>2, <3>1 DEF Parser
    <3> HIDE DEF p, m
    <3>3. m \in Mark /\ m.part = "value"
      BY <1>m, <2>2 DEF m
    <3> QED BY <2>2, <2>3, <3>2, <3>3, FieldStep
  <2>4. CASE Fail(IF Symbol = Bad THEN "INVALID_HEADER_TOKEN"
                                  ELSE "INVALID_CONTENT_LENGTH")
    <3> DEFINE e == IF Symbol = Bad THEN "INVALID_HEADER_TOKEN"
                                    ELSE "INVALID_CONTENT_LENGTH"
    <3>1. e \in Errors
      BY DEF Errors
    <3> HIDE DEF e
    <3>2. Fail(e)
      BY <2>4 DEF e
    <3> QED BY <3>1, <3>2, FailStep
  <2> QED BY <1>2, <2>3, <2>4 DEF ReadLengthDigit
<1> QED BY <1>1, <1>2

-----------------------------------------------------------------------------
(* Bodies *)

\* States in a body of chunks.
ChunkStates == {"chunk_size_start", "chunk_size", "chunk_data", "chunk_data_done"}

\* Between the chunks of a body, up to the trailer.
LEMMA ChunkKeeps ==
  ASSUME Inv, parser.state \in ChunkStates, NEW p \in Parser,
         p.version = parser.version, parser.flags \subseteq p.flags,
         \/ p.state \in ChunkStates
         \/ p.state = "field_start" /\ "TRAILING" \in p.flags
  PROVE  Keeps(p)
<1>1. InMessage(p) /\ InMessage(parser)
  BY DEF ChunkStates, InMessage
<1> QED BY <1>1 DEF Keeps, ChunkStates

\* Bytes of a body go to the message in progress.
LEMMA BodyFacts ==
  ASSUME Inv, InMessage(parser), NEW bytes \in Text
  PROVE  /\ Current \in 1..Len(received)
         /\ OnBody(bytes) \in Seq(Message) /\ Len(OnBody(bytes)) = Len(received)
         /\ OnEnd(bytes) \in Seq(Message) /\ Len(OnEnd(bytes)) = Len(received)
         /\ \A i \in 1..Len(received) :
              /\ OnBody(bytes)[i].version = received[i].version
              /\ OnBody(bytes)[i].chunked = received[i].chunked
              /\ OnBody(bytes)[i].ended = received[i].ended
              /\ OnEnd(bytes)[i].version = received[i].version
              /\ OnEnd(bytes)[i].chunked = received[i].chunked
              /\ OnEnd(bytes)[i].ended = (received[i].ended \/ i = Current)
<1>1. Current > 0 /\ received \in Seq(Message) /\ Current = Len(received)
  BY DEF Inv, MessageInv, MessagesAreFramed, TypeOK, Current
<1>2. Current \in 1..Len(received) /\ Len(received) \in Nat
  BY <1>1
<1> DEFINE r == received[Current]
           b == r.body \o bytes
           r1 == [r EXCEPT !.body = b]
           r2 == [r EXCEPT !.body = b, !.ended = TRUE]
<1>3. r \in Message
  BY <1>1, <1>2
<1>4. b \in Text
  BY <1>3 DEF Message, Text
<1>5. OnBody(bytes) = [received EXCEPT ![Current] = r1]
  BY <1>1, <1>2 DEF OnBody
<1>6. OnEnd(bytes) = [received EXCEPT ![Current] = r2]
  BY <1>1, <1>2, <1>3 DEF OnEnd, Message
<1> HIDE DEF b
<1>7. /\ r1 \in Message /\ r1.version = r.version /\ r1.chunked = r.chunked
      /\ r1.ended = r.ended
  BY <1>3, <1>4 DEF Message
<1>8. /\ r2 \in Message /\ r2.version = r.version /\ r2.chunked = r.chunked
      /\ r2.ended = TRUE
  BY <1>3, <1>4 DEF Message
<1> HIDE DEF r1, r2
<1>9. /\ [received EXCEPT ![Current] = r1] \in Seq(Message)
      /\ Len([received EXCEPT ![Current] = r1]) = Len(received)
      /\ \A i \in 1..Len(received) :
           [received EXCEPT ![Current] = r1][i] = IF i = Current THEN r1 ELSE received[i]
  BY <1>1, <1>2, <1>7
<1>10. /\ [received EXCEPT ![Current] = r2] \in Seq(Message)
       /\ Len([received EXCEPT ![Current] = r2]) = Len(received)
       /\ \A i \in 1..Len(received) :
            [received EXCEPT ![Current] = r2][i] = IF i = Current THEN r2 ELSE received[i]
  BY <1>1, <1>2, <1>8
<1>11. \A i \in 1..Len(received) : received[i].ended \in BOOLEAN
  <2>1. \A i \in 1..Len(received) : received[i] \in Message
    BY <1>1
  <2> QED BY <2>1 DEF Message
<1>12. \A i \in 1..Len(received) :
              /\ OnBody(bytes)[i].version = received[i].version
              /\ OnBody(bytes)[i].chunked = received[i].chunked
              /\ OnBody(bytes)[i].ended = received[i].ended
  BY <1>5, <1>7, <1>9 DEF r
<1>13. \A i \in 1..Len(received) :
              /\ OnEnd(bytes)[i].version = received[i].version
              /\ OnEnd(bytes)[i].chunked = received[i].chunked
              /\ OnEnd(bytes)[i].ended = (received[i].ended \/ i = Current)
  BY <1>6, <1>8, <1>10, <1>11 DEF r
<1> QED BY <1>2, <1>5, <1>6, <1>9, <1>10, <1>12, <1>13

\* Chunks of a body, and the empty lines behind the last message.
LEMMA Chunks ==
  Inv /\ Rest /\ (ReadChunkSize \/ ReadChunkHeader \/ ReadChunkData \/ ReadDead) => Inv'
<1> SUFFICES ASSUME Inv, Rest,
                    ReadChunkSize \/ ReadChunkHeader \/ ReadChunkData \/ ReadDead
             PROVE  Inv'
  OBVIOUS
<1>n. NoMark \in Mark /\ NoMark.part = "none"
  BY NoMarkType
<1>1. CASE ReadChunkSize
  <2>1. In({"chunk_size_start", "chunk_size"})
    BY <1>1 DEF ReadChunkSize
  <2>2. /\ pos < chunkEnd /\ parser.state \in ChunkStates /\ parser \in Parser
        /\ channel \in HeadParts
    BY <2>1, InFacts DEF ChunkStates
  <2> DEFINE first == parser.state = "chunk_size_start"
             n == (IF first THEN 0 ELSE 16 * parser.contentLength) + Value[Symbol]
             p == [parser EXCEPT !.state = "chunk_size", !.contentLength = n]
  <2>3. CASE /\ Symbol \in Digits /\ (first \/ Fits(16, parser.contentLength))
             /\ Read(p, NoMark) /\ channel' = channel
    <3>1. n \in 0..MaxLength
      <4> DEFINE d == Value[Symbol]
                 length == parser.contentLength
      <4>1. d \in 0..2 /\ length \in Nat
        <5>1. Symbol \in Digits
          BY <2>3
        <5>2. length \in 0..MaxLength
          BY <2>2 DEF Parser
        <5>3. d \in 0..2
          BY <5>1, ValueType
        <5> HIDE DEF d, length
        <5> QED BY <5>2, <5>3
      <4> HIDE DEF d, length
      <4>2. first \/ Fits(16, length)
        BY <2>3 DEF length
      <4>3. ~first => 16 * length + d \in 0..MaxLength
        BY <4>1, <4>2, DigitFits
      <4>4. n = IF first THEN d ELSE 16 * length + d
        BY <4>1 DEF d, length
      <4> QED BY <4>1, <4>3, <4>4
    <3> HIDE DEF n
    <3>2. /\ p \in Parser /\ p.state = "chunk_size" /\ p.flags = parser.flags
          /\ p.version = parser.version
      BY <2>2, <3>1 DEF Parser, States
    <3> HIDE DEF p
    <3>3. Keeps(p) /\ ParserInv(p, NoMark)
      BY <1>n, <2>2, <3>2, ChunkKeeps DEF ChunkStates, ParserInv
    <3> QED BY <1>n, <2>2, <2>3, <3>2, <3>3, ReadStep
  <2>4. CASE Fail("INVALID_CHUNK_SIZE")
    BY <2>4, FailStep DEF Errors
  <2>5. CASE Fail("INVALID_CONTENT_LENGTH")
    BY <2>5, FailStep DEF Errors
  <2> QED BY <1>1, <2>3, <2>4, <2>5 DEF ReadChunkSize
<1>2. CASE ReadChunkHeader
  <2>1. In({"chunk_size"})
    BY <1>2 DEF ReadChunkHeader
  <2>2. /\ pos < chunkEnd /\ parser.state \in ChunkStates /\ parser \in Parser
        /\ channel \in HeadParts /\ channel' = channel
    BY <1>2, <2>1, InFacts DEF ChunkStates, ReadChunkHeader
  <2>3. CASE parser.contentLength = 0
    <3> DEFINE fl == parser.flags \cup {"TRAILING"}
               p == [parser EXCEPT !.state = "field_start", !.flags = fl]
    <3>1. Read(p, NoMark)
      BY <1>2, <2>3 DEF ReadChunkHeader
    <3>2. fl \in SUBSET Flags /\ parser.flags \subseteq fl /\ "TRAILING" \in fl
      BY <2>2 DEF Parser, Flags
    <3> HIDE DEF fl
    <3>3. /\ p \in Parser /\ p.state = "field_start" /\ p.flags = fl
          /\ p.version = parser.version
      BY <2>2, <3>2 DEF Parser, States
    <3> HIDE DEF p
    <3>4. Keeps(p) /\ ParserInv(p, NoMark)
      BY <1>n, <2>2, <3>2, <3>3, ChunkKeeps DEF ParserInv
    <3> QED BY <1>n, <2>2, <3>1, <3>3, <3>4, ReadStep
  <2>4. CASE parser.contentLength # 0
    <3> DEFINE p == [parser EXCEPT !.state = "chunk_data"]
    <3>1. Read(p, NoMark)
      BY <1>2, <2>4 DEF ReadChunkHeader
    <3>2. /\ p \in Parser /\ p.state = "chunk_data" /\ p.flags = parser.flags
          /\ p.version = parser.version /\ p.contentLength = parser.contentLength
      BY <2>2 DEF Parser, States
    <3>3. p.contentLength >= 1
      <4>1. parser.contentLength \in Nat
        BY <2>2 DEF Parser
      <4> QED BY <2>4, <3>2, <4>1
    <3> HIDE DEF p
    <3>4. Keeps(p) /\ ParserInv(p, NoMark)
      BY <1>n, <2>2, <3>2, <3>3, ChunkKeeps DEF ParserInv, ChunkStates
    <3> QED BY <1>n, <2>2, <3>1, <3>2, <3>4, ReadStep
  <2> QED BY <2>3, <2>4
<1>3. CASE ReadChunkData
  <2>1. In({"chunk_data"})
    BY <1>3 DEF ReadChunkData
  <2>2. /\ pos < chunkEnd /\ parser.state = "chunk_data" /\ parser \in Parser
        /\ channel \in HeadParts /\ channel' = channel
    BY <1>3, <2>1, InFacts DEF ReadChunkData
  <2> DEFINE n  == parser.contentLength - 1
             st == IF parser.contentLength = 1 THEN "chunk_data_done" ELSE parser.state
             p  == [parser EXCEPT !.contentLength = n, !.state = st]
             m  == Extend("body")
  <2>3. Read(p, m)
    BY <1>3 DEF ReadChunkData
  <2>4. parser.contentLength \in 0..MaxLength /\ parser.contentLength >= 1
    BY <2>2 DEF Parser, Inv, ParserInv
  <2>5. n \in 0..MaxLength
    BY <2>4
  <2>6. st \in {"chunk_data", "chunk_data_done"} /\ (st = "chunk_data" => n >= 1)
    BY <2>2, <2>4
  <2> HIDE DEF n, st
  <2>7. /\ p \in Parser /\ p.state = st /\ p.flags = parser.flags
        /\ p.version = parser.version /\ p.contentLength = n
    BY <2>2, <2>5, <2>6 DEF Parser, States
  <2>8. m \in Mark
    BY <2>2, ExtendType DEF Inv, Parts
  <2> HIDE DEF p, m
  <2>9. Keeps(p) /\ ParserInv(p, m)
    BY <2>2, <2>6, <2>7, ChunkKeeps DEF ParserInv, ChunkStates
  <2> QED BY <2>2, <2>3, <2>7, <2>8, <2>9, ReadStep
<1>4. CASE ReadDead
  <2>1. In({"dead"})
    BY <1>4 DEF ReadDead
  <2>2. /\ pos < chunkEnd /\ parser.state = "dead" /\ parser \in Parser
        /\ channel \in HeadParts
    BY <2>1, InFacts
  <2>3. CASE Read(parser, NoMark) /\ UNCHANGED channel
    <3>1. Keeps(parser) /\ ParserInv(parser, NoMark)
      BY <1>n, <2>2 DEF Keeps, ParserInv
    <3> QED BY <1>n, <2>2, <2>3, <3>1, ReadStep
  <2>4. CASE Fail("CLOSED_CONNECTION")
    BY <2>4, FailStep DEF Errors
  <2> QED BY <1>4, <2>3, <2>4 DEF ReadDead
<1> QED BY <1>1, <1>2, <1>3, <1>4

-----------------------------------------------------------------------------
(* The end of a message *)

\* After a message the parser is ready for the next or refuses it.
LEMMA NewMessageFacts ==
  ASSUME NEW p
  PROVE  /\ NewMessage(p) \in {"start_req", "dead"}
         /\ NewMessage(p) = "dead" <=> ~KeepAlive(p)
BY DEF NewMessage

\* KeepAlive is a matter of the version and the flags.
LEMMA SameKeepAlive ==
  ASSUME NEW p, NEW q, p.version = q.version, p.flags = q.flags
  PROVE  KeepAlive(p) <=> KeepAlive(q)
BY DEF KeepAlive

\* The end of a message with a body: what its response announced happens.
LEMMA EndStep ==
  ASSUME Inv, Rest, pos < chunkEnd, InMessage(parser),
         NEW p \in Parser, p.flags = parser.flags, p.version = parser.version,
         NEW bytes \in Text, EndMessage(p, bytes)
  PROVE  Inv'
<1> USE DEF Inv, Rest
<1> DEFINE st == NewMessage(p)
<1>c. PICK c : c = Current
  OBVIOUS
<1>1. /\ received' = OnEnd(bytes) /\ parser' = [p EXCEPT !.state = st]
      /\ mark' = NoMark /\ Leave(parser.upgrade)
      /\ channel' = channel /\ answers' = answers
      /\ UNCHANGED <<stream, chunkEnd, isOpen>>
  BY DEF EndMessage
<1>2. st \in {"start_req", "dead"} /\ (st = "dead" <=> ~KeepAlive(parser))
  BY NewMessageFacts, SameKeepAlive
<1> HIDE DEF st
<1>3. /\ parser' \in Parser /\ parser'.state = st
  BY <1>1, <1>2 DEF Parser, States
<1>4. /\ c \in 1..Len(received) /\ received' \in Seq(Message)
      /\ Len(received') = Len(received) /\ Len(received) \in Nat
      /\ \A i \in 1..Len(received) :
           /\ received'[i].version = received[i].version
           /\ received'[i].chunked = received[i].chunked
           /\ received'[i].ended = (received[i].ended \/ i = c)
  BY <1>1, <1>c, BodyFacts DEF TypeOK
<1>5. Current' = c /\ c = Len(received)
  BY <1>4, <1>c DEF Current
<1>6. pos' \in 0..chunkEnd
  BY <1>1, SymbolType DEF Leave, TypeOK
<1>7. TypeOK'
  BY <1>1, <1>3, <1>4, <1>6, NoMarkType DEF TypeOK
<1>8. ~InMessage(parser')
  BY <1>2, <1>3 DEF InMessage
<1>9. \A i \in 1..(c - 1) : i \in 1..c
  BY <1>4
<1>10. MessagesAreFramed'
  <2>1. \A i \in 1..(c - 1) : received[i].ended
    BY <1>c DEF MessageInv, MessagesAreFramed
  <2>2. \A i \in 1..(c - 1) : received'[i].ended
    BY <1>4, <1>5, <1>9, <2>1
  <2>3. received'[c].ended
    BY <1>4
  <2> QED BY <1>5, <1>8, <2>2, <2>3 DEF MessagesAreFramed
<1>11. \A i \in 1..c : MayDiffer(i)' <=> MayDiffer(i)
  BY <1>4, <1>5 DEF MayDiffer
<1>12. CloseInv'
  <2>1. /\ \A i \in 1..(c - 1) : answers[i].close => MayDiffer(i)
        /\ answers[c].close /\ ~MayDiffer(c) => ~KeepAlive(parser)
        /\ ~answers[c].close /\ ~received[c].chunked => KeepAlive(parser)
    BY <1>c, <1>5 DEF MessageInv, CloseInv
  <2>2. \A i \in 1..(c - 1) : answers'[i].close => MayDiffer(i)'
    BY <1>1, <1>9, <1>11, <2>1
  <2>3. parser'.state = "dead" =>
          c > 0 /\ (answers'[c].close \/ received'[c].chunked)
    BY <1>1, <1>2, <1>3, <1>4, <2>1
  <2>4. parser'.state # "dead" => (answers'[c].close => MayDiffer(c)')
    BY <1>1, <1>2, <1>3, <1>4, <1>5, <1>11, <2>1
  <2> QED BY <1>5, <1>8, <2>2, <2>3, <2>4 DEF CloseInv, MayDiffer
<1>13. MessageInv'
  BY <1>1, <1>4, <1>10, <1>12 DEF MessageInv
<1>14. ParserInv(parser', mark')
  BY <1>1, <1>2, <1>3, NoMarkType DEF ParserInv
<1> QED BY <1>7, <1>13, <1>14

\* Bodies of known length, the end of a chunk and of a trailer.
LEMMA Endings == Inv /\ Rest /\ (ReadBody \/ EndChunkData \/ EndTrailer) => Inv'
<1> SUFFICES ASSUME Inv, Rest, ReadBody \/ EndChunkData \/ EndTrailer PROVE Inv'
  OBVIOUS
<1>1. CASE ReadBody
  <2>1. In({"body_identity"})
    BY <1>1 DEF ReadBody
  <2>2. /\ pos < chunkEnd /\ parser.state = "body_identity" /\ parser \in Parser
        /\ channel \in HeadParts /\ InMessage(parser)
    BY <2>1, InFacts DEF InMessage
  <2>3. Extend("body") \in Mark /\ Extend("body").bytes \in Text
    BY <2>2, ExtendType DEF Inv, Parts
  <2>4. CASE /\ parser.contentLength > 1
             /\ Read([parser EXCEPT !.contentLength = @ - 1], Extend("body"))
             /\ UNCHANGED channel
    <3> DEFINE n == parser.contentLength - 1
               p == [parser EXCEPT !.contentLength = n]
               m == Extend("body")
    <3>1. Read(p, m)
      BY <2>2, <2>4 DEF Parser
    <3>2. n \in 0..MaxLength /\ n >= 1
      BY <2>2, <2>4 DEF Parser
    <3> HIDE DEF n
    <3>3. /\ p \in Parser /\ p.state = "body_identity" /\ p.flags = parser.flags
          /\ p.version = parser.version /\ p.contentLength = n
      BY <2>2, <3>2 DEF Parser
    <3> HIDE DEF p
    <3>4. InMessage(p)
      BY <3>3 DEF InMessage
    <3>5. Keeps(p) /\ ParserInv(p, m)
      BY <2>2, <3>2, <3>3, <3>4 DEF Keeps, ParserInv
    <3> HIDE DEF m
    <3>6. m \in Mark
      BY <2>3 DEF m
    <3> QED BY <2>2, <2>4, <3>1, <3>3, <3>5, <3>6, ReadStep
  <2>5. CASE EndMessage([parser EXCEPT !.contentLength = 0], Extend("body").bytes)
    <3> DEFINE p == [parser EXCEPT !.contentLength = 0]
               b == Extend("body").bytes
    <3>1. /\ p \in Parser /\ p.flags = parser.flags /\ p.version = parser.version
      <4>1. 0 \in 0..MaxLength
        OBVIOUS
      <4> QED BY <2>2, <4>1 DEF Parser
    <3>2. EndMessage(p, b) /\ b \in Text
      BY <2>3, <2>5
    <3> HIDE DEF p, b
    <3> QED BY <2>2, <3>1, <3>2, EndStep
  <2> QED BY <1>1, <2>4, <2>5 DEF ReadBody
<1>2. CASE EndChunkData
  <2>1. In({"chunk_data_done"})
    BY <1>2 DEF EndChunkData
  <2>2. /\ pos < chunkEnd /\ parser.state = "chunk_data_done" /\ parser \in Parser
        /\ channel \in HeadParts /\ InMessage(parser) /\ mark.bytes \in Text
    BY <2>1, InFacts DEF InMessage
  <2>3. CASE Fail("STRICT")
    BY <2>3, FailStep DEF Errors
  <2>4. CASE ~Fail("STRICT")
    <3>1. /\ pos' = pos + 1 /\ mark' = NoMark
          /\ parser' = [parser EXCEPT !.state = "chunk_size_start"]
          /\ received' = IF mark.part = "body" THEN OnBody(mark.bytes) ELSE received
          /\ channel' = channel /\ answers' = answers
      BY <1>2, <2>4 DEF EndChunkData
    <3>2. /\ parser' \in Parser /\ parser'.state = "chunk_size_start"
          /\ parser'.flags = parser.flags /\ parser'.version = parser.version
      BY <2>2, <3>1 DEF Parser, States
    <3>3. Keeps(parser')
      BY <2>2, <3>2, ChunkKeeps DEF ChunkStates
    <3>4. SameMessages /\ received' \in Seq(Message)
      <4>1. CASE mark.part = "body"
        BY <2>2, <3>1, <4>1, BodyFacts DEF SameMessages
      <4>2. CASE mark.part # "body"
        BY <3>1, <4>2, Untouched DEF Inv, TypeOK
      <4> QED BY <4>1, <4>2
    <3>5. MessageInv'
      BY <3>1, <3>3, <3>4, QuietStep
    <3>6. pos' \in 0..chunkEnd
      BY <2>2, <3>1, SymbolType DEF Inv
    <3>7. TypeOK'
      BY <3>1, <3>2, <3>4, <3>6, NoMarkType DEF Inv, TypeOK, Rest
    <3>8. ParserInv(parser', mark')
      BY <3>1, <3>2, NoMarkType DEF ParserInv
    <3> QED BY <3>5, <3>7, <3>8 DEF Inv
  <2> QED BY <2>3, <2>4
<1>3. CASE EndTrailer
  <2>1. In({"field_start"}) /\ "TRAILING" \in parser.flags /\ EndMessage(parser, <<>>)
    BY <1>3 DEF EndTrailer, HeadEnds
  <2>2. /\ pos < chunkEnd /\ parser.state = "field_start" /\ parser \in Parser
    BY <2>1, InFacts
  <2>3. InMessage(parser) /\ <<>> \in Text
    BY <2>1, <2>2 DEF InMessage, Text
  <2> QED BY <2>1, <2>2, <2>3, EndStep
<1> QED BY <1>1, <1>2, <1>3

\* The end of a head: a message begins, with its answer; what the last message
\* announced was that more may follow.
LEMMA HeadStep ==
  ASSUME Inv, Rest, pos < chunkEnd, parser.state = "field_start",
         "TRAILING" \notin parser.flags, CompleteHead
  PROVE  Inv'
<1> USE DEF Inv, Rest
<1> DEFINE c       == MoveHeader(channel)
           hasBody == Chunked(parser) \/ parser.contentLength > 0
           upgrade == Upgrades(parser)
           ends    == ~hasBody \/ parser.method = "CONNECT"
           st      == CASE ends -> NewMessage(parser)
                        [] ~ends /\ Chunked(parser) -> "chunk_size_start"
                        [] OTHER -> "body_identity"
           message == [method |-> parser.method, url |-> c.urlOrStatus,
                       headers |-> c.headers, version |-> parser.version,
                       chunked |-> Chunked(parser), body |-> <<>>, ended |-> ends]
<1>1. PICK found \in BOOLEAN :
        /\ channel' = MoveOut(c) /\ received' = Append(received, message)
        /\ answers' = Append(answers, Answer(parser, c.urlOrStatus, found))
        /\ parser' = [parser EXCEPT !.upgrade = upgrade, !.state = st]
        /\ mark' = NoMark /\ Leave(ends /\ upgrade)
  BY DEF CompleteHead
<1> DEFINE answer == Answer(parser, c.urlOrStatus, found)
<1>2. parser \in Parser /\ channel \in HeadParts /\ received \in Seq(Message)
      /\ answers \in Seq(Response)
  BY DEF TypeOK
<1>3. c \in HeadParts /\ channel' \in HeadParts
  <2>1. c \in HeadParts
    BY <1>2, MoveHeaderType
  <2> HIDE DEF c
  <2> QED BY <1>1, <2>1, MoveHeaderType
<1>4. /\ ends \in BOOLEAN /\ upgrade \in BOOLEAN /\ Chunked(parser) \in BOOLEAN
      /\ KeepAlive(parser) \in BOOLEAN
  <2>1. Chunked(parser) \in BOOLEAN
    BY DEF Chunked
  <2>2. upgrade \in BOOLEAN
    BY DEF Upgrades
  <2>3. ends \in BOOLEAN
    <3> HIDE DEF hasBody
    <3> QED OBVIOUS
  <2>4. KeepAlive(parser) \in BOOLEAN
    <3>1. CASE parser.version = "HTTP/1.1"
      BY <3>1 DEF KeepAlive
    <3>2. CASE parser.version # "HTTP/1.1"
      BY <3>2 DEF KeepAlive
    <3> QED BY <3>1, <3>2
  <2> QED BY <2>1, <2>2, <2>3, <2>4
<1>5. message \in Message /\ message.version = parser.version
      /\ message.chunked = Chunked(parser) /\ message.ended = ends
  <2>1. <<>> \in Text /\ c.urlOrStatus \in Text /\ c.headers \in SUBSET (Text \X Text)
    BY <1>3 DEF Text, HeadParts
  <2>2. parser.method \in Methods \cup {"none"} /\ parser.version \in Versions \cup {"HTTP/0.9"}
    BY <1>2 DEF Parser
  <2> HIDE DEF c, ends
  <2> QED BY <1>4, <2>1, <2>2 DEF Message
<1>6. answer \in Response /\ answer.close = ~KeepAlive(parser)
  <2> DEFINE ok == found /\ c.urlOrStatus \in NodeUrls /\ parser.method \in {"GET", "POST"}
  <2>1. ok \in BOOLEAN
    OBVIOUS
  <2>2. answer = [status |-> IF ok THEN 200 ELSE 404,
                  content |-> ok /\ parser.method = "GET",
                  close |-> ~KeepAlive(parser)]
    BY DEF Answer
  <2> HIDE DEF ok, answer
  <2> QED BY <1>4, <2>1, <2>2 DEF Response
<1>7. /\ ends => st = NewMessage(parser)
      /\ ~ends => st \in {"chunk_size_start", "body_identity"}
      /\ st = "body_identity" => ~Chunked(parser) /\ parser.contentLength > 0
      /\ st = "chunk_size_start" => Chunked(parser)
  <2>1. CASE ends
    <3>1. st = NewMessage(parser)
      BY <2>1
    <3> HIDE DEF st
    <3> QED BY <2>1, <3>1, NewMessageFacts
  <2>2. CASE ~ends /\ Chunked(parser)
    <3>1. st = "chunk_size_start"
      BY <2>2
    <3> HIDE DEF st
    <3> QED BY <2>2, <3>1
  <2>3. CASE ~ends /\ ~Chunked(parser)
    <3>1. st = "body_identity"
      BY <2>3
    <3>2. parser.contentLength > 0
      BY <2>3
    <3> HIDE DEF st
    <3> QED BY <2>3, <3>1, <3>2
  <2> QED BY <1>4, <2>1, <2>2, <2>3
<1>8. st \in {"start_req", "dead", "chunk_size_start", "body_identity"}
      /\ (st = "dead" => ends /\ ~KeepAlive(parser))
      /\ (st = "start_req" => ends /\ KeepAlive(parser))
      /\ (ends => st \in {"start_req", "dead"})
  BY <1>4, <1>7, NewMessageFacts
<1> HIDE DEF c, hasBody, upgrade, ends, st, message, answer
<1>9. /\ parser' \in Parser /\ parser'.state = st /\ parser'.flags = parser.flags
      /\ parser'.version = parser.version
      /\ parser'.contentLength = parser.contentLength
  BY <1>1, <1>2, <1>4, <1>8 DEF Parser, States
<1>10. pos' \in 0..chunkEnd
  BY <1>1, SymbolType DEF Leave, TypeOK
<1>11. PICK n : n = Len(received)
  OBVIOUS
<1>12. /\ n \in Nat /\ n = Current /\ n = Len(answers)
       /\ received' \in Seq(Message) /\ Len(received') = n + 1 /\ Current' = n + 1
       /\ received'[n + 1] = message /\ \A i \in 1..n : received'[i] = received[i]
       /\ answers' \in Seq(Response) /\ Len(answers') = n + 1
       /\ answers'[n + 1] = answer /\ \A i \in 1..n : answers'[i] = answers[i]
  <2>1. n \in Nat /\ n = Current /\ n = Len(answers)
    BY <1>2, <1>11 DEF MessageInv, Current
  <2>2. /\ received' \in Seq(Message) /\ Len(received') = n + 1
        /\ received'[n + 1] = message /\ \A i \in 1..n : received'[i] = received[i]
    BY <1>1, <1>2, <1>5, <1>11
  <2>3. /\ answers' \in Seq(Response) /\ Len(answers') = n + 1
        /\ answers'[n + 1] = answer /\ \A i \in 1..n : answers'[i] = answers[i]
    <3>1. answers' = Append(answers, answer)
      BY <1>1 DEF answer
    <3> QED BY <1>2, <1>6, <2>1, <3>1
  <2>4. Current' = n + 1
    BY <2>2 DEF Current
  <2> QED BY <2>1, <2>2, <2>3, <2>4
<1>13. TypeOK'
  BY <1>1, <1>3, <1>9, <1>10, <1>12, NoMarkType DEF TypeOK
<1>14. InMessage(parser') <=> ~ends
  BY <1>4, <1>7, <1>8, <1>9 DEF InMessage
<1>15. ~InMessage(parser) /\ parser.state # "dead"
  BY DEF InMessage
<1>16. \A i \in 1..n : received[i].ended
  <2>1. \A i \in 1..n : i \in 1..(n - 1) \/ i = n
    BY <1>12
  <2>2. \A i \in 1..(n - 1) : received[i].ended
    BY <1>12 DEF MessageInv, MessagesAreFramed
  <2>3. n = 0 \/ received[n].ended
    BY <1>12, <1>15 DEF MessageInv, MessagesAreFramed
  <2>4. \A i \in 1..n : n # 0
    BY <1>12
  <2> QED BY <2>1, <2>2, <2>3, <2>4
<1>17. \A i \in 1..n : answers[i].close => MayDiffer(i)
  <2>1. \A i \in 1..n : (i \in 1..(n - 1) \/ i = n) /\ n > 0
    BY <1>12
  <2>2. \A i \in 1..(n - 1) : answers[i].close => MayDiffer(i)
    BY <1>12 DEF MessageInv, CloseInv
  <2>3. n > 0 => (answers[n].close => MayDiffer(n))
    BY <1>12, <1>15 DEF MessageInv, CloseInv
  <2> QED BY <2>1, <2>2, <2>3
<1>18. Current' - 1 = n /\ Current' > 0
  BY <1>12
<1>19. MessagesAreFramed'
  <2>1. \A i \in 1..n : received'[i].ended
    BY <1>12, <1>16
  <2>2. received'[Current'].ended = ends
    BY <1>5, <1>12
  <2> QED BY <1>4, <1>14, <1>18, <2>1, <2>2 DEF MessagesAreFramed
<1>20. CloseInv'
  <2>1. \A i \in 1..n : answers'[i].close => MayDiffer(i)'
    BY <1>12, <1>17 DEF MayDiffer
  <2>2. answers'[Current'].close = ~KeepAlive(parser)
    BY <1>6, <1>12
  <2>3. received'[Current'].version = parser.version
        /\ received'[Current'].chunked = Chunked(parser)
    BY <1>5, <1>12
  <2>4. KeepAlive(parser') <=> KeepAlive(parser)
    BY <1>9, SameKeepAlive
  <2>5. parser'.state = "dead" => answers'[Current'].close
    BY <1>8, <1>9, <2>2
  <2>6. ~InMessage(parser') /\ parser'.state # "dead" => ~answers'[Current'].close
    BY <1>8, <1>9, <1>14, <2>2
  <2>7. InMessage(parser') =>
          /\ received'[Current'].version = parser'.version
          /\ ~received'[Current'].chunked => parser'.state = "body_identity"
          /\ answers'[Current'].close => ~KeepAlive(parser')
          /\ ~answers'[Current'].close => KeepAlive(parser')
    BY <1>7, <1>9, <1>14, <2>2, <2>3, <2>4
  <2> QED BY <1>18, <2>1, <2>5, <2>6, <2>7 DEF CloseInv, MayDiffer
<1>21. ParserInv(parser', mark')
  <2>1. parser.contentLength \in Nat
    BY <1>2 DEF Parser
  <2> QED BY <1>1, <1>7, <1>8, <1>9, <2>1, NoMarkType DEF ParserInv
<1> QED BY <1>12, <1>13, <1>19, <1>20, <1>21 DEF MessageInv

\* The end of a head, unless it states its length in two ways.
LEMMA HeadEnded == Inv /\ Rest /\ EndHead => Inv'
<1> SUFFICES ASSUME Inv, Rest, EndHead PROVE Inv'
  OBVIOUS
<1>1. In({"field_start"}) /\ "TRAILING" \notin parser.flags
  BY DEF EndHead, HeadEnds
<1>2. pos < chunkEnd /\ parser.state = "field_start"
  BY <1>1, InFacts
<1>3. CASE CompleteHead
  BY <1>1, <1>2, <1>3, HeadStep
<1>4. CASE Fail("UNEXPECTED_CONTENT_LENGTH")
  BY <1>4, FailStep DEF Errors
<1> QED BY <1>3, <1>4 DEF EndHead

-----------------------------------------------------------------------------
(* Chunks of data *)

\* Data arrives, a chunk ends, the connection is closed.
LEMMA ChannelStep == Inv /\ (OnData \/ EndOfChunk \/ Close) => Inv'
<1> SUFFICES ASSUME Inv, OnData \/ EndOfChunk \/ Close PROVE Inv'
  OBVIOUS
<1>n. NoMark \in Mark /\ NoMark.part = "none"
  BY NoMarkType
<1>k. Keeps(parser)
  BY DEF Keeps
<1>1. CASE OnData
  <2>1. PICK n \in (chunkEnd + 1)..Len(stream) : chunkEnd' = n
    BY <1>1 DEF OnData
  <2>2. /\ parser' = parser
        /\ UNCHANGED <<stream, channel, received, answers, isOpen>>
        /\ \/ pos' = chunkEnd' /\ mark' = NoMark
           \/ /\ pos' = pos
              /\ mark' = IF parser.state \in {"url", "field", "value"}
                           THEN [part |-> parser.state, bytes |-> <<>>] ELSE NoMark
    BY <1>1 DEF OnData, Resume
  <2>3. mark' \in Mark /\ mark'.part # "body"
    <3>1. CASE mark' = NoMark
      BY <1>n, <3>1
    <3>2. CASE mark' # NoMark
      <4>1. mark' = [part |-> parser.state, bytes |-> <<>>]
            /\ parser.state \in {"url", "field", "value"}
        BY <2>2, <3>2
      <4>2. <<>> \in Text
        BY DEF Text
      <4> QED BY <4>1, <4>2 DEF Mark
    <3> QED BY <3>1, <3>2
  <2>4. chunkEnd' \in 0..Len(stream) /\ pos' \in 0..chunkEnd'
    BY <2>1, <2>2 DEF Inv, TypeOK
  <2>5. TypeOK'
    BY <2>2, <2>3, <2>4 DEF Inv, TypeOK
  <2>6. MessageInv'
    BY <1>k, <2>2, Untouched, QuietStep
  <2>7. ParserInv(parser', mark')
    BY <2>2, <2>3 DEF Inv, ParserInv
  <2> QED BY <2>5, <2>6, <2>7 DEF Inv
<1>2. CASE EndOfChunk
  <2>1. /\ mark' = NoMark /\ channel' = HeadAfter(mark.part, mark.bytes)
        /\ received' = IF mark.part = "body" THEN OnBody(mark.bytes) ELSE received
        /\ UNCHANGED <<stream, pos, chunkEnd, parser, answers, isOpen>>
    BY <1>2 DEF EndOfChunk
  <2>2. mark.bytes \in Text /\ mark.part \in Parts
    BY DEF Inv, TypeOK, Mark, Parts
  <2>3. channel' \in HeadParts
    BY <2>1, <2>2, HeadAfterType DEF Inv
  <2>4. SameMessages /\ received' \in Seq(Message)
    <3>1. CASE mark.part = "body"
      <4>1. InMessage(parser)
        BY <3>1 DEF Inv, ParserInv, InMessage
      <4> QED BY <2>1, <2>2, <3>1, <4>1, BodyFacts DEF SameMessages
    <3>2. CASE mark.part # "body"
      BY <2>1, <3>2, Untouched DEF Inv, TypeOK
    <3> QED BY <3>1, <3>2
  <2>5. MessageInv'
    BY <1>k, <2>1, <2>4, QuietStep
  <2>6. TypeOK'
    BY <1>n, <2>1, <2>3, <2>4 DEF Inv, TypeOK
  <2>7. ParserInv(parser', mark')
    BY <1>n, <2>1 DEF Inv, ParserInv
  <2> QED BY <2>5, <2>6, <2>7 DEF Inv
<1>3. CASE Close
  <2>1. /\ isOpen' = FALSE
        /\ UNCHANGED <<stream, pos, chunkEnd, parser, mark, channel, received, answers>>
    BY <1>3 DEF Close
  <2>2. MessageInv'
    BY <1>k, <2>1, Untouched, QuietStep
  <2>3. TypeOK' /\ ParserInv(parser', mark')
    BY <2>1 DEF Inv, TypeOK
  <2> QED BY <2>2, <2>3 DEF Inv
<1> QED BY <1>1, <1>2, <1>3

-----------------------------------------------------------------------------
(* The theorems *)

\* All of it holds always.
LEMMA InvCorrect == Spec => []Inv
<1>1. Init => Inv
  <2> SUFFICES ASSUME Init PROVE Inv
    OBVIOUS
  <2>1. /\ parser \in Parser /\ parser.state = "start_req"
    <3>1. 0 \in 0..MaxLength /\ {} \in SUBSET Flags
      OBVIOUS
    <3> QED BY <3>1 DEF Init, Parser, States, Errors, HeaderStates
  <2>2. stream \in Seq(Symbols) /\ 0 \in 0..Len(stream)
    <3>1. stream \in Seq(Symbols)
      BY DEF Init
    <3> QED BY <3>1
  <2>3. channel \in HeadParts /\ <<>> \in Seq(Message) /\ <<>> \in Seq(Response)
    BY DEF Init, HeadParts, Text
  <2>4. TypeOK
    BY <2>1, <2>2, <2>3, NoMarkType DEF Init, TypeOK
  <2>5. ParserInv(parser, mark)
    BY <2>1, NoMarkType DEF Init, ParserInv
  <2>6. Current = 0 /\ ~InMessage(parser)
    BY <2>1 DEF Init, Current, InMessage
  <2>7. MessageInv
    BY <2>1, <2>6 DEF Init, MessageInv, MessagesAreFramed, CloseInv
  <2> QED BY <2>4, <2>5, <2>7 DEF Inv
<1>2. Inv /\ [Next]_vars => Inv'
  <2> SUFFICES ASSUME Inv, [Next]_vars PROVE Inv'
    OBVIOUS
  <2>1. CASE Work
    <3>1. Rest /\ Parse
      BY <2>1 DEF Work, Rest
    <3> QED BY <3>1, FirstLine, FieldNames, FieldValues, FieldLengths, Chunks,
               Endings, HeadEnded DEF Parse
  <2>2. CASE OnData \/ EndOfChunk \/ Close
    BY <2>2, ChannelStep
  <2>3. CASE UNCHANGED vars
    <3>1. /\ UNCHANGED <<stream, pos, chunkEnd, parser, mark, channel, received,
                         answers, isOpen>>
      BY <2>3 DEF vars
    <3>2. MessageInv'
      <4>1. Keeps(parser)
        BY DEF Keeps
      <4> QED BY <3>1, <4>1, Untouched, QuietStep
    <3>3. TypeOK' /\ ParserInv(parser', mark')
      BY <3>1 DEF Inv, TypeOK
    <3> QED BY <3>2, <3>3 DEF Inv
  <2> QED BY <2>1, <2>2, <2>3 DEF Next
<1> QED BY <1>1, <1>2, PTL DEF Spec

\* Every variable keeps its type; in particular no sequence of digits makes the
\* length of a body or chunk leave the range of its integer.
THEOREM TypeCorrect == Spec => []TypeOK
<1>1. Inv => TypeOK
  BY DEF Inv
<1> QED BY <1>1, InvCorrect, PTL

\* Whatever a client writes, in whatever chunks: the calls of onRequest, onBody
\* and onEnd come in that order, message by message.  (That a body is the one that
\* was announced is said by MessagesAsSent, of clients that keep to the rules.)
THEOREM FramingCorrect == Spec => []MessagesAreFramed
<1>1. Inv => MessagesAreFramed
  BY DEF Inv, MessageInv
<1> QED BY <1>1, InvCorrect, PTL

\* A response that announces the end of the connection is the last one, and
\* the connection ends only after such a response, but for trailers.
THEOREM CloseCorrect == Spec => []CloseIsAnnounced
<1>1. Inv => CloseIsAnnounced
  BY DEF Inv, MessageInv, CloseInv, CloseIsAnnounced, MayDiffer
<1> QED BY <1>1, InvCorrect, PTL
=============================================================================
