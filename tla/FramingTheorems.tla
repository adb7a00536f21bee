-------------------------- MODULE FramingTheorems --------------------------
(***************************************************************************)
(* Theorems about the codec, for inputs of any length over any bytes, and  *)
(* about connections that use it, for any frames within its limits.        *)
(***************************************************************************)
EXTENDS Framing, SequenceTheorems, TLAPS

-----------------------------------------------------------------------------
(* The functions that the codec defines by recursion exist.                *)

ElementsBody(p, after, n) ==
  IF n = 0 THEN Ok(<<>>, p.start) ELSE NextElement(p.read, after[n - 1])

SumsBody(p, sums, k) ==
  IF k = 0 THEN {0} ELSE AddDigit(sums[k - 1], p.digits[k], p.sign)

ChecksBody(src, layer, left) ==
  [at \in Nat |-> CheckFrame(src, at, left, layer[left - 1])]

DecodingsBody(src, layer, left) ==
  [at \in Nat |->
     IF left = 0 \/ at > Len(src) THEN Panic
     ELSE DecodeFrame(src, at, layer[left - 1])]

FramesBody(p, frames, layers) ==
  IF layers = 0 THEN Elementary
  ELSE Elementary \cup
         [type  : {"Array"},
          items : {items \in Seq(frames[layers - 1]) : Len(items) < ArrayLimit}]

SpellBody(p, spell, n) ==
  IF n < 10 THEN <<Zero + n>> ELSE spell[n \div 10] \o <<Zero + (n % 10)>>

EncodingsBody(p, codes, layers) ==
  [frame \in FramesWithin[layers] |-> EncodeFrame(frame, codes[layers - 1])]

JoinBody(seqs, joined, n) ==
  IF n <= 1 THEN seqs[1] ELSE joined[n - 1] \o seqs[n]

ByElements  == INSTANCE Recursion WITH Def <- ElementsBody
BySums      == INSTANCE Recursion WITH Def <- SumsBody
ByChecks    == INSTANCE Recursion WITH Def <- ChecksBody
ByDecodings == INSTANCE Recursion WITH Def <- DecodingsBody
ByFrames    == INSTANCE Recursion WITH Def <- FramesBody
BySpell     == INSTANCE Recursion WITH Def <- SpellBody
ByEncodings == INSTANCE Recursion WITH Def <- EncodingsBody
ByJoin      == INSTANCE Recursion WITH Def <- JoinBody

\* Induction over the naturals, for a set of them.
LEMMA Induct ==
  ASSUME NEW S \in SUBSET Nat, 0 \in S, \A n \in S : n + 1 \in S
  PROVE  S = Nat
BY ByJoin!Induct

\* The elements of an array are read one after the other.
LEMMA ElementsSteps ==
  ASSUME NEW read, NEW start
  PROVE  /\ Elements(read, 0, start) = Ok(<<>>, start)
         /\ \A n \in Nat :
              Elements(read, n + 1, start) = NextElement(read, Elements(read, n, start))
<1> DEFINE p == [read |-> read, start |-> start]
           D(f, n) == IF n = 0 THEN Ok(<<>>, start) ELSE NextElement(read, f[n - 1])
           E == CHOOSE f : f = [n \in Nat |-> D(f, n)]
<1>1. ByElements!LooksBack(p)
  BY DEF ByElements!LooksBack, ElementsBody
<1>2. \E f : f = [n \in Nat |-> ElementsBody(p, f, n)]
  <2> HIDE DEF p
  <2> QED BY <1>1, ByElements!Exists
<1>3. \E f : f = [n \in Nat |-> D(f, n)]
  BY <1>2 DEF ElementsBody
<1>4. E = [n \in Nat |-> D(E, n)]
  <2> HIDE DEF D
  <2> QED BY <1>3
<1>5. \A n \in Nat : Elements(read, n, start) = E[n]
  BY DEF Elements
<1> HIDE DEF E
<1>6. E[0] = Ok(<<>>, start) /\ \A n \in Nat : E[n + 1] = NextElement(read, E[n])
  BY <1>4
<1> QED BY <1>5, <1>6, SMTT(30)

\* Digits are added one after the other.
LEMMA SumsSteps ==
  ASSUME NEW digits, NEW sign
  PROVE  \E sums :
           /\ sums[0] = {0}
           /\ \A k \in Nat : sums[k + 1] = AddDigit(sums[k], digits[k + 1], sign)
           /\ Accumulate(digits, sign) = sums[Len(digits)]
<1> DEFINE p == [digits |-> digits, sign |-> sign]
           D(f, n) == IF n = 0 THEN {0} ELSE AddDigit(f[n - 1], digits[n], sign)
           E == CHOOSE f : f = [n \in Nat |-> D(f, n)]
<1>1. BySums!LooksBack(p)
  BY DEF BySums!LooksBack, SumsBody
<1>2. \E f : f = [n \in Nat |-> SumsBody(p, f, n)]
  <2> HIDE DEF p
  <2> QED BY <1>1, BySums!Exists
<1>3. \E f : f = [n \in Nat |-> D(f, n)]
  BY <1>2 DEF SumsBody
<1>4. E = [n \in Nat |-> D(E, n)]
  <2> HIDE DEF D
  <2> QED BY <1>3
<1>5. Accumulate(digits, sign) = E[Len(digits)]
  BY DEF Accumulate
<1> HIDE DEF E
<1>6. E[0] = {0} /\ \A n \in Nat : E[n + 1] = AddDigit(E[n], digits[n + 1], sign)
  BY <1>4
<1> QED BY <1>5, <1>6

\* The check of an element is the check of the layer below.
LEMMA ChecksSteps ==
  ASSUME NEW src, NEW left \in Nat, NEW at \in Nat
  PROVE  /\ left = 0 => Checks(src)[left][at] = CheckFrame(src, at, 0, {})
         /\ left > 0 => Checks(src)[left][at] = CheckFrame(src, at, left, Checks(src)[left - 1])
<1> DEFINE D(f, n) == [a \in Nat |-> CheckFrame(src, a, n, f[n - 1])]
           E == CHOOSE f : f = [n \in Nat |-> D(f, n)]
<1>0. \A a, x, y : CheckFrame(src, a, 0, x) = CheckFrame(src, a, 0, y)
  BY DEF CheckFrame, Then
<1>1. ByChecks!LooksBack(src)
  <2> SUFFICES ASSUME NEW n \in Nat, NEW g, NEW h, \A i \in 0..(n - 1) : g[i] = h[i]
               PROVE  ChecksBody(src, g, n) = ChecksBody(src, h, n)
    BY DEF ByChecks!LooksBack
  <2>1. CASE n = 0
    BY <1>0, <2>1 DEF ChecksBody
  <2>2. CASE n # 0
    BY <2>2 DEF ChecksBody
  <2> QED BY <2>1, <2>2
<1>2. \E f : f = [n \in Nat |-> ChecksBody(src, f, n)]
  BY <1>1, ByChecks!Exists
<1>3. \E f : f = [n \in Nat |-> D(f, n)]
  BY <1>2 DEF ChecksBody
<1>4. E = [n \in Nat |-> D(E, n)]
  <2> HIDE DEF D
  <2> QED BY <1>3
<1>5. Checks(src) = E
  BY DEF Checks
<1> HIDE DEF E
<1>6. E[left][at] = CheckFrame(src, at, left, E[left - 1])
  BY <1>4
<1> QED BY <1>0, <1>5, <1>6

\* An element is decoded with one layer less.
LEMMA DecodingsSteps ==
  ASSUME NEW src, NEW left \in Nat, NEW at \in Nat
  PROVE  /\ left = 0 \/ at > Len(src) => Decodings(src)[left][at] = Panic
         /\ left > 0 /\ ~(at > Len(src)) =>
              Decodings(src)[left][at] = DecodeFrame(src, at, Decodings(src)[left - 1])
<1> DEFINE D(f, n) == [a \in Nat |->
                         IF n = 0 \/ a > Len(src) THEN Panic
                         ELSE DecodeFrame(src, a, f[n - 1])]
           E == CHOOSE f : f = [n \in Nat |-> D(f, n)]
<1>1. ByDecodings!LooksBack(src)
  BY DEF ByDecodings!LooksBack, DecodingsBody
<1>2. \E f : f = [n \in Nat |-> DecodingsBody(src, f, n)]
  BY <1>1, ByDecodings!Exists
<1>3. \E f : f = [n \in Nat |-> D(f, n)]
  BY <1>2 DEF DecodingsBody
<1>4. E = [n \in Nat |-> D(E, n)]
  <2> HIDE DEF D
  <2> QED BY <1>3
<1>5. Decodings(src) = E
  BY DEF Decodings
<1> HIDE DEF E
<1>6. E[left] = D(E, left)
  <2> HIDE DEF D
  <2> QED BY <1>4
<1> QED BY <1>5, <1>6

\* Arrays hold frames of one layer less.
LEMMA FramesSteps ==
  /\ FramesWithin[0] = Elementary
  /\ \A n \in Nat :
       FramesWithin[n + 1] =
         Elementary \cup
           [type  : {"Array"},
            items : {items \in Seq(FramesWithin[n]) : Len(items) < ArrayLimit}]
<1> DEFINE D(f, n) ==
             IF n = 0 THEN Elementary
             ELSE Elementary \cup
                    [type  : {"Array"},
                     items : {items \in Seq(f[n - 1]) : Len(items) < ArrayLimit}]
           E == CHOOSE f : f = [n \in Nat |-> D(f, n)]
<1>1. ByFrames!LooksBack({})
  <2> SUFFICES ASSUME NEW n \in Nat, NEW g, NEW h, \A i \in 0..(n - 1) : g[i] = h[i]
               PROVE  FramesBody({}, g, n) = FramesBody({}, h, n)
    BY DEF ByFrames!LooksBack
  <2>1. n # 0 => g[n - 1] = h[n - 1]
    OBVIOUS
  <2> QED BY <2>1, Zenon DEF FramesBody
<1>2. \E f : f = [n \in Nat |-> FramesBody({}, f, n)]
  BY <1>1, ByFrames!Exists
<1>3. \E f : f = [n \in Nat |-> D(f, n)]
  BY <1>2 DEF FramesBody
<1>4. E = [n \in Nat |-> D(E, n)]
  <2> HIDE DEF D
  <2> QED BY <1>3
<1>5. FramesWithin = E
  BY DEF FramesWithin
<1> HIDE DEF E
<1>6. E[0] = D(E, 0) /\ \A n \in Nat : E[n + 1] = D(E, n + 1)
  <2> HIDE DEF D
  <2> QED BY <1>4
<1>7. \A n \in Nat : n + 1 # 0 /\ (n + 1) - 1 = n
  OBVIOUS
<1> QED BY <1>5, <1>6, <1>7

\* A number is spelled digit by digit.
LEMMA SpellSteps ==
  ASSUME NEW n \in Nat
  PROVE  /\ n < 10 => SpellNat[n] = <<Zero + n>>
         /\ n >= 10 => SpellNat[n] = SpellNat[n \div 10] \o <<Zero + (n % 10)>>
<1> DEFINE D(f, k) == IF k < 10 THEN <<Zero + k>> ELSE f[k \div 10] \o <<Zero + (k % 10)>>
           E == CHOOSE f : f = [k \in Nat |-> D(f, k)]
<1>1. BySpell!LooksBack({})
  <2> SUFFICES ASSUME NEW k \in Nat, NEW g, NEW h, \A i \in 0..(k - 1) : g[i] = h[i]
               PROVE  SpellBody({}, g, k) = SpellBody({}, h, k)
    BY DEF BySpell!LooksBack
  <2>1. k >= 10 => k \div 10 \in 0..(k - 1)
    OBVIOUS
  <2> QED BY <2>1 DEF SpellBody
<1>2. \E f : f = [k \in Nat |-> SpellBody({}, f, k)]
  BY <1>1, BySpell!Exists
<1>3. \E f : f = [k \in Nat |-> D(f, k)]
  BY <1>2 DEF SpellBody
<1>4. E = [k \in Nat |-> D(E, k)]
  <2> HIDE DEF D
  <2> QED BY <1>3
<1>5. SpellNat = E
  BY DEF SpellNat
<1> HIDE DEF E
<1>6. E[n] = D(E, n)
  <2> HIDE DEF D
  <2> QED BY <1>4
<1> QED BY <1>5, <1>6

\* The elements of an array are encoded with the layer below.
LEMMA EncodingsSteps ==
  ASSUME NEW layers \in Nat, NEW frame \in FramesWithin[layers]
  PROVE  /\ layers = 0 => Encodings[layers][frame] = EncodeFrame(frame, {})
         /\ layers > 0 => Encodings[layers][frame] = EncodeFrame(frame, Encodings[layers - 1])
<1> DEFINE D(f, n) == [e \in FramesWithin[n] |-> EncodeFrame(e, f[n - 1])]
           E == CHOOSE f : f = [n \in Nat |-> D(f, n)]
<1>0. ASSUME NEW e \in FramesWithin[0], NEW x, NEW y
      PROVE  EncodeFrame(e, x) = EncodeFrame(e, y)
  <2>1. e.type # "Array"
    BY FramesSteps DEF Elementary
  <2> QED BY <2>1 DEF EncodeFrame
<1>1. ByEncodings!LooksBack({})
  <2> SUFFICES ASSUME NEW n \in Nat, NEW g, NEW h, \A i \in 0..(n - 1) : g[i] = h[i]
               PROVE  EncodingsBody({}, g, n) = EncodingsBody({}, h, n)
    BY DEF ByEncodings!LooksBack
  <2>1. CASE n = 0
    BY <1>0, <2>1 DEF EncodingsBody
  <2>2. CASE n # 0
    BY <2>2 DEF EncodingsBody
  <2> QED BY <2>1, <2>2
<1>2. \E f : f = [n \in Nat |-> EncodingsBody({}, f, n)]
  BY <1>1, ByEncodings!Exists
<1>3. \E f : f = [n \in Nat |-> D(f, n)]
  BY <1>2 DEF EncodingsBody
<1>4. E = [n \in Nat |-> D(E, n)]
  <2> HIDE DEF D
  <2> QED BY <1>3
<1>5. Encodings = E
  BY DEF Encodings
<1> HIDE DEF E
<1>6. E[layers][frame] = EncodeFrame(frame, E[layers - 1])
  BY <1>4
<1> QED BY <1>0, <1>5, <1>6

\* Codes are joined one after the other.
LEMMA JoinSteps ==
  ASSUME NEW seqs, Len(seqs) \in Nat
  PROVE  \E joined :
           /\ Len(seqs) = 0 => FlattenSeq(seqs) = seqs
           /\ Len(seqs) > 0 => /\ joined[1] = seqs[1]
                               /\ FlattenSeq(seqs) = joined[Len(seqs)]
           /\ \A n \in 1..(Len(seqs) - 1) : joined[n + 1] = joined[n] \o seqs[n + 1]
<1> DEFINE D(f, i) == IF i = 1 THEN seqs[i] ELSE f[i - 1] \o seqs[i]
           E == CHOOSE f : f = [i \in 1..Len(seqs) |-> D(f, i)]
<1>1. ByJoin!LooksBack(seqs)
  BY DEF ByJoin!LooksBack, JoinBody
<1>2. PICK f : f = [n \in Nat |-> JoinBody(seqs, f, n)]
  BY <1>1, ByJoin!Exists
<1>3. \E e : e = [i \in 1..Len(seqs) |-> D(e, i)]
  <2> DEFINE e == [i \in 1..Len(seqs) |-> f[i]]
  <2>1. ASSUME NEW i \in 1..Len(seqs) PROVE e[i] = D(e, i)
    <3>1. f[i] = JoinBody(seqs, f, i)
      BY <1>2
    <3>2. CASE i = 1
      BY <3>1, <3>2 DEF JoinBody
    <3>3. CASE i # 1
      <4>1. f[i] = f[i - 1] \o seqs[i]
        <5>1. ~(i <= 1)
          BY <3>3
        <5> QED BY <3>1, <5>1, Zenon DEF JoinBody
      <4>2. e[i - 1] = f[i - 1] /\ e[i] = f[i]
        BY <3>3
      <4> HIDE DEF e
      <4> QED BY <3>3, <4>1, <4>2
    <3> QED BY <3>2, <3>3
  <2>2. e = [i \in 1..Len(seqs) |-> D(e, i)]
    BY <2>1
  <2> HIDE DEF e
  <2> QED BY <2>2
<1>4. E = [i \in 1..Len(seqs) |-> D(E, i)]
  <2> HIDE DEF D
  <2> QED BY <1>3
<1>5. FlattenSeq(seqs) = IF Len(seqs) = 0 THEN seqs ELSE E[Len(seqs)]
  BY DEF FlattenSeq
<1> HIDE DEF E
<1>6. ASSUME NEW i \in 1..Len(seqs) PROVE E[i] = D(E, i)
  <2> HIDE DEF D
  <2> QED BY <1>4
<1>7. Len(seqs) > 0 => E[1] = seqs[1]
  BY <1>6
<1>8. ASSUME NEW n \in 1..(Len(seqs) - 1) PROVE E[n + 1] = E[n] \o seqs[n + 1]
  <2>1. n + 1 \in 1..Len(seqs) /\ n + 1 # 1 /\ (n + 1) - 1 = n
    OBVIOUS
  <2> QED BY <1>6, <2>1
<1>9. /\ Len(seqs) = 0 => FlattenSeq(seqs) = seqs
      /\ Len(seqs) > 0 => E[1] = seqs[1] /\ FlattenSeq(seqs) = E[Len(seqs)]
  BY <1>5, <1>7
<1> HIDE DEF D
<1> QED BY <1>8, <1>9, Zenon

-----------------------------------------------------------------------------
(* Lines and numbers                                                       *)

\* A set of naturals has a least member.
LEMMA Least ==
  ASSUME NEW S \in SUBSET Nat, S # {}
  PROVE  Min(S) \in S /\ \A n \in S : Min(S) <= n
<1> SUFFICES \E m \in S : \A n \in S : m <= n
  BY DEF Min
<1> SUFFICES ASSUME \A m \in S : \E n \in S : n < m
             PROVE  FALSE
  OBVIOUS
<1> DEFINE T == {n \in Nat : \A k \in 0..n : k \notin S}
<1>1. 0 \in T
  OBVIOUS
<1>2. ASSUME NEW n \in T PROVE n + 1 \in T
  OBVIOUS
<1>3. T = Nat
  <2> HIDE DEF T
  <2> QED BY <1>1, <1>2, Induct DEF T
<1>4. PICK k \in S : TRUE
  OBVIOUS
<1>5. k \in T
  <2> HIDE DEF T
  <2> QED BY <1>3
<1> QED BY <1>5

\* Where the first end of a line is decides what the line is.
LEMMA LineAt ==
  ASSUME NEW src \in Seq(Nat), NEW at \in Nat \ {0}, NEW end \in at..Len(src),
         src[end] \in {CR, LF}, \A i \in at..(end - 1) : src[i] \notin {CR, LF}
  PROVE  /\ src[end] = CR /\ end = Len(src) => Line(src, at) = Incomplete
         /\ src[end] = CR /\ end < Len(src) /\ src[end + 1] = LF =>
              Line(src, at) = Ok(SubSeq(src, at, end - 1), end + 2)
         /\ ~(src[end] = CR /\ end = Len(src))
            /\ ~(src[end] = CR /\ end < Len(src) /\ src[end + 1] = LF) =>
              Line(src, at) = Invalid
<1> DEFINE ends == {i \in at..Len(src) : src[i] \in {CR, LF}}
<1>1. ends \in SUBSET Nat /\ end \in ends
  OBVIOUS
<1>2. Min(ends) = end
  <2>1. Min(ends) \in ends /\ Min(ends) <= end
    <3> HIDE DEF ends
    <3> QED BY <1>1, Least
  <2> QED BY <2>1
<1>3. Line(src, at) =
        IF ends = {} \/ (src[end] = CR /\ end = Len(src)) THEN Incomplete
        ELSE IF src[end] = CR /\ src[end + 1] = LF
             THEN Ok(SubSeq(src, at, end - 1), end + 2)
             ELSE Invalid
  BY <1>2 DEF Line
<1> HIDE DEF ends
<1> QED BY <1>1, <1>3

\* A line has no end so far, or a first one.
LEMMA LineEnds ==
  ASSUME NEW src \in Seq(Nat), NEW at \in Nat \ {0}
  PROVE  \/ /\ \A i \in at..Len(src) : src[i] \notin {CR, LF}
            /\ Line(src, at) = Incomplete
         \/ \E end \in at..Len(src) :
              /\ src[end] \in {CR, LF}
              /\ \A i \in at..(end - 1) : src[i] \notin {CR, LF}
<1> DEFINE ends == {i \in at..Len(src) : src[i] \in {CR, LF}}
<1>1. CASE ends = {}
  BY <1>1 DEF Line
<1>2. CASE ends # {}
  <2>1. Min(ends) \in ends /\ \A n \in ends : Min(ends) <= n
    <3>1. ends \in SUBSET Nat
      OBVIOUS
    <3> HIDE DEF ends
    <3> QED BY <1>2, <3>1, Least
  <2> DEFINE end == Min(ends)
  <2>2. end \in at..Len(src) /\ src[end] \in {CR, LF}
    BY <2>1
  <2>3. \A i \in at..(end - 1) : src[i] \notin {CR, LF}
    <3> SUFFICES ASSUME NEW i \in at..(end - 1), src[i] \in {CR, LF} PROVE FALSE
      OBVIOUS
    <3>1. i \in ends /\ i < end
      BY <2>2
    <3> HIDE DEF ends
    <3> QED BY <2>1, <2>2, <3>1
  <2> HIDE DEF end
  <2> QED BY <2>2, <2>3
<1> QED BY <1>1, <1>2

\* What follows src in more is all that arrived later.
Extends(more, src) ==
  /\ src \in Seq(Nat)
  /\ more \in Seq(Nat)
  /\ Len(src) <= Len(more)
  /\ \A i \in 1..Len(src) : more[i] = src[i]

\* A line is there, is bad, or is not there yet.
LEMMA LineOutcome ==
  ASSUME NEW src \in Seq(Nat), NEW at \in Nat \ {0}
  PROVE  \/ Line(src, at) = Incomplete
         \/ Line(src, at) = Invalid
         \/ \E end \in at..(Len(src) - 1) :
              /\ Line(src, at) = Ok(SubSeq(src, at, end - 1), end + 2)
              /\ \A i \in at..(end - 1) : src[i] \notin {CR, LF}
              /\ src[end] = CR /\ src[end + 1] = LF
<1>1. CASE Line(src, at) = Incomplete
  BY <1>1
<1>2. CASE Line(src, at) # Incomplete
  <2>1. PICK end \in at..Len(src) :
           /\ src[end] \in {CR, LF}
           /\ \A i \in at..(end - 1) : src[i] \notin {CR, LF}
    BY <1>2, LineEnds
  <2>2. CASE src[end] = CR /\ end < Len(src) /\ src[end + 1] = LF
    <3>1. Line(src, at) = Ok(SubSeq(src, at, end - 1), end + 2)
      BY <2>1, <2>2, LineAt
    <3>2. end \in at..(Len(src) - 1)
      BY <2>2
    <3> QED BY <2>1, <2>2, <3>1, <3>2
  <2>3. CASE ~(src[end] = CR /\ end < Len(src) /\ src[end + 1] = LF)
    BY <1>2, <2>1, <2>3, LineAt
  <2> QED BY <2>2, <2>3
<1> QED BY <1>1, <1>2

\* Sequences that agree on a range have the same part there.
LEMMA SamePart ==
  ASSUME NEW src \in Seq(Nat), NEW more \in Seq(Nat), NEW m \in Nat \ {0}, NEW n \in Int,
         n <= Len(src), n <= Len(more), \A i \in m..n : more[i] = src[i]
  PROVE  SubSeq(more, m, n) = SubSeq(src, m, n)
<1>1. /\ Len(src) \in Nat /\ \A i \in 1..Len(src) : src[i] \in Nat
      /\ Len(more) \in Nat /\ \A i \in 1..Len(more) : more[i] \in Nat
  BY LenProperties, ElementOfSeq
<1>2. \A i \in m..n : src[i] \in Nat /\ more[i] \in Nat
  BY <1>1
<1>3. /\ SubSeq(src, m, n) \in Seq(Nat) /\ SubSeq(more, m, n) \in Seq(Nat)
      /\ Len(SubSeq(src, m, n)) = Len(SubSeq(more, m, n))
      /\ Len(SubSeq(src, m, n)) = IF m <= n THEN n - m + 1 ELSE 0
      /\ \A i \in 1..(n - m + 1) : SubSeq(src, m, n)[i] = src[m + i - 1]
      /\ \A i \in 1..(n - m + 1) : SubSeq(more, m, n)[i] = more[m + i - 1]
  BY <1>2, SubSeqProperties
<1>4. ASSUME NEW i \in 1..Len(SubSeq(src, m, n))
      PROVE  SubSeq(more, m, n)[i] = SubSeq(src, m, n)[i]
  <2>1. i \in 1..(n - m + 1) /\ m + i - 1 \in m..n
    BY <1>3
  <2> QED BY <1>3, <2>1
<1> QED BY <1>3, <1>4, SeqEqual

\* Only bytes still to come change what a line is.
LEMMA LineStable ==
  ASSUME NEW src, NEW more, Extends(more, src), NEW at \in Nat \ {0},
         Line(src, at) # Incomplete
  PROVE  Line(more, at) = Line(src, at)
<1>0. /\ src \in Seq(Nat) /\ Len(src) \in Nat
      /\ more \in Seq(Nat) /\ Len(more) \in Nat /\ Len(src) <= Len(more)
      /\ \A i \in 1..Len(src) : more[i] = src[i]
  BY LenProperties DEF Extends
<1>1. PICK end \in at..Len(src) :
         /\ src[end] \in {CR, LF}
         /\ \A i \in at..(end - 1) : src[i] \notin {CR, LF}
  BY <1>0, LineEnds
<1>2. end \in at..Len(more) /\ end \in 1..Len(src) /\ more[end] = src[end]
  BY <1>0, SMTT(30)
<1>3. ASSUME NEW i \in at..(end - 1) PROVE more[i] = src[i]
  <2>1. i \in 1..Len(src)
    BY <1>0, <1>2
  <2> QED BY <1>0, <2>1
<1>4. \A i \in at..(end - 1) : more[i] \notin {CR, LF}
  BY <1>1, <1>3
<1>5. SubSeq(more, at, end - 1) = SubSeq(src, at, end - 1)
  <2>1. end - 1 \in Int /\ end - 1 <= Len(src) /\ end - 1 <= Len(more)
    BY <1>0, <1>2
  <2> QED BY <1>0, <1>3, <2>1, SamePart
<1>6. end < Len(src) => more[end + 1] = src[end + 1] /\ end < Len(more)
  BY <1>0, <1>2
<1>7. src[end] = CR => end < Len(src)
  <2>1. src[end] = CR /\ end = Len(src) => Line(src, at) = Incomplete
    BY <1>0, <1>1, LineAt
  <2> QED BY <1>0, <1>2, <2>1
<1>8. CASE src[end] = CR /\ src[end + 1] = LF
  <2>1. Line(src, at) = Ok(SubSeq(src, at, end - 1), end + 2)
    BY <1>0, <1>1, <1>7, <1>8, LineAt
  <2>2. Line(more, at) = Ok(SubSeq(more, at, end - 1), end + 2)
    BY <1>0, <1>1, <1>2, <1>4, <1>6, <1>7, <1>8, LineAt
  <2> QED BY <1>5, <2>1, <2>2
<1>9. CASE ~(src[end] = CR /\ src[end + 1] = LF)
  <2>1. Line(src, at) = Invalid
    BY <1>0, <1>1, <1>7, <1>9, LineAt
  <2>2. /\ more[end] \in {CR, LF}
        /\ ~(more[end] = CR /\ end = Len(more))
        /\ ~(more[end] = CR /\ end < Len(more) /\ more[end + 1] = LF)
    BY <1>0, <1>1, <1>2, <1>6, <1>7, <1>9, SMTT(30)
  <2>3. Line(more, at) = Invalid
    BY <1>0, <1>2, <1>4, <2>2, LineAt
  <2> QED BY <2>1, <2>3
<1> QED BY <1>8, <1>9

\* Sums of digits stay in the range of the integer type.
LEMMA AccumulateType ==
  ASSUME NEW digits, Len(digits) \in Nat, NEW sign
  PROVE  Accumulate(digits, sign) \subseteq Ints
<1>1. PICK sums : /\ sums[0] = {0}
                  /\ \A k \in Nat : sums[k + 1] = AddDigit(sums[k], digits[k + 1], sign)
                  /\ Accumulate(digits, sign) = sums[Len(digits)]
  BY SumsSteps
<1>2. \A acc, digit : AddDigit(acc, digit, sign) \subseteq Ints
  BY DEF AddDigit, Checked
<1>3. CASE Len(digits) = 0
  <2>1. 0 \in Ints
    BY WireAssumption DEF Ints
  <2>2. Accumulate(digits, sign) = {0}
    BY <1>1, <1>3
  <2> QED BY <2>1, <2>2
<1>4. CASE Len(digits) # 0
  <2>1. Len(digits) - 1 \in Nat /\ (Len(digits) - 1) + 1 = Len(digits)
    BY <1>4
  <2>2. sums[Len(digits)] = AddDigit(sums[Len(digits) - 1], digits[Len(digits)], sign)
    BY <1>1, <2>1
  <2> QED BY <1>1, <1>2, <2>2
<1> QED BY <1>3, <1>4

\* A line is a number of the type, or it is none.
LEMMA NumberOutcome ==
  ASSUME NEW text \in Seq(Nat), NEW next
  PROVE  \/ Number(text, next) = Invalid
         \/ \E n \in Ints : Number(text, next) = Ok(n, next)
<1> DEFINE negative == text # <<>> /\ text[1] = Minus
           digits   == IF negative THEN Tail(text) ELSE text
           sign     == IF negative THEN -1 ELSE 1
           numbers  == Accumulate(digits, sign)
<1>1. Len(digits) \in Nat
  BY LenProperties, HeadTailProperties
<1>2. numbers \subseteq Ints
  <2> HIDE DEF digits, sign
  <2> QED BY <1>1, AccumulateType
<1>3. Number(text, next) =
        IF digits # <<>> /\ ToSet(digits) \subseteq Digits /\ numbers # {}
        THEN Ok(CHOOSE n \in numbers : TRUE, next)
        ELSE Invalid
  BY DEF Number
<1> HIDE DEF numbers, digits
<1> QED BY <1>2, <1>3

\* A number is there, is bad, or is not there yet.
LEMMA DecimalOutcome ==
  ASSUME NEW src \in Seq(Nat), NEW at \in Nat \ {0}
  PROVE  \/ Decimal(src, at) = Incomplete
         \/ Decimal(src, at) = Invalid
         \/ \E n \in Ints, next \in (at + 2)..(Len(src) + 1) :
              Decimal(src, at) = Ok(n, next)
<1>1. CASE Line(src, at) \in {Incomplete, Invalid}
  BY <1>1 DEF Decimal, Then, Incomplete, Invalid
<1>2. ASSUME NEW end \in at..(Len(src) - 1),
             Line(src, at) = Ok(SubSeq(src, at, end - 1), end + 2)
      PROVE  \/ Decimal(src, at) = Invalid
             \/ \E n \in Ints, next \in (at + 2)..(Len(src) + 1) :
                  Decimal(src, at) = Ok(n, next)
  <2>1. Decimal(src, at) = Number(SubSeq(src, at, end - 1), end + 2)
    BY <1>2 DEF Decimal, Then, Ok
  <2>2. SubSeq(src, at, end - 1) \in Seq(Nat)
    <3>1. \A i \in at..(end - 1) : src[i] \in Nat
      BY LenProperties, ElementOfSeq
    <3> QED BY <3>1, SubSeqProperties
  <2>3. end + 2 \in (at + 2)..(Len(src) + 1)
    BY LenProperties
  <2> QED BY <2>1, <2>2, <2>3, NumberOutcome, ZenonT(30)
<1> QED BY <1>1, <1>2, LineOutcome

\* Only bytes still to come change what a number is.
LEMMA DecimalStable ==
  ASSUME NEW src, NEW more, Extends(more, src), NEW at \in Nat \ {0},
         Decimal(src, at) # Incomplete
  PROVE  Decimal(more, at) = Decimal(src, at)
<1>1. Line(src, at) # Incomplete
  BY DEF Decimal, Then, Incomplete
<1>2. Line(more, at) = Line(src, at)
  BY <1>1, LineStable
<1> QED BY <1>2 DEF Decimal

-----------------------------------------------------------------------------
(* The elements of an array                                                *)

\* What a reader may say of a position: it fails, or names the position after
\* what it has read, in a range.
Outcome(answer, failures, lowest, highest) ==
  \/ answer \in failures
  \/ \E value, next : next \in lowest..highest /\ answer = Ok(value, next)

\* Each element is read where the one before has ended.
LEMMA ElementsStep ==
  ASSUME NEW read, NEW start, NEW n \in Nat
  PROVE  /\ Elements(read, n, start) \in {Incomplete, Invalid, Panic} =>
              Elements(read, n + 1, start) = Elements(read, n, start)
         /\ \A values, next :
              Elements(read, n, start) = Ok(values, next) =>
                /\ read[next] \in {Incomplete, Invalid, Panic} =>
                     Elements(read, n + 1, start) = read[next]
                /\ \A value, end :
                     read[next] = Ok(value, end) =>
                       Elements(read, n + 1, start) = Ok(Append(values, value), end)
<1>1. Elements(read, n + 1, start) = NextElement(read, Elements(read, n, start))
  BY ElementsSteps
<1>2. CASE Elements(read, n, start) \in {Incomplete, Invalid, Panic}
  BY <1>1, <1>2 DEF NextElement, Then, Incomplete, Invalid, Panic, Ok
<1>3. ASSUME NEW values, NEW next, Elements(read, n, start) = Ok(values, next)
      PROVE  /\ read[next] \in {Incomplete, Invalid, Panic} =>
                  Elements(read, n + 1, start) = read[next]
             /\ \A value, end :
                  read[next] = Ok(value, end) =>
                    Elements(read, n + 1, start) = Ok(Append(values, value), end)
  <2> DEFINE E == Ok(values, next)
  <2>1. E.verdict = "ok" /\ E.value = values /\ E.next = next
    BY DEF Ok
  <2>2. Elements(read, n + 1, start) = NextElement(read, E)
    BY <1>1, <1>3
  <2> HIDE DEF E
  <2>3. Elements(read, n + 1, start) =
          IF read[next].verdict = "ok"
          THEN Ok(Append(values, read[next].value), read[next].next)
          ELSE read[next]
    BY <2>1, <2>2 DEF NextElement, Then
  <2>4. read[next] \in {Incomplete, Invalid, Panic} => read[next].verdict # "ok"
    BY DEF Incomplete, Invalid, Panic
  <2>5. ASSUME NEW value, NEW end, read[next] = Ok(value, end)
        PROVE  /\ read[next].verdict = "ok"
               /\ read[next].value = value
               /\ read[next].next = end
    BY <2>5 DEF Ok
  <2> QED BY <2>3, <2>4, <2>5
<1>4. Elements(read, n, start) \in {Incomplete, Invalid, Panic} =>
        Elements(read, n + 1, start) = Elements(read, n, start)
  BY <1>2
<1> QED BY <1>3, <1>4

\* Elements lie within the range of their reader.
LEMMA ElementsOutcome ==
  ASSUME NEW failures \in SUBSET {Incomplete, Invalid, Panic},
         NEW read, NEW lowest \in Nat, NEW highest \in Nat, NEW start \in lowest..highest,
         \A at \in lowest..highest : Outcome(read[at], failures, at, highest)
  PROVE  \A n \in Nat : Outcome(Elements(read, n, start), failures, start, highest)
<1> DEFINE S == {n \in Nat : Outcome(Elements(read, n, start), failures, start, highest)}
<1>1. 0 \in S
  <2>1. Elements(read, 0, start) = Ok(<<>>, start)
    BY ElementsSteps
  <2> QED BY <2>1 DEF Outcome
<1>2. ASSUME NEW n \in S PROVE n + 1 \in S
  <2>1. CASE Elements(read, n, start) \in failures
    BY <2>1, ElementsStep DEF Outcome
  <2>2. ASSUME NEW values, NEW next, next \in start..highest,
               Elements(read, n, start) = Ok(values, next)
        PROVE  Outcome(Elements(read, n + 1, start), failures, start, highest)
    <3>1. next \in lowest..highest /\ Outcome(read[next], failures, next, highest)
      BY <2>2
    <3>2. CASE read[next] \in failures
      BY <2>2, <3>2, ElementsStep DEF Outcome
    <3>3. ASSUME NEW value, NEW end, end \in next..highest, read[next] = Ok(value, end)
          PROVE  Outcome(Elements(read, n + 1, start), failures, start, highest)
      <4>1. end \in start..highest
        BY <2>2, <3>3
      <4>2. Elements(read, n + 1, start) = Ok(Append(values, value), end)
        BY <2>2, <3>3, ElementsStep
      <4> QED BY <4>1, <4>2 DEF Outcome
    <3> QED BY <3>1, <3>2, <3>3 DEF Outcome
  <2> QED BY <2>1, <2>2 DEF Outcome
<1>3. S = Nat
  <2> HIDE DEF S
  <2> QED BY <1>1, <1>2, Induct DEF S
<1> QED BY <1>3

\* Two answers for a frame, of which the second was given when more had arrived.
Same(earlier, later) == earlier \in {Incomplete, Panic} \/ later = earlier

\* Two readers that agree on what is settled agree on the elements.
LEMMA ElementsStable ==
  ASSUME NEW failures \in SUBSET {Incomplete, Invalid, Panic},
         NEW read, NEW later, NEW lowest \in Nat, NEW highest \in Nat,
         NEW start \in lowest..highest,
         \A at \in lowest..highest :
           /\ Outcome(read[at], failures, at, highest)
           /\ Same(read[at], later[at])
  PROVE  \A n \in Nat : Same(Elements(read, n, start), Elements(later, n, start))
<1> USE DEF Same
<1> DEFINE S == {n \in Nat : \/ Elements(read, n, start) \in {Incomplete, Panic}
                             \/ Elements(later, n, start) = Elements(read, n, start)}
<1>1. 0 \in S
  BY ElementsSteps
<1>2. ASSUME NEW n \in S PROVE n + 1 \in S
  <2>1. CASE Elements(read, n, start) \in {Incomplete, Panic}
    BY <2>1, ElementsStep
  <2>2. CASE Elements(read, n, start) = Invalid
    <3>1. Elements(later, n, start) = Invalid
      BY <2>2 DEF Invalid, Incomplete, Panic
    <3> QED BY <2>2, <3>1, ElementsStep
  <2>3. ASSUME NEW values, NEW next, next \in start..highest,
               Elements(read, n, start) = Ok(values, next)
        PROVE  n + 1 \in S
    <3>1. next \in lowest..highest
      BY <2>3
    <3>2. Elements(later, n, start) = Ok(values, next)
      BY <2>3 DEF Ok, Incomplete, Panic
    <3>3. CASE read[next] \in {Incomplete, Panic}
      BY <2>3, <3>3, ElementsStep
    <3>4. CASE read[next] = Invalid
      <4>1. later[next] = Invalid
        BY <3>1, <3>4 DEF Invalid, Incomplete, Panic
      <4> QED BY <2>3, <3>2, <3>4, <4>1, ElementsStep
    <3>5. ASSUME NEW value, NEW end, read[next] = Ok(value, end)
          PROVE  n + 1 \in S
      <4>1. later[next] = Ok(value, end)
        BY <3>1, <3>5 DEF Ok, Incomplete, Panic
      <4> QED BY <2>3, <3>2, <3>5, <4>1, ElementsStep
    <3> QED BY <3>1, <3>3, <3>4, <3>5 DEF Outcome
  <2>4. Outcome(Elements(read, n, start), failures, start, highest)
    BY ElementsOutcome
  <2> QED BY <2>1, <2>2, <2>3, <2>4 DEF Outcome
<1>3. S = Nat
  <2> HIDE DEF S
  <2> QED BY <1>1, <1>2, Induct DEF S
<1> QED BY <1>3

\* Where the check has gone, decoding rejects or brings back one of the values.
Follows(checked, decoded, Values) ==
  \A value, next :
    checked = Ok(value, next) =>
      decoded = Invalid \/ \E frame \in Values : decoded = Ok(frame, next)

\* Values in a row.
Rows(Values, n) == {items \in Seq(Values) : Len(items) = n}

\* A reader that goes where another has gone before, and rejects or brings back
\* members of a set, does so for elements too.
LEMMA ElementsFollow ==
  ASSUME NEW failures \in SUBSET {Incomplete, Invalid, Panic},
         NEW read, NEW decode, NEW lowest \in Nat, NEW highest \in Nat,
         NEW start \in lowest..highest, NEW Values,
         \A at \in lowest..highest :
           /\ Outcome(read[at], failures, at, highest)
           /\ Follows(read[at], decode[at], Values)
  PROVE  \A n \in Nat :
           Follows(Elements(read, n, start), Elements(decode, n, start), Rows(Values, n))
<1> DEFINE S == {n \in Nat : Follows(Elements(read, n, start), Elements(decode, n, start),
                                     Rows(Values, n))}
<1>1. 0 \in S
  <2>1. Elements(read, 0, start) = Ok(<<>>, start) /\ Elements(decode, 0, start) = Ok(<<>>, start)
    BY ElementsSteps
  <2>2. <<>> \in Rows(Values, 0)
    BY EmptySeq DEF Rows
  <2> QED BY <2>1, <2>2 DEF Follows, Ok
<1>2. ASSUME NEW n \in S PROVE n + 1 \in S
  <2> SUFFICES ASSUME NEW value, NEW next, Elements(read, n + 1, start) = Ok(value, next)
               PROVE  \/ Elements(decode, n + 1, start) = Invalid
                      \/ \E frame \in Rows(Values, n + 1) : Elements(decode, n + 1, start) = Ok(frame, next)
    BY DEF Follows
  <2>1. PICK values, middle :
           middle \in start..highest /\ Elements(read, n, start) = Ok(values, middle)
    <3>1. Outcome(Elements(read, n, start), failures, start, highest)
      BY ElementsOutcome
    <3>2. Elements(read, n, start) \notin {Incomplete, Invalid, Panic}
      BY ElementsStep DEF Ok, Incomplete, Invalid, Panic
    <3> QED BY <3>1, <3>2 DEF Outcome
  <2>2. middle \in lowest..highest
    BY <2>1
  <2>3. PICK last : read[middle] = Ok(last, next)
    <3>1. read[middle] \notin {Incomplete, Invalid, Panic}
      BY <2>1, ElementsStep DEF Ok, Incomplete, Invalid, Panic
    <3>2. PICK v, e : read[middle] = Ok(v, e)
      BY <2>2, <3>1 DEF Outcome
    <3>3. Ok(value, next) = Ok(Append(values, v), e)
      BY <2>1, <3>2, ElementsStep
    <3>4. e = next
      BY <3>3 DEF Ok
    <3> QED BY <3>2, <3>4
  <2>4. CASE Elements(decode, n, start) = Invalid
    BY <2>4, ElementsStep
  <2>5. ASSUME NEW items \in Rows(Values, n), Elements(decode, n, start) = Ok(items, middle)
        PROVE  \/ Elements(decode, n + 1, start) = Invalid
               \/ \E frame \in Rows(Values, n + 1) : Elements(decode, n + 1, start) = Ok(frame, next)
    <3>1. CASE decode[middle] = Invalid
      BY <2>5, <3>1, ElementsStep
    <3>2. ASSUME NEW frame \in Values, decode[middle] = Ok(frame, next)
          PROVE  \E f \in Rows(Values, n + 1) : Elements(decode, n + 1, start) = Ok(f, next)
      <4>1. Elements(decode, n + 1, start) = Ok(Append(items, frame), next)
        BY <2>5, <3>2, ElementsStep
      <4>2. Append(items, frame) \in Rows(Values, n + 1)
        BY AppendProperties DEF Rows
      <4> QED BY <4>1, <4>2
    <3>3. Follows(read[middle], decode[middle], Values)
      BY <2>2
    <3> QED BY <2>3, <3>1, <3>2, <3>3 DEF Follows
  <2>6. Follows(Elements(read, n, start), Elements(decode, n, start), Rows(Values, n))
    OBVIOUS
  <2> QED BY <2>1, <2>4, <2>5, <2>6 DEF Follows
<1>3. S = Nat
  <2> HIDE DEF S
  <2> QED BY <1>1, <1>2, Induct DEF S
<1> QED BY <1>3

-----------------------------------------------------------------------------
(* The structural check                                                    *)

\* What the check does at each marker.
LEMMA CheckCases ==
  ASSUME NEW src, NEW at, NEW left, NEW inner, ~(at > Len(src))
  PROVE  /\ src[at] \in {Plus, Minus, Colon} =>
              CheckFrame(src, at, left, inner) = Line(src, at + 1)
         /\ src[at] = Dollar =>
              /\ Decimal(src, at + 1) \in {Incomplete, Invalid} =>
                   CheckFrame(src, at, left, inner) = Decimal(src, at + 1)
              /\ \A n, next : Decimal(src, at + 1) = Ok(n, next) =>
                   CheckFrame(src, at, left, inner) = CheckBulk(src, next, n)
         /\ src[at] = Star =>
              /\ left = 0 => CheckFrame(src, at, left, inner) = Invalid
              /\ left # 0 /\ Decimal(src, at + 1) \in {Incomplete, Invalid} =>
                   CheckFrame(src, at, left, inner) = Decimal(src, at + 1)
              /\ \A n, next : left # 0 /\ Decimal(src, at + 1) = Ok(n, next) =>
                   CheckFrame(src, at, left, inner) =
                     IF n \in {-1, 0} THEN Ok(<<>>, next)
                     ELSE IF n \notin 1..(ArrayLimit - 1) THEN Invalid
                     ELSE Elements(inner, n, next)
         /\ src[at] \notin {Plus, Minus, Colon, Dollar, Star} =>
              CheckFrame(src, at, left, inner) = Invalid
<1> DEFINE number == Decimal(src, at + 1)
<1>1. src[at] \in {Plus, Minus, Colon} => CheckFrame(src, at, left, inner) = Line(src, at + 1)
  BY DEF CheckFrame, Then, Plus, Minus, Colon, Dollar, Star
<1>2. src[at] \notin {Plus, Minus, Colon, Dollar, Star} => CheckFrame(src, at, left, inner) = Invalid
  BY DEF CheckFrame, Plus, Minus, Colon, Dollar, Star
<1>3. number \in {Incomplete, Invalid} => number.verdict # "ok"
  BY DEF Incomplete, Invalid
<1>4. \A n, next : number = Ok(n, next) =>
        number.verdict = "ok" /\ number.value = n /\ number.next = next
  BY DEF Ok
<1>5. src[at] = Dollar =>
        CheckFrame(src, at, left, inner) =
          IF number.verdict = "ok" THEN CheckBulk(src, number.next, number.value) ELSE number
  BY DEF CheckFrame, Then, Plus, Minus, Colon, Dollar, Star
<1>6. src[at] = Star =>
        CheckFrame(src, at, left, inner) =
          IF left = 0 THEN Invalid
          ELSE IF number.verdict = "ok"
               THEN IF number.value \in {-1, 0} THEN Ok(<<>>, number.next)
                    ELSE IF number.value \notin 1..(ArrayLimit - 1) THEN Invalid
                    ELSE Elements(inner, number.value, number.next)
               ELSE number
  BY DEF CheckFrame, Then, Plus, Minus, Colon, Dollar, Star
<1> HIDE DEF number
<1>7. src[at] = Dollar =>
        /\ number \in {Incomplete, Invalid} => CheckFrame(src, at, left, inner) = number
        /\ \A n, next : number = Ok(n, next) =>
             CheckFrame(src, at, left, inner) = CheckBulk(src, next, n)
  BY <1>3, <1>4, <1>5
<1>8. ASSUME src[at] = Star
      PROVE  /\ left = 0 => CheckFrame(src, at, left, inner) = Invalid
             /\ left # 0 /\ number \in {Incomplete, Invalid} =>
                  CheckFrame(src, at, left, inner) = number
             /\ \A n, next : left # 0 /\ number = Ok(n, next) =>
                  CheckFrame(src, at, left, inner) =
                    IF n \in {-1, 0} THEN Ok(<<>>, next)
                    ELSE IF n \notin 1..(ArrayLimit - 1) THEN Invalid
                    ELSE Elements(inner, n, next)
  BY <1>3, <1>4, <1>6, <1>8
<1> USE DEF number
<1> QED BY <1>1, <1>2, <1>7, <1>8

\* What decoding does at each marker.
LEMMA DecodeCases ==
  ASSUME NEW src, NEW at, NEW inner
  PROVE  /\ src[at] \in {Plus, Minus} =>
              DecodeFrame(src, at, inner) =
                Text(IF src[at] = Plus THEN "Simple" ELSE "Error", Line(src, at + 1))
         /\ src[at] = Colon =>
              /\ Decimal(src, at + 1) \in {Incomplete, Invalid} =>
                   DecodeFrame(src, at, inner) = Decimal(src, at + 1)
              /\ \A n, next : Decimal(src, at + 1) = Ok(n, next) =>
                   DecodeFrame(src, at, inner) = Ok([type |-> "Integer", value |-> n], next)
         /\ src[at] = Dollar =>
              /\ Decimal(src, at + 1) \in {Incomplete, Invalid} =>
                   DecodeFrame(src, at, inner) = Decimal(src, at + 1)
              /\ \A n, next : Decimal(src, at + 1) = Ok(n, next) =>
                   DecodeFrame(src, at, inner) = Payload(src, next, n)
         /\ src[at] = Star =>
              /\ Decimal(src, at + 1) \in {Incomplete, Invalid} =>
                   DecodeFrame(src, at, inner) = Decimal(src, at + 1)
              /\ \A n, next : Decimal(src, at + 1) = Ok(n, next) =>
                   DecodeFrame(src, at, inner) =
                     IF n < -1 THEN Invalid
                     ELSE IF n = -1 THEN Ok([type |-> "Null"], next)
                     ELSE IF Elements(inner, n, next).verdict = "ok"
                     THEN Ok([type |-> "Array", items |-> Elements(inner, n, next).value],
                             Elements(inner, n, next).next)
                     ELSE Elements(inner, n, next)
         /\ src[at] \notin {Plus, Minus, Colon, Dollar, Star} =>
              DecodeFrame(src, at, inner) = Invalid
<1> DEFINE number == Decimal(src, at + 1)
           items  == Elements(inner, number.value, number.next)
<1>1. src[at] \in {Plus, Minus} =>
        DecodeFrame(src, at, inner) =
          Text(IF src[at] = Plus THEN "Simple" ELSE "Error", Line(src, at + 1))
  BY DEF DecodeFrame, Then, Plus, Minus, Colon, Dollar, Star
<1>2. src[at] \notin {Plus, Minus, Colon, Dollar, Star} => DecodeFrame(src, at, inner) = Invalid
  BY DEF DecodeFrame, Plus, Minus, Colon, Dollar, Star
<1>3. number \in {Incomplete, Invalid} => number.verdict # "ok"
  BY DEF Incomplete, Invalid
<1>4. \A n, next : number = Ok(n, next) =>
        number.verdict = "ok" /\ number.value = n /\ number.next = next
  BY DEF Ok
<1>5. src[at] = Colon =>
        DecodeFrame(src, at, inner) =
          IF number.verdict = "ok"
          THEN Ok([type |-> "Integer", value |-> number.value], number.next) ELSE number
  BY DEF DecodeFrame, Then, Plus, Minus, Colon, Dollar, Star
<1>6. src[at] = Dollar =>
        DecodeFrame(src, at, inner) =
          IF number.verdict = "ok" THEN Payload(src, number.next, number.value) ELSE number
  BY DEF DecodeFrame, Then, Plus, Minus, Colon, Dollar, Star
<1>7. src[at] = Star =>
        DecodeFrame(src, at, inner) =
          IF number.verdict = "ok"
          THEN IF number.value < -1 THEN Invalid
               ELSE IF number.value = -1 THEN Ok([type |-> "Null"], number.next)
               ELSE IF items.verdict = "ok"
               THEN Ok([type |-> "Array", items |-> items.value], items.next)
               ELSE items
          ELSE number
  BY DEF DecodeFrame, Then, Plus, Minus, Colon, Dollar, Star
<1> HIDE DEF number, items
<1>8. src[at] = Colon =>
        /\ number \in {Incomplete, Invalid} => DecodeFrame(src, at, inner) = number
        /\ \A n, next : number = Ok(n, next) =>
             DecodeFrame(src, at, inner) = Ok([type |-> "Integer", value |-> n], next)
  BY <1>3, <1>4, <1>5
<1>9. src[at] = Dollar =>
        /\ number \in {Incomplete, Invalid} => DecodeFrame(src, at, inner) = number
        /\ \A n, next : number = Ok(n, next) =>
             DecodeFrame(src, at, inner) = Payload(src, next, n)
  BY <1>3, <1>4, <1>6
<1>10. ASSUME src[at] = Star
       PROVE  /\ number \in {Incomplete, Invalid} => DecodeFrame(src, at, inner) = number
              /\ \A n, next : number = Ok(n, next) =>
                   DecodeFrame(src, at, inner) =
                     IF n < -1 THEN Invalid
                     ELSE IF n = -1 THEN Ok([type |-> "Null"], next)
                     ELSE IF Elements(inner, n, next).verdict = "ok"
                     THEN Ok([type |-> "Array", items |-> Elements(inner, n, next).value],
                             Elements(inner, n, next).next)
                     ELSE Elements(inner, n, next)
  <2>1. number \in {Incomplete, Invalid} => DecodeFrame(src, at, inner) = number
    BY <1>3, <1>7, <1>10
  <2>2. ASSUME NEW n, NEW next, number = Ok(n, next)
        PROVE  DecodeFrame(src, at, inner) =
                     IF n < -1 THEN Invalid
                     ELSE IF n = -1 THEN Ok([type |-> "Null"], next)
                     ELSE IF Elements(inner, n, next).verdict = "ok"
                     THEN Ok([type |-> "Array", items |-> Elements(inner, n, next).value],
                             Elements(inner, n, next).next)
                     ELSE Elements(inner, n, next)
    <3>1. number.verdict = "ok" /\ number.value = n /\ number.next = next
      BY <1>4, <2>2
    <3>2. items = Elements(inner, n, next)
      BY <3>1 DEF items
    <3> QED BY <1>7, <1>10, <3>1, <3>2
  <2> QED BY <2>1, <2>2
<1> USE DEF number
<1> QED BY <1>1, <1>2, <1>8, <1>9, <1>10

\* A bulk payload is there, is bad, or is not there yet.
LEMMA BulkOutcome ==
  ASSUME NEW src \in Seq(Nat), NEW at \in Nat \ {0}, at <= Len(src) + 1, NEW length \in Int
  PROVE  /\ CheckBulk(src, at, length) \in {Incomplete, Invalid}
            \/ \E next \in at..(Len(src) + 1) : CheckBulk(src, at, length) = Ok(<<>>, next)
         /\ CheckBulk(src, at, length) = Incomplete
            \/ \A more : Extends(more, src) => CheckBulk(more, at, length) = CheckBulk(src, at, length)
<1>1. Len(src) \in Nat
  BY LenProperties
<1>2. CheckBulk(src, at, length) \in {Incomplete, Invalid}
      \/ \E next \in at..(Len(src) + 1) : CheckBulk(src, at, length) = Ok(<<>>, next)
  BY <1>1 DEF CheckBulk
<1>3. ASSUME NEW more, Extends(more, src), CheckBulk(src, at, length) # Incomplete
      PROVE  CheckBulk(more, at, length) = CheckBulk(src, at, length)
  <2>1. /\ Len(more) \in Nat /\ Len(src) <= Len(more)
        /\ \A i \in 1..Len(src) : more[i] = src[i]
    BY <1>3, LenProperties DEF Extends
  <2>2. CASE length < 0
    BY <2>2 DEF CheckBulk
  <2>3. CASE length >= 0
    <3>1. ~(Len(src) < at + length + 1)
      BY <1>3, <2>3 DEF CheckBulk
    <3>2. at + length \in 1..Len(src) /\ at + length + 1 \in 1..Len(src)
      BY <1>1, <2>3, <3>1
    <3>3. more[at + length] = src[at + length] /\ more[at + length + 1] = src[at + length + 1]
      BY <2>1, <3>2
    <3>4. ~(Len(more) < at + length + 1)
      BY <1>1, <2>1, <2>3, <3>1
    <3> QED BY <2>3, <3>1, <3>3, <3>4 DEF CheckBulk
  <2> QED BY <2>2, <2>3
<1> QED BY <1>2, <1>3

\* Failures of a line, a number and a check; decoding may also panic.
Waits == {Incomplete, Invalid}

\* Lines and numbers wait, are rejected or go forward within the input.
LEMMA LineReads ==
  ASSUME NEW src \in Seq(Nat), NEW at \in Nat \ {0}
  PROVE  /\ Outcome(Line(src, at), Waits, at, Len(src) + 1)
         /\ Outcome(Decimal(src, at), Waits, at, Len(src) + 1)
<1>0. Len(src) \in Nat
  BY LenProperties
<1>1. Outcome(Line(src, at), Waits, at, Len(src) + 1)
  <2>1. ASSUME NEW end \in at..(Len(src) - 1),
               Line(src, at) = Ok(SubSeq(src, at, end - 1), end + 2)
        PROVE  Outcome(Line(src, at), Waits, at, Len(src) + 1)
    <3>1. end + 2 \in at..(Len(src) + 1)
      BY <1>0
    <3> QED BY <2>1, <3>1 DEF Outcome
  <2> QED BY <2>1, LineOutcome DEF Outcome, Waits
<1>2. Outcome(Decimal(src, at), Waits, at, Len(src) + 1)
  <2>1. ASSUME NEW n \in Ints, NEW next \in (at + 2)..(Len(src) + 1),
               Decimal(src, at) = Ok(n, next)
        PROVE  Outcome(Decimal(src, at), Waits, at, Len(src) + 1)
    <3>1. next \in at..(Len(src) + 1)
      BY <1>0
    <3> QED BY <2>1, <3>1 DEF Outcome
  <2> QED BY <2>1, DecimalOutcome DEF Outcome, Waits
<1> QED BY <1>1, <1>2

\* A number that is there is one of the type.
LEMMA DecimalType ==
  ASSUME NEW src \in Seq(Nat), NEW at \in Nat \ {0}
  PROVE  Decimal(src, at) \in Waits
         \/ \E n \in Ints, next \in at..(Len(src) + 1) : Decimal(src, at) = Ok(n, next)
<1>1. \A next \in (at + 2)..(Len(src) + 1) : next \in at..(Len(src) + 1)
  BY LenProperties
<1> QED BY <1>1, DecimalOutcome DEF Waits

\* The integer type and the limit are of integers.
LEMMA IntsAreIntegers == Ints \subseteq Int /\ ArrayLimit \in Nat /\ -1 \in Int
BY WireAssumption DEF Ints

\* The check of a frame waits, rejects, or goes forward within the input.
LEMMA CheckFrameOutcome ==
  ASSUME NEW src \in Seq(Nat), NEW left \in Nat, NEW inner,
         left = 0 \/ \A at \in 1..(Len(src) + 1) : Outcome(inner[at], Waits, at, Len(src) + 1),
         NEW at \in 1..(Len(src) + 1)
  PROVE  Outcome(CheckFrame(src, at, left, inner), Waits, at, Len(src) + 1)
<1> DEFINE highest == Len(src) + 1
           answer  == CheckFrame(src, at, left, inner)
<1>0. Len(src) \in Nat /\ highest \in Nat /\ 1 \in Nat
  BY LenProperties
<1>1. CASE at > Len(src)
  BY <1>1 DEF CheckFrame, Outcome, Waits
<1>2. CASE ~(at > Len(src))
  <2>1. at + 1 \in Nat \ {0} /\ at + 1 \in 1..highest
    BY <1>0, <1>2
  <2>2. /\ Outcome(Line(src, at + 1), Waits, at + 1, highest)
        /\ Outcome(Decimal(src, at + 1), Waits, at + 1, highest)
    BY <2>1, LineReads
  <2>3. \A r : Outcome(r, Waits, at + 1, highest) => Outcome(r, Waits, at, highest)
    BY <1>0 DEF Outcome
  <2>4. CASE src[at] \in {Plus, Minus, Colon}
    BY <1>2, <2>2, <2>3, <2>4, CheckCases
  <2>5. CASE src[at] = Dollar
    <3>1. CASE Decimal(src, at + 1) \in Waits
      BY <1>2, <2>5, <3>1, CheckCases DEF Outcome, Waits
    <3>2. ASSUME NEW n \in Ints, NEW next \in (at + 1)..highest,
                 Decimal(src, at + 1) = Ok(n, next)
          PROVE  Outcome(answer, Waits, at, highest)
      <4>1. answer = CheckBulk(src, next, n)
        BY <1>2, <2>5, <3>2, CheckCases
      <4>2. next \in Nat \ {0} /\ next <= Len(src) + 1 /\ n \in Int
        BY <1>0, IntsAreIntegers
      <4>3. CheckBulk(src, next, n) \in Waits
            \/ \E end \in next..highest : CheckBulk(src, next, n) = Ok(<<>>, end)
        BY <4>2, BulkOutcome DEF Waits
      <4>4. \A end \in next..highest : end \in at..highest
        BY <1>0
      <4> HIDE DEF answer, highest
      <4> QED BY <4>1, <4>3, <4>4 DEF Outcome
    <3> QED BY <2>1, <3>1, <3>2, DecimalType
  <2>6. CASE src[at] = Star
    <3>1. CASE left = 0
      BY <1>2, <2>6, <3>1, CheckCases DEF Outcome, Waits
    <3>2. CASE left # 0 /\ Decimal(src, at + 1) \in Waits
      BY <1>2, <2>6, <3>2, CheckCases DEF Outcome, Waits
    <3>3. ASSUME left # 0, NEW n \in Ints, NEW next \in (at + 1)..highest,
                 Decimal(src, at + 1) = Ok(n, next)
          PROVE  Outcome(answer, Waits, at, highest)
      <4>1. answer = IF n \in {-1, 0} THEN Ok(<<>>, next)
                     ELSE IF n \notin 1..(ArrayLimit - 1) THEN Invalid
                     ELSE Elements(inner, n, next)
        BY <1>2, <2>6, <3>3, CheckCases
      <4>2. next \in 1..highest /\ next \in at..highest
        BY <1>0
      <4>3. \A m \in Nat : Outcome(Elements(inner, m, next), Waits, next, highest)
        <5>1. Waits \in SUBSET {Incomplete, Invalid, Panic}
          BY DEF Waits
        <5>2. \A a \in 1..highest : Outcome(inner[a], Waits, a, highest)
          BY <3>3
        <5> HIDE DEF highest
        <5> QED BY <1>0, <4>2, <5>1, <5>2, ElementsOutcome
      <4>4. \A r : Outcome(r, Waits, next, highest) => Outcome(r, Waits, at, highest)
        BY <1>0, <4>2 DEF Outcome
      <4>5. CASE n \in {-1, 0}
        BY <4>1, <4>2, <4>5 DEF Outcome
      <4>6. CASE n \notin {-1, 0} /\ n \notin 1..(ArrayLimit - 1)
        BY <4>1, <4>6 DEF Outcome, Waits
      <4>7. CASE n \notin {-1, 0} /\ n \in 1..(ArrayLimit - 1)
        <5>1. n \in Nat
          BY <4>7, IntsAreIntegers
        <5>2. answer = Elements(inner, n, next)
          BY <4>1, <4>7
        <5> QED BY <4>3, <4>4, <5>1, <5>2
      <4> QED BY <4>5, <4>6, <4>7
    <3> QED BY <2>1, <3>1, <3>2, <3>3, DecimalType
  <2>7. CASE src[at] \notin {Plus, Minus, Colon, Dollar, Star}
    BY <1>2, <2>7, CheckCases DEF Outcome, Waits
  <2> QED BY <2>4, <2>5, <2>6, <2>7
<1> QED BY <1>1, <1>2

\* The check waits, rejects or goes forward, from everywhere and at every layer.
LEMMA CheckOutcome ==
  ASSUME NEW src \in Seq(Nat)
  PROVE  \A left \in Nat : \A at \in 1..(Len(src) + 1) :
           Outcome(Checks(src)[left][at], Waits, at, Len(src) + 1)
<1> DEFINE Good(left) == \A at \in 1..(Len(src) + 1) :
                           Outcome(Checks(src)[left][at], Waits, at, Len(src) + 1)
           S == {left \in Nat : Good(left)}
<1>0. Len(src) \in Nat /\ \A at \in 1..(Len(src) + 1) : at \in Nat
  BY LenProperties
<1>1. 0 \in S
  <2>1. ASSUME NEW at \in 1..(Len(src) + 1)
        PROVE  Outcome(Checks(src)[0][at], Waits, at, Len(src) + 1)
    <3>1. Checks(src)[0][at] = CheckFrame(src, at, 0, {})
      BY <1>0, ChecksSteps
    <3> QED BY <3>1, CheckFrameOutcome
  <2> QED BY <2>1
<1>2. ASSUME NEW left \in S PROVE left + 1 \in S
  <2>1. ASSUME NEW at \in 1..(Len(src) + 1)
        PROVE  Outcome(Checks(src)[left + 1][at], Waits, at, Len(src) + 1)
    <3>1. left + 1 \in Nat /\ left + 1 > 0 /\ (left + 1) - 1 = left
      OBVIOUS
    <3>2. Checks(src)[left + 1][at] = CheckFrame(src, at, left + 1, Checks(src)[left])
      BY <1>0, <3>1, ChecksSteps, SMTT(30)
    <3>3. Good(left)
      OBVIOUS
    <3> QED BY <3>1, <3>2, <3>3, CheckFrameOutcome
  <2> QED BY <2>1
<1>3. S = Nat
  <2> HIDE DEF S
  <2> QED BY <1>1, <1>2, Induct DEF S
<1> QED BY <1>3

\* Only bytes still to come change what the check says of a frame.
LEMMA CheckFrameStable ==
  ASSUME NEW src, NEW more, Extends(more, src), NEW left \in Nat, NEW inner, NEW later,
         left = 0 \/ \A at \in 1..(Len(src) + 1) :
                       /\ Outcome(inner[at], Waits, at, Len(src) + 1)
                       /\ Same(inner[at], later[at]),
         NEW at \in 1..(Len(src) + 1)
  PROVE  Same(CheckFrame(src, at, left, inner), CheckFrame(more, at, left, later))
<1> DEFINE highest == Len(src) + 1
           before  == CheckFrame(src, at, left, inner)
           after   == CheckFrame(more, at, left, later)
<1>0. /\ src \in Seq(Nat) /\ Len(src) \in Nat /\ highest \in Nat /\ 1 \in Nat
      /\ Len(more) \in Nat /\ Len(src) <= Len(more)
      /\ \A i \in 1..Len(src) : more[i] = src[i]
  BY LenProperties DEF Extends
<1>1. CASE at > Len(src)
  BY <1>1 DEF CheckFrame, Same
<1>2. CASE ~(at > Len(src))
  <2>0. ~(at > Len(more)) /\ more[at] = src[at]
    <3>1. at \in 1..Len(src)
      BY <1>0, <1>2
    <3> QED BY <1>0, <3>1
  <2>1. at + 1 \in Nat \ {0} /\ at + 1 \in 1..highest
    BY <1>0, <1>2
  <2>2. /\ Same(Line(src, at + 1), Line(more, at + 1))
        /\ Same(Decimal(src, at + 1), Decimal(more, at + 1))
    BY <2>1, LineStable, DecimalStable DEF Same
  <2>3. CASE src[at] \in {Plus, Minus, Colon}
    <3>1. before = Line(src, at + 1)
      BY <1>2, <2>3, CheckCases
    <3>2. after = Line(more, at + 1)
      BY <2>0, <2>3, CheckCases
    <3> QED BY <2>2, <3>1, <3>2
  <2>4. CASE src[at] = Dollar
    <3>1. CASE Decimal(src, at + 1) = Incomplete
      BY <1>2, <2>4, <3>1, CheckCases DEF Same
    <3>2. CASE Decimal(src, at + 1) = Invalid
      <4>1. Decimal(more, at + 1) = Invalid
        BY <2>2, <3>2 DEF Same, Incomplete, Invalid, Panic
      <4>2. before = Invalid
        BY <1>2, <2>4, <3>2, CheckCases
      <4>3. after = Invalid
        BY <2>0, <2>4, <4>1, CheckCases
      <4> QED BY <4>2, <4>3 DEF Same
    <3>3. ASSUME NEW n \in Ints, NEW next \in (at + 1)..highest,
                 Decimal(src, at + 1) = Ok(n, next)
          PROVE  Same(before, after)
      <4>1. Decimal(more, at + 1) = Ok(n, next)
        BY <2>2, <3>3 DEF Same, Incomplete, Ok, Panic
      <4>2. before = CheckBulk(src, next, n)
        BY <1>2, <2>4, <3>3, CheckCases
      <4>3. after = CheckBulk(more, next, n)
        BY <2>0, <2>4, <4>1, CheckCases
      <4>4. next \in Nat \ {0} /\ next <= Len(src) + 1 /\ n \in Int
        BY <1>0, IntsAreIntegers
      <4>5. CheckBulk(src, next, n) = Incomplete \/ CheckBulk(more, next, n) = CheckBulk(src, next, n)
        BY <1>0, <4>4, BulkOutcome
      <4> QED BY <4>2, <4>3, <4>5 DEF Same
    <3> QED BY <1>0, <2>1, <3>1, <3>2, <3>3, DecimalType DEF Waits
  <2>5. CASE src[at] = Star
    <3>1. CASE left = 0
      <4>1. before = Invalid
        BY <1>2, <2>5, <3>1, CheckCases
      <4>2. after = Invalid
        BY <2>0, <2>5, <3>1, CheckCases
      <4> QED BY <4>1, <4>2 DEF Same
    <3>2. CASE left # 0 /\ Decimal(src, at + 1) = Incomplete
      BY <1>2, <2>5, <3>2, CheckCases DEF Same
    <3>3. CASE left # 0 /\ Decimal(src, at + 1) = Invalid
      <4>1. Decimal(more, at + 1) = Invalid
        BY <2>2, <3>3 DEF Same, Incomplete, Invalid, Panic
      <4>2. before = Invalid
        BY <1>2, <2>5, <3>3, CheckCases
      <4>3. after = Invalid
        BY <2>0, <2>5, <3>3, <4>1, CheckCases
      <4> QED BY <4>2, <4>3 DEF Same
    <3>4. ASSUME left # 0, NEW n \in Ints, NEW next \in (at + 1)..highest,
                 Decimal(src, at + 1) = Ok(n, next)
          PROVE  Same(before, after)
      <4>1. Decimal(more, at + 1) = Ok(n, next)
        BY <2>2, <3>4 DEF Same, Incomplete, Ok, Panic
      <4>2. before = IF n \in {-1, 0} THEN Ok(<<>>, next)
                     ELSE IF n \notin 1..(ArrayLimit - 1) THEN Invalid
                     ELSE Elements(inner, n, next)
        BY <1>2, <2>5, <3>4, CheckCases
      <4>3. after = IF n \in {-1, 0} THEN Ok(<<>>, next)
                    ELSE IF n \notin 1..(ArrayLimit - 1) THEN Invalid
                    ELSE Elements(later, n, next)
        BY <2>0, <2>5, <3>4, <4>1, CheckCases
      <4>4. \A m \in Nat : Same(Elements(inner, m, next), Elements(later, m, next))
        <5>1. Waits \in SUBSET {Incomplete, Invalid, Panic} /\ next \in 1..highest
          BY <1>0 DEF Waits
        <5>2. \A a \in 1..highest :
                Outcome(inner[a], Waits, a, highest) /\ Same(inner[a], later[a])
          BY <3>4
        <5> HIDE DEF highest
        <5> QED BY <1>0, <5>1, <5>2, ElementsStable
      <4>5. n \in 1..(ArrayLimit - 1) => n \in Nat
        BY IntsAreIntegers
      <4> HIDE DEF before, after
      <4> QED BY <4>2, <4>3, <4>4, <4>5 DEF Same
    <3> QED BY <1>0, <2>1, <3>1, <3>2, <3>3, <3>4, DecimalType DEF Waits
  <2>6. CASE src[at] \notin {Plus, Minus, Colon, Dollar, Star}
    <3>1. before = Invalid
      BY <1>2, <2>6, CheckCases
    <3>2. after = Invalid
      BY <2>0, <2>6, CheckCases
    <3> QED BY <3>1, <3>2 DEF Same
  <2> QED BY <2>3, <2>4, <2>5, <2>6
<1> QED BY <1>1, <1>2

\* Only bytes still to come change what the check says, at every layer.
LEMMA CheckStable ==
  ASSUME NEW src, NEW more, Extends(more, src)
  PROVE  \A left \in Nat : \A at \in 1..(Len(src) + 1) :
           Same(Checks(src)[left][at], Checks(more)[left][at])
<1> DEFINE Good(left) == \A at \in 1..(Len(src) + 1) :
                           Same(Checks(src)[left][at], Checks(more)[left][at])
           S == {left \in Nat : Good(left)}
<1>0. src \in Seq(Nat) /\ Len(src) \in Nat /\ \A at \in 1..(Len(src) + 1) : at \in Nat
  BY LenProperties DEF Extends
<1>1. 0 \in S
  <2>1. ASSUME NEW at \in 1..(Len(src) + 1)
        PROVE  Same(Checks(src)[0][at], Checks(more)[0][at])
    <3>1. /\ Checks(src)[0][at] = CheckFrame(src, at, 0, {})
          /\ Checks(more)[0][at] = CheckFrame(more, at, 0, {})
      BY <1>0, ChecksSteps
    <3> QED BY <3>1, CheckFrameStable
  <2> QED BY <2>1
<1>2. ASSUME NEW left \in S PROVE left + 1 \in S
  <2>1. ASSUME NEW at \in 1..(Len(src) + 1)
        PROVE  Same(Checks(src)[left + 1][at], Checks(more)[left + 1][at])
    <3>1. left + 1 \in Nat /\ left + 1 > 0 /\ (left + 1) - 1 = left
      OBVIOUS
    <3>2. /\ Checks(src)[left + 1][at] = CheckFrame(src, at, left + 1, Checks(src)[left])
          /\ Checks(more)[left + 1][at] = CheckFrame(more, at, left + 1, Checks(more)[left])
      BY <1>0, <3>1, ChecksSteps
    <3>3. \A a \in 1..(Len(src) + 1) :
            /\ Outcome(Checks(src)[left][a], Waits, a, Len(src) + 1)
            /\ Same(Checks(src)[left][a], Checks(more)[left][a])
      BY <1>0, CheckOutcome
    <3> QED BY <3>1, <3>2, <3>3, CheckFrameStable
  <2> QED BY <2>1
<1>3. S = Nat
  <2> HIDE DEF S
  <2> QED BY <1>1, <1>2, Induct DEF S
<1> QED BY <1>3

-----------------------------------------------------------------------------
(* Decoding follows the check                                              *)

\* A sequence belongs to every set of sequences that its elements belong to.
LEMMA SeqOver ==
  ASSUME NEW S, NEW T, NEW seq \in Seq(S), \A i \in 1..Len(seq) : seq[i] \in T
  PROVE  seq \in Seq(T)
<1>1. Len(seq) \in Nat /\ seq = [i \in 1..Len(seq) |-> seq[i]]
  BY LenProperties
<1> DEFINE n == Len(seq)
           f == [i \in 1..n |-> seq[i]]
<1>2. n \in Nat /\ f \in [1..n -> T]
  BY <1>1
<1>3. seq = f
  BY <1>1
<1> HIDE DEF n, f
<1>4. f \in Seq(T)
  BY <1>2, SeqDef
<1> QED BY <1>3, <1>4

\* A sequence of bytes is one of numbers, and so are its parts.
LEMMA BytesAreNumbers ==
  ASSUME NEW src \in Seq(Byte)
  PROVE  /\ src \in Seq(Nat)
         /\ Len(src) \in Nat
         /\ \A i \in 1..Len(src) : src[i] \in Byte
         /\ \A m \in Nat \ {0}, n \in Int : n <= Len(src) =>
              /\ SubSeq(src, m, n) \in Seq(Byte)
              /\ Len(SubSeq(src, m, n)) = IF m <= n THEN n - m + 1 ELSE 0
              /\ \A i \in 1..(n - m + 1) : SubSeq(src, m, n)[i] = src[m + i - 1]
<1>1. Len(src) \in Nat /\ \A i \in 1..Len(src) : src[i] \in Byte
  BY LenProperties, ElementOfSeq
<1>2. Byte \subseteq Nat
  BY DEF Byte
<1>3. src \in Seq(Nat)
  BY <1>1, <1>2, SeqOver
<1>4. ASSUME NEW m \in Nat \ {0}, NEW n \in Int, n <= Len(src)
      PROVE  /\ SubSeq(src, m, n) \in Seq(Byte)
             /\ Len(SubSeq(src, m, n)) = IF m <= n THEN n - m + 1 ELSE 0
             /\ \A i \in 1..(n - m + 1) : SubSeq(src, m, n)[i] = src[m + i - 1]
  <2>1. ASSUME NEW i \in m..n PROVE src[i] \in Byte
    <3>1. i \in 1..Len(src)
      BY <1>1, <1>4
    <3> QED BY <1>1, <3>1
  <2> QED BY <2>1, SubSeqProperties
<1> QED BY <1>1, <1>3, <1>4

\* What belongs to a layer.
LEMMA FramesMember ==
  ASSUME NEW left \in Nat
  PROVE  /\ Elementary \subseteq FramesWithin[left]
         /\ left # 0 => \A items \in Seq(FramesWithin[left - 1]) :
              Len(items) < ArrayLimit =>
                [type |-> "Array", items |-> items] \in FramesWithin[left]
<1>1. CASE left = 0
  BY <1>1, FramesSteps
<1>2. CASE left # 0
  <2>1. left - 1 \in Nat /\ (left - 1) + 1 = left
    BY <1>2
  <2>2. FramesWithin[left] =
          Elementary \cup
            [type  : {"Array"},
             items : {items \in Seq(FramesWithin[left - 1]) : Len(items) < ArrayLimit}]
    BY <2>1, FramesSteps
  <2> QED BY <2>2
<1> QED BY <1>1, <1>2

\* The text of a line consists of bytes that are no line ends.
LEMMA LineText ==
  ASSUME NEW src \in Seq(Byte), NEW at \in Nat \ {0}, NEW text, NEW next,
         Line(src, at) = Ok(text, next)
  PROVE  /\ text \in Seq(Byte) /\ text \in Seq(Nat)
         /\ text \in Seq(TextByte)
<1>1. PICK end \in at..(Len(src) - 1) :
         /\ Line(src, at) = Ok(SubSeq(src, at, end - 1), end + 2)
         /\ \A i \in at..(end - 1) : src[i] \notin {CR, LF}
  <2>1. src \in Seq(Nat) /\ Line(src, at) # Incomplete /\ Line(src, at) # Invalid
    BY BytesAreNumbers DEF Ok, Incomplete, Invalid
  <2> QED BY <2>1, LineOutcome
<1>2. text = SubSeq(src, at, end - 1)
  BY <1>1 DEF Ok
<1>3. Len(src) \in Nat
  BY LenProperties
<1>4. end - 1 \in Int /\ end - 1 <= Len(src)
  BY <1>3
<1>5. text \in Seq(Byte)
  BY <1>2, <1>4, BytesAreNumbers
<1>6. text \in Seq(Nat)
  BY <1>5, BytesAreNumbers
<1>7. text \in Seq(TextByte)
  <2>1. Len(text) \in Nat /\ Len(text) = IF at <= end - 1 THEN end - at ELSE 0
    BY <1>2, <1>4, BytesAreNumbers
  <2>2. ASSUME NEW i \in 1..Len(text) PROVE text[i] \in TextByte
    <3>1. i \in 1..((end - 1) - at + 1) /\ at + i - 1 \in at..(end - 1)
      BY <2>1
    <3>2. text[i] = src[at + i - 1]
      BY <1>2, <1>4, <3>1, BytesAreNumbers, SMTT(30)
    <3>3. text[i] \notin {CR, LF}
      BY <1>1, <3>1, <3>2
    <3>4. text[i] \in Byte
      BY <1>5, ElementOfSeq
    <3> QED BY <3>3, <3>4 DEF TextByte
  <2> QED BY <1>5, <2>2, SeqOver
<1> QED BY <1>5, <1>6, <1>7

\* Decoding a frame goes where its check went.
LEMMA DecodeFrameFollows ==
  ASSUME NEW src \in Seq(Byte), NEW left \in Nat, NEW inner, NEW deeper,
         NEW at \in 1..Len(src),
         left = 0 \/ \A a \in (at + 1)..(Len(src) + 1) :
                       /\ Outcome(inner[a], Waits, a, Len(src) + 1)
                       /\ Follows(inner[a], deeper[a], FramesWithin[left - 1])
  PROVE  Follows(CheckFrame(src, at, left, inner), DecodeFrame(src, at, deeper), FramesWithin[left])
<1> SUFFICES ASSUME NEW value, NEW next, CheckFrame(src, at, left, inner) = Ok(value, next)
             PROVE  \/ DecodeFrame(src, at, deeper) = Invalid
                    \/ \E frame \in FramesWithin[left] :
                         DecodeFrame(src, at, deeper) = Ok(frame, next)
  BY DEF Follows
<1> DEFINE highest == Len(src) + 1
           checked == CheckFrame(src, at, left, inner)
           decoded == DecodeFrame(src, at, deeper)
           Right   == decoded = Invalid \/ \E frame \in FramesWithin[left] : decoded = Ok(frame, next)
<1>0. /\ src \in Seq(Nat) /\ Len(src) \in Nat /\ ~(at > Len(src))
      /\ at + 1 \in Nat \ {0} /\ at + 1 \in 1..highest
  BY BytesAreNumbers
<1>1. checked \notin Waits
  BY DEF Ok, Waits, Incomplete, Invalid
<1>2. ASSUME NEW frame \in Elementary, decoded = Ok(frame, next) PROVE Right
  BY <1>2, FramesMember
<1>3. CASE src[at] \in {Plus, Minus}
  <2>1. Line(src, at + 1) = Ok(value, next)
    BY <1>0, <1>3, CheckCases
  <2>2. decoded = Text(IF src[at] = Plus THEN "Simple" ELSE "Error", Ok(value, next))
    BY <1>3, <2>1, DecodeCases
  <2>3. CASE IsUtf8(value)
    <3> DEFINE frame == [type |-> IF src[at] = Plus THEN "Simple" ELSE "Error", data |-> value]
    <3>1. decoded = Ok(frame, next)
      BY <2>2, <2>3 DEF Text, Then, Ok
    <3>2. value \in Texts
      BY <1>0, <2>1, <2>3, LineText DEF Texts
    <3>3. frame \in Elementary
      BY <3>2 DEF Elementary
    <3> HIDE DEF frame
    <3> QED BY <1>2, <3>1, <3>3
  <2>4. CASE ~IsUtf8(value)
    BY <2>2, <2>4 DEF Text, Then, Ok
  <2> QED BY <2>3, <2>4
<1>4. CASE src[at] = Colon
  <2>1. Line(src, at + 1) = Ok(value, next)
    BY <1>0, <1>4, CheckCases
  <2>2. Decimal(src, at + 1) = Number(value, next)
    BY <2>1 DEF Decimal, Then, Ok
  <2>3. value \in Seq(Nat)
    BY <1>0, <2>1, LineText
  <2>4. CASE Number(value, next) = Invalid
    BY <1>4, <2>2, <2>4, DecodeCases
  <2>5. ASSUME NEW n \in Ints, Number(value, next) = Ok(n, next) PROVE Right
    <3> DEFINE frame == [type |-> "Integer", value |-> n]
    <3>1. decoded = Ok(frame, next)
      BY <1>4, <2>2, <2>5, DecodeCases
    <3>2. frame \in Elementary
      BY DEF Elementary
    <3> HIDE DEF frame
    <3> QED BY <1>2, <3>1, <3>2
  <2> QED BY <2>3, <2>4, <2>5, NumberOutcome
<1>5. CASE src[at] = Dollar
  <2>1. Decimal(src, at + 1) \notin Waits
    BY <1>0, <1>1, <1>5, CheckCases DEF Waits
  <2>2. PICK n \in Ints, start \in (at + 1)..highest : Decimal(src, at + 1) = Ok(n, start)
    BY <1>0, <2>1, DecimalType
  <2>3. CheckBulk(src, start, n) = Ok(value, next)
    BY <1>0, <1>5, <2>2, CheckCases
  <2>4. decoded = Payload(src, start, n)
    BY <1>5, <2>2, DecodeCases
  <2>5. n \in Int /\ n <= MaxInt /\ start \in Nat \ {0}
    BY <1>0, WireAssumption DEF Ints
  <2>6. CASE n = -1
    <3> DEFINE frame == [type |-> "Null"]
    <3>1. next = start
      BY <2>3, <2>6 DEF CheckBulk, Ok
    <3>2. decoded = Ok(frame, next)
      BY <2>4, <2>6, <3>1 DEF Payload
    <3>3. frame \in Elementary
      BY DEF Elementary
    <3> HIDE DEF frame
    <3> QED BY <1>2, <3>2, <3>3
  <2>7. CASE n # -1
    <3> DEFINE data  == SubSeq(src, start, start + n - 1)
               frame == [type |-> "Bulk", data |-> data]
    <3>1. n >= 0 /\ ~(Len(src) < start + n + 1) /\ next = start + n + 2
      BY <2>3, <2>5, <2>7 DEF CheckBulk, Ok, Invalid, Incomplete
    <3>2. decoded = Ok(frame, next)
      BY <2>4, <2>5, <2>7, <3>1 DEF Payload
    <3>3. data \in Seq(Byte) /\ Len(data) <= MaxInt
      <4>1. start + n - 1 \in Int /\ start + n - 1 <= Len(src)
        BY <1>0, <2>5, <3>1
      <4>2. data \in Seq(Byte) /\ Len(data) = IF start <= start + n - 1 THEN (start + n - 1) - start + 1 ELSE 0
        BY <2>5, <4>1, BytesAreNumbers
      <4> HIDE DEF data
      <4> QED BY <2>5, <3>1, <4>2
    <3>4. frame \in Elementary
      BY <3>3 DEF Elementary
    <3> HIDE DEF frame
    <3> QED BY <1>2, <3>2, <3>4
  <2> QED BY <2>6, <2>7
<1>6. CASE src[at] = Star
  <2>1. left # 0
    BY <1>0, <1>1, <1>6, CheckCases DEF Waits
  <2>2. Decimal(src, at + 1) \notin Waits
    BY <1>0, <1>1, <1>6, <2>1, CheckCases DEF Waits
  <2>3. PICK n \in Ints, start \in (at + 1)..highest : Decimal(src, at + 1) = Ok(n, start)
    BY <1>0, <2>2, DecimalType
  <2>4. checked = IF n \in {-1, 0} THEN Ok(<<>>, start)
                  ELSE IF n \notin 1..(ArrayLimit - 1) THEN Invalid
                  ELSE Elements(inner, n, start)
    <3>1. \A k, e : Decimal(src, at + 1) = Ok(k, e) =>
            checked = IF k \in {-1, 0} THEN Ok(<<>>, e)
                      ELSE IF k \notin 1..(ArrayLimit - 1) THEN Invalid
                      ELSE Elements(inner, k, e)
      BY <1>0, <1>6, <2>1, CheckCases, SMTT(30)
    <3> HIDE DEF checked
    <3> QED BY <2>3, <3>1
  <2>5. decoded = IF n < -1 THEN Invalid
                  ELSE IF n = -1 THEN Ok([type |-> "Null"], start)
                  ELSE IF Elements(deeper, n, start).verdict = "ok"
                  THEN Ok([type |-> "Array", items |-> Elements(deeper, n, start).value],
                          Elements(deeper, n, start).next)
                  ELSE Elements(deeper, n, start)
    BY <1>6, <2>3, DecodeCases
  <2>6. n \in Int /\ ArrayLimit \in Nat /\ 0 < ArrayLimit
    BY WireAssumption DEF Ints
  <2>7. ASSUME NEW items \in Seq(FramesWithin[left - 1]), Len(items) < ArrayLimit,
               n \in Nat, Elements(deeper, n, start) = Ok(items, next)
        PROVE  Right
    <3> DEFINE frame == [type |-> "Array", items |-> items]
    <3>1. decoded = Ok(frame, next)
      BY <2>5, <2>7 DEF Ok
    <3>2. frame \in FramesWithin[left]
      BY <2>1, <2>7, FramesMember
    <3> HIDE DEF frame
    <3> QED BY <3>1, <3>2
  <2>8. CASE n = -1
    <3> DEFINE frame == [type |-> "Null"]
    <3>1. next = start
      BY <2>4, <2>8 DEF Ok
    <3>2. decoded = Ok(frame, next)
      BY <2>5, <2>8, <3>1
    <3>3. frame \in Elementary
      BY DEF Elementary
    <3> HIDE DEF frame
    <3> QED BY <1>2, <3>2, <3>3
  <2>9. CASE n = 0
    <3>1. next = start
      BY <2>4, <2>9 DEF Ok
    <3>2. Elements(deeper, n, start) = Ok(<<>>, next)
      BY <2>9, <3>1, ElementsSteps
    <3>3. <<>> \in Seq(FramesWithin[left - 1]) /\ Len(<<>>) < ArrayLimit
      BY <2>6, EmptySeq
    <3>4. n \in Nat
      BY <2>9
    <3> QED BY <2>7, <3>2, <3>3, <3>4
  <2>10. CASE n \notin {-1, 0}
    <3>1. n \in 1..(ArrayLimit - 1) /\ Elements(inner, n, start) = Ok(value, next)
      BY <2>4, <2>10 DEF Ok, Invalid
    <3>2. n \in Nat
      BY <2>6, <3>1
    <3>3. Follows(Elements(inner, n, start), Elements(deeper, n, start),
                  Rows(FramesWithin[left - 1], n))
      <4> DEFINE lowest == at + 1
                 Values == FramesWithin[left - 1]
      <4>1. Waits \in SUBSET {Incomplete, Invalid, Panic} /\ lowest \in Nat /\ highest \in Nat
        BY <1>0 DEF Waits
      <4>2. \A a \in lowest..highest :
              Outcome(inner[a], Waits, a, highest) /\ Follows(inner[a], deeper[a], Values)
        BY <2>1
      <4>3. start \in lowest..highest
        OBVIOUS
      <4> HIDE DEF highest, lowest, Values
      <4>4. \A m \in Nat : Follows(Elements(inner, m, start), Elements(deeper, m, start),
                                   Rows(Values, m))
        BY <4>1, <4>2, <4>3, ElementsFollow
      <4> QED BY <3>2, <4>4 DEF Values
    <3>4. CASE Elements(deeper, n, start) = Invalid
      BY <2>5, <2>10, <3>2, <3>4 DEF Invalid
    <3>5. ASSUME NEW items \in Seq(FramesWithin[left - 1]), Len(items) = n,
                 Elements(deeper, n, start) = Ok(items, next)
          PROVE  Right
      <4>1. Len(items) < ArrayLimit
        BY <2>6, <3>1, <3>5
      <4> QED BY <2>7, <3>2, <3>5, <4>1
    <3> QED BY <3>1, <3>3, <3>4, <3>5 DEF Follows, Rows
  <2> QED BY <2>8, <2>9, <2>10
<1>7. CASE src[at] \notin {Plus, Minus, Colon, Dollar, Star}
  BY <1>0, <1>1, <1>7, CheckCases DEF Waits
<1> QED BY <1>3, <1>4, <1>5, <1>6, <1>7

\* As many layers of decoding as there are bytes left are enough.
LEMMA DecodeFollows ==
  ASSUME NEW src \in Seq(Byte)
  PROVE  \A left \in Nat : \A m \in Nat, at \in 1..(Len(src) + 1) :
           at + m >= Len(src) + 1 =>
             Follows(Checks(src)[left][at], Decodings(src)[m][at], FramesWithin[left])
<1> DEFINE Good(left) ==
             \A m \in Nat, at \in 1..(Len(src) + 1) :
               at + m >= Len(src) + 1 =>
                 Follows(Checks(src)[left][at], Decodings(src)[m][at], FramesWithin[left])
           S == {left \in Nat : Good(left)}
<1>0. src \in Seq(Nat) /\ Len(src) \in Nat /\ \A at \in 1..(Len(src) + 1) : at \in Nat
  BY BytesAreNumbers
<1>1. ASSUME NEW left \in Nat, left = 0 \/ Good(left - 1)
      PROVE  Good(left)
  <2> SUFFICES ASSUME NEW m \in Nat, NEW at \in 1..(Len(src) + 1), at + m >= Len(src) + 1
               PROVE  Follows(Checks(src)[left][at], Decodings(src)[m][at], FramesWithin[left])
    OBVIOUS
  <2> DEFINE inner == IF left = 0 THEN {} ELSE Checks(src)[left - 1]
             deeper == Decodings(src)[m - 1]
  <2>1. Checks(src)[left][at] = CheckFrame(src, at, left, inner)
    BY <1>0, ChecksSteps
  <2>2. CASE at > Len(src)
    <3>1. Checks(src)[left][at] = Incomplete
      BY <2>1, <2>2 DEF CheckFrame
    <3> QED BY <3>1 DEF Follows, Ok, Incomplete
  <2>3. CASE ~(at > Len(src))
    <3>1. at \in 1..Len(src) /\ m > 0 /\ m - 1 \in Nat
      BY <1>0, <2>3
    <3>2. Decodings(src)[m][at] = DecodeFrame(src, at, deeper)
      BY <1>0, <2>3, <3>1, DecodingsSteps
    <3>3. ASSUME left # 0, NEW a \in (at + 1)..(Len(src) + 1)
          PROVE  /\ Outcome(inner[a], Waits, a, Len(src) + 1)
                 /\ Follows(inner[a], deeper[a], FramesWithin[left - 1])
      <4>1. a \in 1..(Len(src) + 1) /\ left - 1 \in Nat /\ a + (m - 1) >= Len(src) + 1
        BY <1>0, <3>1, <3>3
      <4>2. inner[a] = Checks(src)[left - 1][a]
        BY <3>3
      <4>3. Outcome(inner[a], Waits, a, Len(src) + 1)
        BY <1>0, <4>1, <4>2, CheckOutcome
      <4>4. Follows(Checks(src)[left - 1][a], Decodings(src)[m - 1][a], FramesWithin[left - 1])
        BY <1>1, <3>1, <3>3, <4>1
      <4> QED BY <4>2, <4>3, <4>4
    <3> HIDE DEF inner, deeper
    <3> QED BY <2>1, <3>1, <3>2, <3>3, DecodeFrameFollows
  <2> QED BY <2>2, <2>3
<1>2. 0 \in S
  BY <1>1
<1>3. ASSUME NEW left \in S PROVE left + 1 \in S
  <2>1. left + 1 \in Nat /\ (left + 1) - 1 = left /\ Good(left)
    OBVIOUS
  <2> HIDE DEF Good
  <2> QED BY <1>1, <2>1
<1>4. S = Nat
  <2> HIDE DEF S
  <2> QED BY <1>2, <1>3, Induct DEF S
<1> QED BY <1>4

-----------------------------------------------------------------------------
(* Only bytes still to come change an answer                               *)

Failures == {Incomplete, Invalid, Panic}

\* A text and a payload as answers of the decoder.
LEMMA TextOutcome ==
  ASSUME NEW type, NEW line, NEW later, NEW lowest, NEW highest,
         Outcome(line, Waits, lowest, highest), Same(line, later)
  PROVE  /\ Outcome(Text(type, line), Failures, lowest, highest)
         /\ Same(Text(type, line), Text(type, later))
<1>1. CASE line \in Waits
  <2>1. Text(type, line) = line
    BY <1>1 DEF Text, Then, Waits, Incomplete, Invalid
  <2>2. line = Invalid => later = line
    BY DEF Same, Incomplete, Invalid, Panic
  <2> QED BY <1>1, <2>1, <2>2 DEF Outcome, Failures, Same, Waits
<1>2. ASSUME NEW text, NEW next, next \in lowest..highest, line = Ok(text, next)
      PROVE  /\ Outcome(Text(type, line), Failures, lowest, highest)
             /\ Same(Text(type, line), Text(type, later))
  <2>1. Text(type, line) = IF IsUtf8(text) THEN Ok([type |-> type, data |-> text], next) ELSE Invalid
    BY <1>2 DEF Text, Then, Ok
  <2>2. later = line
    BY <1>2 DEF Same, Ok, Incomplete, Panic
  <2> QED BY <1>2, <2>1, <2>2 DEF Outcome, Failures, Same
<1> QED BY <1>1, <1>2 DEF Outcome

\* A payload is there, is rejected or runs out of the input, and what is there stays.
LEMMA PayloadOutcome ==
  ASSUME NEW src \in Seq(Nat), NEW at \in Nat \ {0}, at <= Len(src) + 1, NEW length \in Int
  PROVE  /\ Outcome(Payload(src, at, length), Failures, at, Len(src) + 1)
         /\ \A more : Extends(more, src) => Same(Payload(src, at, length), Payload(more, at, length))
<1> DEFINE highest == Len(src) + 1
<1>0. Len(src) \in Nat
  BY LenProperties
<1>1. CASE length < 0
  BY <1>0, <1>1 DEF Payload, Outcome, Failures, Same
<1>2. CASE length >= 0 /\ Len(src) < at + length + 1
  <2>1. Payload(src, at, length) = Panic
    BY <1>2 DEF Payload
  <2> QED BY <2>1 DEF Outcome, Failures, Same
<1>3. CASE length >= 0 /\ ~(Len(src) < at + length + 1)
  <2>1. \A s : ~(Len(s) < at + length + 1) =>
          Payload(s, at, length) =
            Ok([type |-> "Bulk", data |-> SubSeq(s, at, at + length - 1)], at + length + 2)
    BY <1>3 DEF Payload
  <2>2. at + length + 2 \in at..highest
    BY <1>0, <1>3
  <2>3. ASSUME NEW more, Extends(more, src)
        PROVE  Payload(more, at, length) = Payload(src, at, length)
    <3>1. /\ more \in Seq(Nat) /\ Len(more) \in Nat /\ Len(src) <= Len(more)
          /\ \A i \in 1..Len(src) : more[i] = src[i]
      BY <2>3, LenProperties DEF Extends
    <3>2. ~(Len(more) < at + length + 1)
      BY <1>0, <1>3, <3>1
    <3>3. at + length - 1 \in Int /\ at + length - 1 <= Len(src) /\ at + length - 1 <= Len(more)
      BY <1>0, <1>3, <3>1
    <3>4. ASSUME NEW i \in at..(at + length - 1) PROVE more[i] = src[i]
      <4>1. i \in 1..Len(src)
        BY <1>0, <3>3
      <4> QED BY <3>1, <4>1
    <3>5. SubSeq(more, at, at + length - 1) = SubSeq(src, at, at + length - 1)
      BY <3>1, <3>3, <3>4, SamePart
    <3> QED BY <1>3, <2>1, <3>2, <3>5
  <2> QED BY <1>3, <2>1, <2>2, <2>3 DEF Outcome, Same
<1> QED BY <1>0, <1>1, <1>2, <1>3

\* Decoding a frame fails or goes forward within the input.
LEMMA DecodeFrameOutcome ==
  ASSUME NEW src \in Seq(Nat), NEW inner, NEW at \in 1..Len(src),
         \A a \in 1..(Len(src) + 1) : Outcome(inner[a], Failures, a, Len(src) + 1)
  PROVE  Outcome(DecodeFrame(src, at, inner), Failures, at, Len(src) + 1)
<1> DEFINE highest == Len(src) + 1
           answer  == DecodeFrame(src, at, inner)
<1>0. Len(src) \in Nat /\ at + 1 \in Nat \ {0} /\ at + 1 \in 1..highest
  BY LenProperties
<1>1. /\ Outcome(Line(src, at + 1), Waits, at + 1, highest)
      /\ Outcome(Decimal(src, at + 1), Waits, at + 1, highest)
  BY <1>0, LineReads
<1>2. ASSUME NEW r, NEW from \in at..highest, Outcome(r, Failures, from, highest)
      PROVE  Outcome(r, Failures, at, highest)
  <2>1. \A e \in from..highest : e \in at..highest
    BY <1>0
  <2> QED BY <1>2, <2>1 DEF Outcome
<1>3. \A r \in Waits : Outcome(r, Failures, at, highest)
  BY DEF Outcome, Waits, Failures
<1>4. at + 1 \in at..highest
  BY <1>0
<1>5. CASE src[at] \in {Plus, Minus}
  <2>1. PICK type : answer = Text(type, Line(src, at + 1))
    BY <1>5, DecodeCases
  <2>2. Same(Line(src, at + 1), Line(src, at + 1))
    BY DEF Same
  <2>3. Outcome(answer, Failures, at + 1, highest)
    BY <1>1, <2>1, <2>2, TextOutcome
  <2> QED BY <1>2, <1>4, <2>3
<1>6. CASE src[at] \in {Colon, Dollar, Star} /\ Decimal(src, at + 1) \in Waits
  <2>1. answer = Decimal(src, at + 1)
    BY <1>6, DecodeCases DEF Waits
  <2> QED BY <1>3, <1>6, <2>1
<1>7. ASSUME src[at] \in {Colon, Dollar, Star}, NEW n \in Ints, NEW next \in (at + 1)..highest,
             Decimal(src, at + 1) = Ok(n, next)
      PROVE  Outcome(answer, Failures, at, highest)
  <2>0. n \in Int /\ next \in at..highest /\ next \in 1..highest /\ next \in Nat \ {0}
    BY <1>0, IntsAreIntegers
  <2>1. CASE src[at] = Colon
    <3>1. answer = Ok([type |-> "Integer", value |-> n], next)
      BY <1>7, <2>1, DecodeCases
    <3> QED BY <2>0, <3>1 DEF Outcome
  <2>2. CASE src[at] = Dollar
    <3>1. answer = Payload(src, next, n)
      BY <1>7, <2>2, DecodeCases
    <3>2. Outcome(Payload(src, next, n), Failures, next, highest)
      BY <1>0, <2>0, PayloadOutcome
    <3> QED BY <1>2, <2>0, <3>1, <3>2
  <2>3. CASE src[at] = Star
    <3> DEFINE items == Elements(inner, n, next)
    <3>1. answer = IF n < -1 THEN Invalid
                   ELSE IF n = -1 THEN Ok([type |-> "Null"], next)
                   ELSE IF items.verdict = "ok"
                   THEN Ok([type |-> "Array", items |-> items.value], items.next)
                   ELSE items
      BY <1>7, <2>3, DecodeCases
    <3>2. CASE n < -1
      BY <3>1, <3>2 DEF Outcome, Failures
    <3>3. CASE n = -1
      BY <2>0, <3>1, <3>3 DEF Outcome
    <3>4. CASE n >= 0
      <4>1. Outcome(items, Failures, next, highest)
        <5>1. Failures \in SUBSET {Incomplete, Invalid, Panic} /\ highest \in Nat /\ 1 \in Nat /\ n \in Nat
          BY <1>0, <2>0, <3>4 DEF Failures
        <5>2. \A a \in 1..highest : Outcome(inner[a], Failures, a, highest)
          OBVIOUS
        <5> HIDE DEF highest
        <5> QED BY <2>0, <5>1, <5>2, ElementsOutcome
      <4>2. CASE items \in Failures
        <5>1. items.verdict # "ok"
          BY <4>2 DEF Failures, Incomplete, Invalid, Panic
        <5>2. answer = items
          BY <2>0, <3>1, <3>4, <5>1
        <5> QED BY <4>2, <5>2 DEF Outcome
      <4>3. ASSUME NEW values, NEW end, end \in next..highest, items = Ok(values, end)
            PROVE  Outcome(answer, Failures, at, highest)
        <5>1. items.verdict = "ok" /\ items.next = end
          BY <4>3 DEF Ok
        <5>2. answer = Ok([type |-> "Array", items |-> items.value], end)
          BY <2>0, <3>1, <3>4, <5>1
        <5>3. end \in at..highest
          BY <1>0, <4>3
        <5> QED BY <5>2, <5>3 DEF Outcome
      <4> QED BY <4>1, <4>2, <4>3 DEF Outcome
    <3> QED BY <2>0, <3>2, <3>3, <3>4
  <2> QED BY <1>7, <2>1, <2>2, <2>3
<1>8. CASE src[at] \notin {Plus, Minus, Colon, Dollar, Star}
  <2>1. answer = Invalid
    BY <1>8, DecodeCases
  <2> QED BY <2>1 DEF Outcome, Failures
<1> QED BY <1>0, <1>5, <1>6, <1>7, <1>8, DecimalType

\* Decoding fails or goes forward, from everywhere and with any number of layers.
LEMMA DecodingsOutcome ==
  ASSUME NEW src \in Seq(Nat)
  PROVE  \A m \in Nat : \A at \in 1..(Len(src) + 1) :
           Outcome(Decodings(src)[m][at], Failures, at, Len(src) + 1)
<1> DEFINE Good(m) == \A at \in 1..(Len(src) + 1) :
                        Outcome(Decodings(src)[m][at], Failures, at, Len(src) + 1)
           S == {m \in Nat : Good(m)}
<1>0. Len(src) \in Nat /\ \A at \in 1..(Len(src) + 1) : at \in Nat
  BY LenProperties
<1>1. Outcome(Panic, Failures, 0, 0) /\ \A a, b : Outcome(Panic, Failures, a, b)
  BY DEF Outcome, Failures
<1>2. 0 \in S
  BY <1>0, <1>1, DecodingsSteps
<1>3. ASSUME NEW m \in S PROVE m + 1 \in S
  <2>1. ASSUME NEW at \in 1..(Len(src) + 1)
        PROVE  Outcome(Decodings(src)[m + 1][at], Failures, at, Len(src) + 1)
    <3>1. m + 1 \in Nat /\ m + 1 > 0 /\ (m + 1) - 1 = m /\ Good(m)
      OBVIOUS
    <3>2. CASE at > Len(src)
      BY <1>0, <1>1, <3>1, <3>2, DecodingsSteps
    <3>3. CASE ~(at > Len(src))
      <4>1. Decodings(src)[m + 1][at] = DecodeFrame(src, at, Decodings(src)[m])
        BY <1>0, <3>1, <3>3, DecodingsSteps
      <4>2. at \in 1..Len(src)
        BY <1>0, <3>3
      <4> QED BY <3>1, <4>1, <4>2, DecodeFrameOutcome
    <3> QED BY <3>2, <3>3
  <2> QED BY <2>1
<1>4. S = Nat
  <2> HIDE DEF S
  <2> QED BY <1>2, <1>3, Induct DEF S
<1> QED BY <1>4

\* Only bytes still to come change what a frame is decoded to.
LEMMA DecodeFrameStable ==
  ASSUME NEW src, NEW more, Extends(more, src), NEW inner, NEW later, NEW at \in 1..Len(src),
         \A a \in 1..(Len(src) + 1) :
           Outcome(inner[a], Failures, a, Len(src) + 1) /\ Same(inner[a], later[a])
  PROVE  Same(DecodeFrame(src, at, inner), DecodeFrame(more, at, later))
<1> DEFINE highest == Len(src) + 1
           before  == DecodeFrame(src, at, inner)
           after   == DecodeFrame(more, at, later)
<1>0. /\ src \in Seq(Nat) /\ Len(src) \in Nat /\ more[at] = src[at]
      /\ at + 1 \in Nat \ {0} /\ at + 1 \in 1..highest
  BY LenProperties DEF Extends
<1>1. /\ Same(Line(src, at + 1), Line(more, at + 1))
      /\ Same(Decimal(src, at + 1), Decimal(more, at + 1))
  BY <1>0, LineStable, DecimalStable DEF Same
<1>2. CASE src[at] \in {Plus, Minus}
  <2> DEFINE type == IF src[at] = Plus THEN "Simple" ELSE "Error"
  <2>1. before = Text(type, Line(src, at + 1))
    BY <1>2, DecodeCases
  <2>2. after = Text(type, Line(more, at + 1))
    BY <1>0, <1>2, DecodeCases
  <2>3. Outcome(Line(src, at + 1), Waits, at + 1, highest)
    BY <1>0, LineReads
  <2>4. Same(Text(type, Line(src, at + 1)), Text(type, Line(more, at + 1)))
    <3> HIDE DEF type, highest
    <3> QED BY <1>1, <2>3, TextOutcome
  <2> QED BY <2>1, <2>2, <2>4
<1>3. CASE src[at] \in {Colon, Dollar, Star} /\ Decimal(src, at + 1) = Incomplete
  <2>1. before = Incomplete
    BY <1>3, DecodeCases
  <2> QED BY <2>1 DEF Same
<1>4. CASE src[at] \in {Colon, Dollar, Star} /\ Decimal(src, at + 1) = Invalid
  <2>1. Decimal(more, at + 1) = Invalid
    BY <1>1, <1>4 DEF Same, Incomplete, Invalid, Panic
  <2>2. before = Invalid
    BY <1>4, DecodeCases
  <2>3. after = Invalid
    BY <1>0, <1>4, <2>1, DecodeCases
  <2> QED BY <2>2, <2>3 DEF Same
<1>5. ASSUME src[at] \in {Colon, Dollar, Star}, NEW n \in Ints, NEW next \in (at + 1)..highest,
             Decimal(src, at + 1) = Ok(n, next)
      PROVE  Same(before, after)
  <2>0. n \in Int /\ next \in 1..highest /\ next \in Nat \ {0}
    BY <1>0, IntsAreIntegers
  <2>1. Decimal(more, at + 1) = Ok(n, next)
    BY <1>1, <1>5 DEF Same, Incomplete, Ok, Panic
  <2>2. CASE src[at] = Colon
    <3>1. before = Ok([type |-> "Integer", value |-> n], next)
      BY <1>5, <2>2, DecodeCases
    <3>2. after = Ok([type |-> "Integer", value |-> n], next)
      BY <1>0, <2>1, <2>2, DecodeCases
    <3> QED BY <3>1, <3>2 DEF Same
  <2>3. CASE src[at] = Dollar
    <3>1. before = Payload(src, next, n)
      BY <1>5, <2>3, DecodeCases
    <3>2. after = Payload(more, next, n)
      BY <1>0, <2>1, <2>3, DecodeCases
    <3> QED BY <1>0, <2>0, <3>1, <3>2, PayloadOutcome
  <2>4. CASE src[at] = Star
    <3> DEFINE items  == Elements(inner, n, next)
               items2 == Elements(later, n, next)
               Whole(elements) ==
                 IF n < -1 THEN Invalid
                 ELSE IF n = -1 THEN Ok([type |-> "Null"], next)
                 ELSE IF elements.verdict = "ok"
                 THEN Ok([type |-> "Array", items |-> elements.value], elements.next)
                 ELSE elements
    <3>1. before = Whole(items)
      BY <1>5, <2>4, DecodeCases
    <3>2. after = Whole(items2)
      BY <1>0, <2>1, <2>4, DecodeCases
    <3>3. CASE n < 0
      <4>1. before = after
        BY <2>0, <3>1, <3>2, <3>3
      <4> QED BY <4>1 DEF Same
    <3>4. CASE n >= 0
      <4>1. Same(items, items2)
        <5>1. Failures \in SUBSET {Incomplete, Invalid, Panic} /\ highest \in Nat /\ 1 \in Nat /\ n \in Nat
          BY <1>0, <2>0, <3>4 DEF Failures
        <5>2. \A a \in 1..highest :
                Outcome(inner[a], Failures, a, highest) /\ Same(inner[a], later[a])
          OBVIOUS
        <5> HIDE DEF highest
        <5> QED BY <2>0, <5>1, <5>2, ElementsStable
      <4>2. CASE items2 = items
        BY <3>1, <3>2, <4>2 DEF Same
      <4>3. CASE items \in {Incomplete, Panic}
        <5>1. items.verdict # "ok"
          BY <4>3 DEF Incomplete, Panic
        <5>2. before = items
          BY <2>0, <3>1, <3>4, <5>1
        <5> QED BY <4>3, <5>2 DEF Same
      <4> QED BY <4>1, <4>2, <4>3 DEF Same
    <3> QED BY <2>0, <3>3, <3>4
  <2> QED BY <1>5, <2>2, <2>3, <2>4
<1>6. CASE src[at] \notin {Plus, Minus, Colon, Dollar, Star}
  <2>1. before = Invalid
    BY <1>6, DecodeCases
  <2>2. after = Invalid
    BY <1>0, <1>6, DecodeCases
  <2> QED BY <2>1, <2>2 DEF Same
<1> QED BY <1>0, <1>2, <1>3, <1>4, <1>5, <1>6, DecimalType DEF Waits

\* More input, and more layers, change no decoding that did not run out of either.
LEMMA DecodingsStable ==
  ASSUME NEW src, NEW more, Extends(more, src)
  PROVE  \A m \in Nat : \A k \in Nat, at \in 1..(Len(src) + 1) :
           m <= k => Same(Decodings(src)[m][at], Decodings(more)[k][at])
<1> DEFINE Good(m) == \A k \in Nat, at \in 1..(Len(src) + 1) :
                        m <= k => Same(Decodings(src)[m][at], Decodings(more)[k][at])
           S == {m \in Nat : Good(m)}
<1>0. /\ src \in Seq(Nat) /\ Len(src) \in Nat /\ Len(more) \in Nat /\ Len(src) <= Len(more)
      /\ \A at \in 1..(Len(src) + 1) : at \in Nat
  BY LenProperties DEF Extends
<1>1. \A r : Same(Panic, r)
  BY DEF Same
<1>2. 0 \in S
  BY <1>0, <1>1, DecodingsSteps
<1>3. ASSUME NEW m \in S PROVE m + 1 \in S
  <2>1. ASSUME NEW k \in Nat, NEW at \in 1..(Len(src) + 1), m + 1 <= k
        PROVE  Same(Decodings(src)[m + 1][at], Decodings(more)[k][at])
    <3>1. /\ m + 1 \in Nat /\ m + 1 > 0 /\ (m + 1) - 1 = m /\ Good(m)
          /\ k > 0 /\ k - 1 \in Nat /\ m <= k - 1
      BY <2>1
    <3>2. CASE at > Len(src)
      BY <1>0, <1>1, <3>1, <3>2, DecodingsSteps
    <3>3. CASE ~(at > Len(src))
      <4>1. Decodings(src)[m + 1][at] = DecodeFrame(src, at, Decodings(src)[m])
        BY <1>0, <3>1, <3>3, DecodingsSteps
      <4>2. at \in 1..Len(src) /\ ~(at > Len(more))
        BY <1>0, <3>3
      <4>3. Decodings(more)[k][at] = DecodeFrame(more, at, Decodings(more)[k - 1])
        BY <1>0, <3>1, <4>2, DecodingsSteps
      <4>4. \A a \in 1..(Len(src) + 1) :
              /\ Outcome(Decodings(src)[m][a], Failures, a, Len(src) + 1)
              /\ Same(Decodings(src)[m][a], Decodings(more)[k - 1][a])
        BY <1>0, <3>1, DecodingsOutcome
      <4> QED BY <4>1, <4>2, <4>3, <4>4, DecodeFrameStable
    <3> QED BY <3>2, <3>3
  <2> QED BY <2>1
<1>4. S = Nat
  <2> HIDE DEF S
  <2> QED BY <1>2, <1>3, Induct DEF S
<1> QED BY <1>4

-----------------------------------------------------------------------------
(* The decoder                                                             *)

\* The check waits or rejects, and so does the decoder; or it accepts, and
\* decoding rejects or brings back a frame that ends where the check ended.
LEMMA ParseOutcome ==
  ASSUME NEW src \in Seq(Byte)
  PROVE  \/ Check(src) \in Waits /\ Parse(src) = Check(src)
         \/ \E value, next :
              /\ next \in 1..(Len(src) + 1)
              /\ Check(src) = Ok(value, next)
              /\ Parse(src) = ParseData(src)
              /\ \/ ParseData(src) = Invalid
                 \/ \E frame \in FramesWithin[Layers] : ParseData(src) = Ok(frame, next)
<1>0. src \in Seq(Nat) /\ Len(src) \in Nat /\ Layers \in Nat
  BY BytesAreNumbers, WireAssumption DEF Layers
<1>1. 1 \in 1..(Len(src) + 1) /\ 1 + Len(src) >= Len(src) + 1
  BY <1>0
<1>2. Outcome(Check(src), Waits, 1, Len(src) + 1)
  BY <1>0, <1>1, CheckOutcome DEF Check
<1>3. Follows(Check(src), ParseData(src), FramesWithin[Layers])
  BY <1>0, <1>1, DecodeFollows DEF Check, ParseData
<1>4. CASE Check(src) \in Waits
  BY <1>4 DEF Parse, Then, Waits, Incomplete, Invalid
<1>5. ASSUME NEW value, NEW next, next \in 1..(Len(src) + 1), Check(src) = Ok(value, next)
      PROVE  /\ Parse(src) = ParseData(src)
             /\ \/ ParseData(src) = Invalid
                \/ \E frame \in FramesWithin[Layers] : ParseData(src) = Ok(frame, next)
  <2>1. Parse(src) = ParseData(src)
    BY <1>5 DEF Parse, Then, Ok
  <2> QED BY <1>3, <1>5, <2>1 DEF Follows
<1> QED BY <1>2, <1>4, <1>5 DEF Outcome

\* A verdict stands whatever arrives behind what it was about.
LEMMA ParseStable ==
  ASSUME NEW src \in Seq(Byte), NEW more, Extends(more, src),
         Parse(src) # Incomplete
  PROVE  Parse(more) = Parse(src)
<1>0. /\ src \in Seq(Nat) /\ Len(src) \in Nat /\ Layers \in Nat
      /\ Len(more) \in Nat /\ Len(src) <= Len(more)
      /\ 1 \in 1..(Len(src) + 1)
  BY BytesAreNumbers, LenProperties, WireAssumption DEF Layers, Extends
<1>1. Same(Check(src), Check(more))
  BY <1>0, CheckStable DEF Check
<1>2. Same(ParseData(src), ParseData(more))
  BY <1>0, DecodingsStable DEF ParseData
<1>3. Check(src) \notin {Incomplete, Panic}
  BY ParseOutcome DEF Waits, Ok, Incomplete, Invalid, Panic
<1>4. Check(more) = Check(src)
  BY <1>1, <1>3 DEF Same
<1>5. CASE Check(src) = Invalid
  BY <1>4, <1>5 DEF Parse, Then, Invalid
<1>6. CASE Check(src) # Invalid
  <2>1. Parse(src) = ParseData(src) /\ ParseData(src) \notin {Incomplete, Panic}
        /\ \E value, next : Check(src) = Ok(value, next)
    BY <1>3, <1>6, ParseOutcome DEF Waits, Ok, Incomplete, Invalid, Panic
  <2>2. ParseData(more) = ParseData(src)
    BY <1>2, <2>1 DEF Same
  <2>3. Parse(more) = ParseData(more)
    BY <1>4, <2>1 DEF Parse, Then, Ok
  <2> QED BY <2>1, <2>2, <2>3
<1> QED BY <1>5, <1>6

-----------------------------------------------------------------------------
(* The buffer                                                              *)

Before(n) == SubSeq(buffer, 1, n)

\* What holds whenever a byte has arrived: the result is the decoder's for the
\* bytes so far, which were not enough as long as no byte is extra.
Received ==
  /\ buffer \in Seq(Byte)
  /\ extra \in Nat
  /\ result = Parse(buffer)
  /\ extra = 0 => \A n \in 0..(Len(buffer) - 1) : Parse(Before(n)) = Incomplete

\* More of a buffer than before.
LEMMA AppendExtends ==
  ASSUME NEW src \in Seq(Byte), NEW byte \in Byte
  PROVE  /\ Append(src, byte) \in Seq(Byte)
         /\ Len(Append(src, byte)) = Len(src) + 1
         /\ Extends(Append(src, byte), src)
<1>1. /\ Append(src, byte) \in Seq(Byte)
      /\ Len(Append(src, byte)) = Len(src) + 1
      /\ \A i \in 1..Len(src) : Append(src, byte)[i] = src[i]
  BY AppendProperties
<1>2. src \in Seq(Nat) /\ Append(src, byte) \in Seq(Nat) /\ Len(src) \in Nat
  BY <1>1, BytesAreNumbers
<1> QED BY <1>1, <1>2 DEF Extends

\* The verdict tells the result.
LEMMA VerdictTells ==
  ASSUME NEW src \in Seq(Byte)
  PROVE  /\ Parse(src).verdict = "Incomplete" <=> Parse(src) = Incomplete
         /\ Parse(src).verdict = "Other" <=> Parse(src) = Invalid
BY ParseOutcome DEF Waits, Ok, Incomplete, Invalid

\* Before the first byte.
LEMMA ReceivedInit == Init => Received
<1> SUFFICES ASSUME Init PROVE Received
  OBVIOUS
<1>1. buffer = <<>> /\ result = Parse(<<>>) /\ extra = 0
  BY DEF Init
<1>2. <<>> \in Seq(Byte) /\ Len(<<>>) = 0
  BY EmptySeq
<1> QED BY <1>1, <1>2 DEF Received

\* A byte arrives: had there been a verdict before, the byte would be extra.
LEMMA ReceivedArrive ==
  ASSUME Received, NEW byte \in Alphabet, Arrive(byte)
  PROVE  Received'
<1>0. byte \in Byte
  BY FramingAssumption
<1>1. /\ buffer \in Seq(Byte) /\ extra \in Nat /\ result = Parse(buffer)
      /\ buffer' = Append(buffer, byte) /\ result' = Parse(buffer')
      /\ extra' = IF Decided THEN extra + 1 ELSE extra
  BY DEF Received, Arrive
<1>2. /\ buffer' \in Seq(Byte) /\ Len(buffer') = Len(buffer) + 1
      /\ Extends(buffer', buffer) /\ Len(buffer) \in Nat
  BY <1>0, <1>1, AppendExtends, LenProperties
<1>3. extra' \in Nat /\ (extra' = 0 => extra = 0 /\ ~Decided)
  BY <1>1
<1>4. ASSUME extra' = 0, NEW n \in 0..(Len(buffer') - 1)
      PROVE  Parse(Before(n)') = Incomplete
  <2>1. n \in Int /\ n <= Len(buffer) /\ n <= Len(buffer') /\ 1 \in Nat \ {0}
    BY <1>2
  <2>2. \A i \in 1..n : buffer'[i] = buffer[i]
    BY <1>2, <2>1 DEF Extends
  <2>3. buffer \in Seq(Nat) /\ buffer' \in Seq(Nat)
    BY <1>1, <1>2, BytesAreNumbers
  <2>4. SubSeq(buffer', 1, n) = SubSeq(buffer, 1, n)
    BY <2>1, <2>2, <2>3, SamePart
  <2>5. CASE n \in 0..(Len(buffer) - 1)
    BY <1>3, <1>4, <2>4, <2>5 DEF Received, Before
  <2>6. CASE n = Len(buffer)
    <3>1. SubSeq(buffer, 1, n) = buffer
      <4>1. /\ SubSeq(buffer, 1, n) \in Seq(Byte)
            /\ Len(SubSeq(buffer, 1, n)) = IF 1 <= n THEN n - 1 + 1 ELSE 0
            /\ \A i \in 1..(n - 1 + 1) : SubSeq(buffer, 1, n)[i] = buffer[1 + i - 1]
        BY <1>1, <2>1, BytesAreNumbers
      <4>2. Len(SubSeq(buffer, 1, n)) = Len(buffer)
        BY <1>2, <2>6, <4>1
      <4>3. \A i \in 1..Len(buffer) : SubSeq(buffer, 1, n)[i] = buffer[i]
        BY <1>2, <2>6, <4>1
      <4> QED BY <1>1, <4>1, <4>2, <4>3, SeqEqual
    <3>2. Parse(buffer) = Incomplete
      BY <1>1, <1>3, <1>4, VerdictTells DEF Decided
    <3> QED BY <2>4, <3>1, <3>2 DEF Before
  <2> QED BY <1>2, <2>5, <2>6
<1> QED BY <1>1, <1>2, <1>3, <1>4 DEF Received

\* The buffer holds bytes, and the result is the decoder's answer for them.
THEOREM TheBuffer == Spec => []Received
<1>1. Received /\ [Next]_vars => Received'
  <2> SUFFICES ASSUME Received, [Next]_vars PROVE Received'
    OBVIOUS
  <2>1. CASE Next
    BY <2>1, ReceivedArrive DEF Next
  <2>2. CASE UNCHANGED vars
    BY <2>2 DEF vars, Received, Before
  <2> QED BY <2>1, <2>2
<1> QED BY <1>1, ReceivedInit, PTL DEF Spec

\* Decoding stays within what the structural check has accepted: it rejects it,
\* or it ends where the check ended (frame.rs:168).
THEOREM TheCheck == Spec => []DecodingFollowsTheCheck
<1>1. Received => DecodingFollowsTheCheck
  <2> SUFFICES ASSUME Received, Check(buffer).verdict = "ok"
               PROVE  \/ ParseData(buffer).verdict = "Other"
                      \/ /\ ParseData(buffer).verdict = "ok"
                         /\ ParseData(buffer).next = Check(buffer).next
    BY DEF DecodingFollowsTheCheck
  <2>1. buffer \in Seq(Byte) /\ Check(buffer) \notin Waits
    BY DEF Received, Waits, Incomplete, Invalid
  <2>2. PICK value, next :
           /\ Check(buffer) = Ok(value, next)
           /\ \/ ParseData(buffer) = Invalid
              \/ \E frame \in FramesWithin[Layers] : ParseData(buffer) = Ok(frame, next)
    BY <2>1, ParseOutcome
  <2> QED BY <2>2 DEF Ok, Invalid
<1> QED BY <1>1, TheBuffer, PTL

\* What is decoded is within the limits that the check enforces on what is read:
\* layers of arrays, elements of each, the range of integers, texts that are
\* UTF-8 and without line ends.
THEOREM TheLimits == Spec => []DecodedWithinLimits
<1>1. Received => DecodedWithinLimits
  <2> SUFFICES ASSUME Received, result.verdict = "ok"
               PROVE  result.value \in FramesWithin[MaxArrayDepth]
    BY DEF DecodedWithinLimits
  <2>1. buffer \in Seq(Byte) /\ result = Parse(buffer)
    BY DEF Received
  <2>2. PICK frame, next :
              frame \in FramesWithin[Layers] /\ result = Ok(frame, next)
    BY <2>1, ParseOutcome DEF Waits, Incomplete, Invalid
  <2> QED BY <2>2 DEF Ok, Layers
<1> QED BY <1>1, TheBuffer, PTL

\* A verdict stands: read_frame may parse again after every read, and finds the
\* same frame at the front however much has arrived behind it.
THEOREM TheVerdicts == Spec => VerdictsAreStable
<1>1. Received /\ [Next]_vars => [Decided => result' = result]_vars
  <2> SUFFICES ASSUME Received, Next, Decided PROVE result' = result
    BY DEF vars
  <2>1. PICK byte \in Alphabet : Arrive(byte)
    BY DEF Next
  <2>2. buffer' = Append(buffer, byte) /\ result' = Parse(buffer')
    BY <2>1 DEF Arrive
  <2>3. buffer \in Seq(Byte) /\ byte \in Byte /\ result = Parse(buffer)
    BY FramingAssumption DEF Received
  <2>4. buffer' \in Seq(Byte) /\ Extends(buffer', buffer)
    BY <2>2, <2>3, AppendExtends
  <2>5. Parse(buffer) # Incomplete
    BY <2>3 DEF Decided, Incomplete
  <2> QED BY <2>2, <2>3, <2>4, <2>5, ParseStable
<1> QED BY <1>1, TheBuffer, PTL DEF Spec, VerdictsAreStable

-----------------------------------------------------------------------------
(* Numbers and their spelling                                              *)

Zeros(k) == [i \in 1..k |-> Zero]

\* One byte as a sequence.
LEMMA OneByte ==
  ASSUME NEW S, NEW seq \in Seq(S), NEW e \in S
  PROVE  <<e>> \in Seq(S) /\ Len(<<e>>) = 1 /\ <<e>>[1] = e /\ seq \o <<e>> = Append(seq, e)
<1>1. seq \o <<e>> = Append(seq, e)
  BY AppendIsConcat
<1>2. <<e>> = [i \in 1..1 |-> e]
  OBVIOUS
<1>3. <<e>> \in Seq(S)
  BY <1>2, SeqDef
<1> QED BY <1>1, <1>3

\* The sum of no digits is zero, and the last digit is added last.
LEMMA AccumulateAppend ==
  ASSUME NEW sign
  PROVE  /\ Accumulate(<<>>, sign) = {0}
         /\ \A digits \in Seq(Nat), d \in Nat :
              Accumulate(Append(digits, d), sign) = AddDigit(Accumulate(digits, sign), d, sign)
<1>1. Accumulate(<<>>, sign) = {0}
  BY SumsSteps, EmptySeq
<1>2. ASSUME NEW digits \in Seq(Nat), NEW d \in Nat
      PROVE  Accumulate(Append(digits, d), sign) = AddDigit(Accumulate(digits, sign), d, sign)
  <2> DEFINE more == Append(digits, d)
  <2>0. /\ Len(digits) \in Nat /\ Len(more) = Len(digits) + 1 /\ more[Len(digits) + 1] = d
        /\ \A i \in 1..Len(digits) : more[i] = digits[i]
    BY AppendProperties, LenProperties
  <2> HIDE DEF more
  <2>1. PICK a : /\ a[0] = {0}
                 /\ \A k \in Nat : a[k + 1] = AddDigit(a[k], digits[k + 1], sign)
                 /\ Accumulate(digits, sign) = a[Len(digits)]
    BY SumsSteps
  <2>2. PICK b : /\ b[0] = {0}
                 /\ \A k \in Nat : b[k + 1] = AddDigit(b[k], more[k + 1], sign)
                 /\ Accumulate(more, sign) = b[Len(more)]
    BY SumsSteps
  <2> DEFINE S == {k \in Nat : k <= Len(digits) => a[k] = b[k]}
  <2>3. 0 \in S
    BY <2>1, <2>2
  <2>4. ASSUME NEW k \in S PROVE k + 1 \in S
    <3> SUFFICES ASSUME k + 1 <= Len(digits) PROVE a[k + 1] = b[k + 1]
      OBVIOUS
    <3>1. k \in Nat /\ a[k] = b[k] /\ k + 1 \in 1..Len(digits)
      BY <2>0
    <3> QED BY <2>0, <2>1, <2>2, <3>1, ZenonT(30)
  <2>5. S = Nat
    <3> HIDE DEF S
    <3> QED BY <2>3, <2>4, Induct DEF S
  <2>6. a[Len(digits)] = b[Len(digits)]
    <3>1. Len(digits) \in S
      <4> HIDE DEF S
      <4> QED BY <2>0, <2>5
    <3> QED BY <2>0, <3>1
  <2>7. b[Len(more)] = AddDigit(b[Len(digits)], d, sign)
    BY <2>0, <2>2
  <2> QED BY <2>1, <2>2, <2>6, <2>7 DEF more
<1> QED BY <1>1, <1>2

\* A digit is added when the sum is in the range, and then the sum times ten is.
LEMMA AddDigitTo ==
  ASSUME NEW q \in Nat, NEW r \in 0..9, NEW sign \in {-1, 1}
  PROVE  AddDigit({sign * q}, Zero + r, sign) = Checked(sign * (10 * q + r))
<1>0. MaxInt \in Nat /\ (Zero + r) - Zero = r
  BY WireAssumption DEF Zero
<1>1. UNION {Checked(10 * n) : n \in {sign * q}} = Checked(10 * (sign * q))
  OBVIOUS
<1>2. AddDigit({sign * q}, Zero + r, sign) =
        UNION {Checked(n + sign * r) : n \in Checked(10 * (sign * q))}
  BY <1>0, <1>1 DEF AddDigit
<1>3. \A x : UNION {Checked(n + sign * r) : n \in {x}} = Checked(x + sign * r)
  OBVIOUS
<1>4. UNION {Checked(n + sign * r) : n \in {}} = {}
  OBVIOUS
<1>5. CASE sign = 1
  <2>1. 10 * (sign * q) = 10 * q /\ sign * r = r /\ sign * (10 * q + r) = 10 * q + r
    BY <1>5
  <2>2. CASE 10 * q \in Ints
    <3>1. Checked(10 * (sign * q)) = {10 * q}
      BY <2>1, <2>2 DEF Checked
    <3>2. AddDigit({sign * q}, Zero + r, sign) = UNION {Checked(n + sign * r) : n \in {10 * q}}
      BY <1>2, <3>1
    <3> QED BY <1>3, <2>1, <3>2
  <2>3. CASE 10 * q \notin Ints
    <3>1. Checked(10 * (sign * q)) = {}
      BY <2>1, <2>3 DEF Checked
    <3>2. 10 * q + r \notin Ints
      BY <1>0, <2>3 DEF Ints
    <3>3. Checked(sign * (10 * q + r)) = {}
      BY <2>1, <3>2 DEF Checked
    <3>4. AddDigit({sign * q}, Zero + r, sign) = UNION {Checked(n + sign * r) : n \in {}}
      BY <1>2, <3>1
    <3> QED BY <1>4, <3>3, <3>4
  <2> QED BY <2>2, <2>3
<1>6. CASE sign = -1
  <2>1. 10 * (sign * q) = -(10 * q) /\ sign * r = -r /\ sign * (10 * q + r) = -(10 * q) + -r
    BY <1>6
  <2>2. CASE -(10 * q) \in Ints
    <3>1. Checked(10 * (sign * q)) = {-(10 * q)}
      BY <2>1, <2>2 DEF Checked
    <3>2. AddDigit({sign * q}, Zero + r, sign) = UNION {Checked(n + sign * r) : n \in {-(10 * q)}}
      BY <1>2, <3>1
    <3> QED BY <1>3, <2>1, <3>2
  <2>3. CASE -(10 * q) \notin Ints
    <3>1. Checked(10 * (sign * q)) = {}
      BY <2>1, <2>3 DEF Checked
    <3>2. -(10 * q) + -r \notin Ints
      BY <1>0, <2>3 DEF Ints
    <3>3. Checked(sign * (10 * q + r)) = {}
      BY <2>1, <3>2 DEF Checked
    <3>4. AddDigit({sign * q}, Zero + r, sign) = UNION {Checked(n + sign * r) : n \in {}}
      BY <1>2, <3>1
    <3> QED BY <1>4, <3>3, <3>4
  <2> QED BY <2>2, <2>3
<1> QED BY <1>5, <1>6

\* Induction over the naturals, for a set that has a number when it has all
\* smaller ones.
LEMMA StrongInduct ==
  ASSUME NEW S \in SUBSET Nat,
         \A n \in Nat : (\A k \in Nat : k < n => k \in S) => n \in S
  PROVE  S = Nat
<1> DEFINE T == {n \in Nat : \A k \in Nat : k < n => k \in S}
<1>1. 0 \in T
  OBVIOUS
<1>2. ASSUME NEW n \in T PROVE n + 1 \in T
  <2>1. n \in S /\ \A k \in Nat : k < n + 1 => k < n \/ k = n
    OBVIOUS
  <2> QED BY <2>1
<1>3. T = Nat
  <2> HIDE DEF T
  <2> QED BY <1>1, <1>2, Induct DEF T
<1> QED BY <1>3

\* A number of more than one digit is its last digit and the others.
LEMMA SpellSplit ==
  ASSUME NEW n \in Nat, n >= 10
  PROVE  /\ n \div 10 \in Nat /\ n \div 10 < n /\ n \div 10 > 0
         /\ n % 10 \in 0..9 /\ n = 10 * (n \div 10) + (n % 10)
OBVIOUS

\* A number is spelled with digits, one at least.
LEMMA SpellDigits ==
  \A n \in Nat : SpellNat[n] \in Seq(Digits) /\ Len(SpellNat[n]) >= 1
<1> DEFINE S == {n \in Nat : SpellNat[n] \in Seq(Digits) /\ Len(SpellNat[n]) >= 1}
<1>1. ASSUME NEW n \in Nat, \A k \in Nat : k < n => k \in S
      PROVE  n \in S
  <2>0. \A r \in 0..9 : Zero + r \in Digits
    BY DEF Digits, Zero
  <2>1. CASE n < 10
    <3> DEFINE d == Zero + n
    <3>1. SpellNat[n] = <<d>>
      BY <2>1, SpellSteps
    <3>0. n \in 0..9
      BY <2>1
    <3>2. d \in Digits
      BY <2>0, <3>0
    <3> HIDE DEF d
    <3>3. <<>> \in Seq(Digits)
      BY EmptySeq
    <3>4. <<d>> \in Seq(Digits) /\ Len(<<d>>) = 1
      BY <3>2, <3>3, OneByte
    <3>5. SpellNat[n] \in Seq(Digits) /\ Len(SpellNat[n]) = 1
      BY <3>1, <3>4, Zenon
    <3>6. Len(SpellNat[n]) >= 1
      BY <3>5
    <3> QED BY <3>5, <3>6, Zenon
  <2>2. CASE n >= 10
    <3> DEFINE q == n \div 10
               d == Zero + (n % 10)
    <3>1. q \in Nat /\ q < n /\ d \in Digits
      BY <2>0, <2>2, SpellSplit
    <3>2. SpellNat[n] = SpellNat[q] \o <<d>>
      BY <2>2, SpellSteps
    <3> HIDE DEF q, d
    <3>3. SpellNat[q] \in Seq(Digits) /\ Len(SpellNat[q]) >= 1
      BY <1>1, <3>1
    <3>4. SpellNat[n] = Append(SpellNat[q], d)
      BY <3>1, <3>2, <3>3, OneByte
    <3>5. /\ Append(SpellNat[q], d) \in Seq(Digits)
          /\ Len(Append(SpellNat[q], d)) = Len(SpellNat[q]) + 1
          /\ Len(SpellNat[q]) \in Nat
      BY <3>1, <3>3, AppendProperties, LenProperties
    <3>6. SpellNat[n] \in Seq(Digits)
      BY <3>4, <3>5, Zenon
    <3>7. Len(SpellNat[n]) = Len(SpellNat[q]) + 1
      BY <3>4, <3>5, Zenon
    <3>8. Len(SpellNat[n]) >= 1
      BY <3>5, <3>7
    <3> QED BY <3>6, <3>8, Zenon
  <2> QED BY <2>1, <2>2
<1>2. S = Nat
  <2> HIDE DEF S
  <2> QED BY <1>1, StrongInduct DEF S
<1> QED BY <1>2

\* Joining three sequences.
LEMMA Regroup ==
  ASSUME NEW S, NEW s \in Seq(S), NEW t \in Seq(S), NEW u \in Seq(S)
  PROVE  s \o (t \o u) = (s \o t) \o u
<1>1. Len(s) \in Nat /\ Len(t) \in Nat /\ Len(u) \in Nat
  BY LenProperties
<1>2. /\ s \o t \in Seq(S) /\ Len(s \o t) = Len(s) + Len(t)
      /\ t \o u \in Seq(S) /\ Len(t \o u) = Len(t) + Len(u)
      /\ \A i \in 1..(Len(s) + Len(t)) : (s \o t)[i] = IF i <= Len(s) THEN s[i] ELSE t[i - Len(s)]
      /\ \A i \in 1..(Len(t) + Len(u)) : (t \o u)[i] = IF i <= Len(t) THEN t[i] ELSE u[i - Len(t)]
  BY ConcatProperties
<1> DEFINE n == Len(s) + Len(t) + Len(u)
<1>3. /\ (s \o t) \o u \in Seq(S) /\ Len((s \o t) \o u) = n
      /\ s \o (t \o u) \in Seq(S) /\ Len(s \o (t \o u)) = n
      /\ \A i \in 1..n : ((s \o t) \o u)[i] =
           IF i <= Len(s) + Len(t) THEN (s \o t)[i] ELSE u[i - (Len(s) + Len(t))]
      /\ \A i \in 1..n : (s \o (t \o u))[i] =
           IF i <= Len(s) THEN s[i] ELSE (t \o u)[i - Len(s)]
  BY ONLY <1>1, <1>2, ConcatProperties
<1>4. ASSUME NEW i \in 1..n
      PROVE  (s \o (t \o u))[i] = ((s \o t) \o u)[i]
  <2>1. i <= Len(s) + Len(t) => (s \o t)[i] = IF i <= Len(s) THEN s[i] ELSE t[i - Len(s)]
    BY ONLY <1>1, <1>2, <1>4
  <2>2. i > Len(s) => (t \o u)[i - Len(s)] = IF i - Len(s) <= Len(t) THEN t[i - Len(s)]
                                              ELSE u[i - (Len(s) + Len(t))]
    BY ONLY <1>1, <1>2, <1>4
  <2> QED BY ONLY <1>1, <1>3, <1>4, <2>1, <2>2
<1> QED BY ONLY <1>3, <1>4, SeqEqual

\* Zeros are digits; one more is appended.
LEMMA ZerosType ==
  ASSUME NEW k \in Nat
  PROVE  /\ Zeros(k) \in Seq(Digits) /\ Len(Zeros(k)) = k
         /\ Zeros(0) = <<>>
         /\ Zeros(k + 1) = Append(Zeros(k), Zero)
<1>0. Zero \in Digits
  BY DEF Zero, Digits
<1>1. \A m \in Nat : Zeros(m) \in Seq(Digits) /\ Len(Zeros(m)) = m /\ \A i \in 1..m : Zeros(m)[i] = Zero
  <2> SUFFICES ASSUME NEW m \in Nat
               PROVE  Zeros(m) \in Seq(Digits) /\ Len(Zeros(m)) = m /\ \A i \in 1..m : Zeros(m)[i] = Zero
    OBVIOUS
  <2>1. Zeros(m) \in [1..m -> Digits]
    BY <1>0 DEF Zeros
  <2>2. Zeros(m) \in Seq(Digits)
    BY <2>1, SeqDef
  <2>3. Len(Zeros(m)) = m
    <3>1. DOMAIN Zeros(m) = 1..m /\ DOMAIN Zeros(m) = 1..Len(Zeros(m)) /\ Len(Zeros(m)) \in Nat
      BY <2>1, <2>2, LenProperties
    <3> QED BY <3>1
  <2> QED BY <2>2, <2>3 DEF Zeros
<1>2. Zeros(0) = <<>>
  <2>1. Zeros(0) \in Seq(Digits) /\ Len(Zeros(0)) = 0
    BY <1>1
  <2> QED BY <2>1, EmptySeq
<1>3. Zeros(k + 1) = Append(Zeros(k), Zero)
  <2>1. /\ Append(Zeros(k), Zero) \in Seq(Digits)
        /\ Len(Append(Zeros(k), Zero)) = k + 1
        /\ \A i \in 1..k : Append(Zeros(k), Zero)[i] = Zeros(k)[i]
        /\ Append(Zeros(k), Zero)[k + 1] = Zero
    BY <1>0, <1>1, AppendProperties
  <2>2. Zeros(k + 1) \in Seq(Digits) /\ Len(Zeros(k + 1)) = k + 1
        /\ \A i \in 1..(k + 1) : Zeros(k + 1)[i] = Zero
    BY <1>1
  <2>3. ASSUME NEW i \in 1..(k + 1) PROVE Zeros(k + 1)[i] = Append(Zeros(k), Zero)[i]
    <3>1. CASE i = k + 1
      BY <2>1, <2>2, <3>1
    <3>2. CASE i # k + 1
      <4>1. i \in 1..k
        BY <3>2
      <4> QED BY <1>1, <2>1, <2>2, <4>1
    <3> QED BY <3>1, <3>2
  <2> QED BY <2>1, <2>2, <2>3, SeqEqual
<1> QED BY <1>1, <1>2, <1>3

\* Leading zeros and the spelling of a number, as the digits they are.
Spelling(k, n) == Zeros(k) \o SpellNat[n]

\* A spelling is its last digit behind the zeros, or behind the other digits.
LEMMA SpellingSteps ==
  ASSUME NEW k \in Nat, NEW n \in Nat
  PROVE  /\ Spelling(k, n) \in Seq(Digits)
         /\ Spelling(k, n) \in Seq(Nat)
         /\ Spelling(k, n) # <<>>
         /\ Len(Spelling(k, n)) >= k
         /\ n < 10 => Spelling(k, n) = Append(Zeros(k), Zero + n)
         /\ n >= 10 => Spelling(k, n) = Append(Spelling(k, n \div 10), Zero + (n % 10))
<1>0. /\ Zeros(k) \in Seq(Digits) /\ Len(Zeros(k)) = k
      /\ SpellNat[n] \in Seq(Digits) /\ Len(SpellNat[n]) >= 1 /\ Len(SpellNat[n]) \in Nat
  BY ZerosType, SpellDigits, LenProperties
<1>1. \A r \in 0..9 : Zero + r \in Digits
  BY DEF Zero, Digits
<1>2. Spelling(k, n) \in Seq(Digits) /\ Len(Spelling(k, n)) = k + Len(SpellNat[n])
  BY <1>0, ConcatProperties, ZenonT(30) DEF Spelling
<1>3. Digits \subseteq Nat
  BY DEF Zero, Digits
<1>4. Spelling(k, n) \in Seq(Nat)
  BY <1>2, <1>3, SeqMonotonic
<1>5. Spelling(k, n) # <<>>
  BY <1>0, <1>2, EmptySeq
<1>6. CASE n < 10
  <2> DEFINE d == Zero + n
  <2>1. n \in 0..9
    BY <1>6
  <2>2. d \in Digits
    BY <1>1, <2>1
  <2>3. Spelling(k, n) = Zeros(k) \o <<d>>
    BY <1>6, SpellSteps DEF Spelling
  <2> HIDE DEF d
  <2>4. Spelling(k, n) = Append(Zeros(k), d)
    BY <1>0, <2>2, <2>3, OneByte
  <2> QED BY <1>0, <1>2, <1>4, <1>5, <1>6, <2>4 DEF d
<1>7. CASE n >= 10
  <2> DEFINE d == Zero + (n % 10)
             q == n \div 10
  <2>1. q \in Nat /\ d \in Digits
    BY <1>1, <1>7, SpellSplit
  <2>2. Spelling(k, n) = Zeros(k) \o (SpellNat[q] \o <<d>>)
    BY <1>7, SpellSteps DEF Spelling
  <2> HIDE DEF d, q
  <2>3. SpellNat[q] \in Seq(Digits)
    BY <2>1, SpellDigits
  <2>4. <<d>> \in Seq(Digits)
    BY <1>0, <2>1, OneByte
  <2>5. Spelling(k, n) = Spelling(k, q) \o <<d>>
    <3>1. Zeros(k) \o (SpellNat[q] \o <<d>>) = (Zeros(k) \o SpellNat[q]) \o <<d>>
      <4>1. ASSUME NEW s \in Seq(Digits), NEW t \in Seq(Digits), NEW u \in Seq(Digits)
            PROVE  s \o (t \o u) = (s \o t) \o u
        BY ONLY Regroup
      <4> QED BY <1>0, <2>3, <2>4, <4>1, ZenonT(30)
    <3> QED BY <2>2, <3>1, Zenon DEF Spelling
  <2>6. Spelling(k, q) \in Seq(Digits)
    BY <1>0, <2>3, ConcatProperties DEF Spelling
  <2>7. Spelling(k, n) = Append(Spelling(k, q), d)
    BY <2>1, <2>5, <2>6, OneByte
  <2> QED BY <1>0, <1>2, <1>4, <1>5, <1>7, <2>7, SMTT(30) DEF d, q
<1> QED BY <1>6, <1>7

\* The sum of zeros is zero.
LEMMA AccumulateZeros ==
  ASSUME NEW sign \in {-1, 1}
  PROVE  \A k \in Nat : Accumulate(Zeros(k), sign) = {0}
<1> DEFINE S == {k \in Nat : Accumulate(Zeros(k), sign) = {0}}
<1>0. Digits \subseteq Nat /\ Zero \in Nat
  BY DEF Digits, Zero
<1>1. 0 \in S
  BY ZerosType, AccumulateAppend
<1>2. ASSUME NEW k \in S PROVE k + 1 \in S
  <2>1. Accumulate(Zeros(k + 1), sign) = AddDigit({0}, Zero, sign)
    <3>1. k \in Nat /\ Accumulate(Zeros(k), sign) = {0}
      OBVIOUS
    <3>2. Zeros(k) \in Seq(Nat) /\ Zeros(k + 1) = Append(Zeros(k), Zero)
      BY <1>0, <3>1, ZerosType, SeqMonotonic
    <3> QED BY <1>0, <3>1, <3>2, AccumulateAppend
  <2>2. sign * 0 = 0 /\ Zero + 0 = Zero /\ sign * (10 * 0 + 0) = 0 /\ 0 \in 0..9
    BY DEF Zero
  <2>3. AddDigit({sign * 0}, Zero + 0, sign) = Checked(sign * (10 * 0 + 0))
    BY <2>2, AddDigitTo
  <2>4. Checked(0) = {0}
    <3>1. 0 \in Ints
      BY WireAssumption DEF Ints
    <3> QED BY <3>1 DEF Checked
  <2>5. Accumulate(Zeros(k + 1), sign) = {0}
    BY <2>1, <2>2, <2>3, <2>4
  <2> QED BY <2>5
<1>3. S = Nat
  <2> HIDE DEF S
  <2> QED BY <1>1, <1>2, Induct DEF S
<1> QED BY <1>3

\* What is spelled is summed to itself, if it is in the range.
LEMMA AccumulateSpelled ==
  ASSUME NEW sign \in {-1, 1}, NEW k \in Nat
  PROVE  \A n \in Nat : sign * n \in Ints => Accumulate(Spelling(k, n), sign) = {sign * n}
<1> DEFINE S == {n \in Nat : sign * n \in Ints => Accumulate(Spelling(k, n), sign) = {sign * n}}
<1>0. Digits \subseteq Nat /\ \A r \in 0..9 : Zero + r \in Nat
  BY DEF Digits, Zero
<1>1. ASSUME NEW n \in Nat, \A j \in Nat : j < n => j \in S, sign * n \in Ints
      PROVE  Accumulate(Spelling(k, n), sign) = {sign * n}
  <2>1. CASE n < 10
    <3>1. n \in 0..9 /\ sign * 0 = 0 /\ 10 * 0 + n = n
      BY <2>1
    <3>2. Zeros(k) \in Seq(Nat)
      BY <1>0, ZerosType, SeqMonotonic
    <3>3. Accumulate(Spelling(k, n), sign) = AddDigit({0}, Zero + n, sign)
      <4>1. Spelling(k, n) = Append(Zeros(k), Zero + n)
        BY <2>1, SpellingSteps
      <4>2. Zero + n \in Nat
        BY <1>0, <3>1
      <4>3. Accumulate(Append(Zeros(k), Zero + n), sign) = AddDigit(Accumulate(Zeros(k), sign), Zero + n, sign)
        BY <3>2, <4>2, AccumulateAppend
      <4>4. Accumulate(Zeros(k), sign) = {0}
        BY AccumulateZeros
      <4> QED BY <4>1, <4>3, <4>4, Zenon
    <3>4. AddDigit({sign * 0}, Zero + n, sign) = Checked(sign * (10 * 0 + n))
      BY <3>1, AddDigitTo
    <3> QED BY <1>1, <3>1, <3>3, <3>4 DEF Checked
  <2>2. CASE n >= 10
    <3> DEFINE q == n \div 10
               r == n % 10
    <3>1. q \in Nat /\ q < n /\ q > 0 /\ r \in 0..9 /\ n = 10 * q + r
      BY <2>2, SpellSplit
    <3>2. Spelling(k, n) = Append(Spelling(k, q), Zero + r)
      BY <2>2, SpellingSteps
    <3> HIDE DEF q, r
    <3>3. sign * q \in Ints
      <4>1. CASE sign = 1
        BY <1>1, <3>1, <4>1, WireAssumption DEF Ints
      <4>2. CASE sign = -1
        BY <1>1, <3>1, <4>2, WireAssumption DEF Ints
      <4> QED BY <4>1, <4>2
    <3>4. Accumulate(Spelling(k, q), sign) = {sign * q}
      BY <1>1, <3>1, <3>3
    <3>5. Spelling(k, q) \in Seq(Nat) /\ Zero + r \in Nat
      BY <1>0, <3>1, SpellingSteps
    <3>6. Accumulate(Spelling(k, n), sign) = AddDigit({sign * q}, Zero + r, sign)
      BY <3>2, <3>4, <3>5, AccumulateAppend
    <3>7. AddDigit({sign * q}, Zero + r, sign) = Checked(sign * n)
      BY <3>1, AddDigitTo
    <3> QED BY <1>1, <3>6, <3>7 DEF Checked
  <2> QED BY <2>1, <2>2
<1>2. S = Nat
  <2>1. \A n \in Nat : (\A j \in Nat : j < n => j \in S) => n \in S
    BY <1>1
  <2> HIDE DEF S
  <2> QED BY <2>1, StrongInduct DEF S
<1> QED BY <1>2

\* Digits whose sum is in the range are the spelling of their sum.
SumIsSpelled(digits, sign) ==
  \/ Accumulate(digits, sign) = {}
  \/ digits = <<>> /\ Accumulate(digits, sign) = {sign * 0}
  \/ \E k, v \in Nat :
       /\ digits = Spelling(k, v)
       /\ sign * v \in Ints
       /\ Accumulate(digits, sign) = {sign * v}

\* One more digit behind a spelling gives another.
LEMMA SpellingAppend ==
  ASSUME NEW k \in Nat, NEW q \in Nat, NEW r \in 0..9
  PROVE  /\ Spelling(0, r) = Append(<<>>, Zero + r)
         /\ \E j \in Nat : Append(Spelling(k, q), Zero + r) = Spelling(j, 10 * q + r)
<1>0. r < 10 /\ r \in Nat /\ 0 \in Nat /\ 0 < 10 /\ k + 1 \in Nat
  OBVIOUS
<1>1. Spelling(0, r) = Append(<<>>, Zero + r)
  <2>1. Spelling(0, r) = Append(Zeros(0), Zero + r)
    BY <1>0, SpellingSteps
  <2> QED BY <1>0, <2>1, ZerosType
<1>2. CASE q = 0
  <2>1. Spelling(k, 0) = Append(Zeros(k), Zero + 0)
    BY <1>0, SpellingSteps
  <2>5. Zero + 0 = Zero /\ 10 * q + r = r
    BY <1>2 DEF Zero
  <2>2. Spelling(k, 0) = Zeros(k + 1)
    BY <2>1, <2>5, ZerosType
  <2>3. Spelling(k + 1, r) = Append(Zeros(k + 1), Zero + r) /\ k + 1 \in Nat
    BY <1>0, SpellingSteps
  <2>4. Append(Spelling(k, q), Zero + r) = Spelling(k + 1, 10 * q + r)
    BY <1>2, <2>2, <2>3, <2>5
  <2> QED BY <1>1, <2>3, <2>4
<1>3. CASE q > 0
  <2> DEFINE n == 10 * q + r
  <2>1. n \in Nat /\ n >= 10 /\ n \div 10 = q /\ n % 10 = r
    BY <1>3
  <2>2. Spelling(k, n) = Append(Spelling(k, n \div 10), Zero + (n % 10))
    BY <2>1, SpellingSteps
  <2>3. Spelling(k, n) = Append(Spelling(k, q), Zero + r)
    BY <2>1, <2>2
  <2> HIDE DEF n
  <2>4. \E j \in Nat : Append(Spelling(k, q), Zero + r) = Spelling(j, n)
    BY <2>3
  <2> QED BY <1>1, <2>4 DEF n
<1> QED BY <1>2, <1>3

\* The sum of any digits is spelled by them, but for leading zeros.
LEMMA SumsAreSpelled ==
  ASSUME NEW sign \in {-1, 1}
  PROVE  \A digits \in Seq(Digits) : SumIsSpelled(digits, sign)
<1> DEFINE S == {n \in Nat : \A digits \in Seq(Digits) :
                               Len(digits) = n => SumIsSpelled(digits, sign)}
<1>0. Digits \subseteq Nat
  BY DEF Digits, Zero
<1>1. 0 \in S
  <2>1. ASSUME NEW digits \in Seq(Digits), Len(digits) = 0 PROVE SumIsSpelled(digits, sign)
    <3>1. digits = <<>> /\ sign * 0 = 0
      BY <2>1, EmptySeq
    <3> QED BY <3>1, AccumulateAppend DEF SumIsSpelled
  <2> QED BY <2>1
<1>2. ASSUME NEW n \in S PROVE n + 1 \in S
  <2>1. ASSUME NEW digits \in Seq(Digits), Len(digits) = n + 1
        PROVE  SumIsSpelled(digits, sign)
    <3>0. n \in Nat /\ \A s \in Seq(Digits) : Len(s) = n => SumIsSpelled(s, sign)
      OBVIOUS
    <3>1. PICK front \in Seq(Digits), d \in Digits : digits = Append(front, d)
      <4>1. digits # <<>>
        BY <2>1, <3>0, EmptySeq
      <4> QED BY <4>1, SequenceEmptyOrAppend
    <3>2. Len(front) = n
      BY <2>1, <3>0, <3>1, AppendProperties, LenProperties
    <3>3. SumIsSpelled(front, sign)
      BY <3>0, <3>2
    <3> DEFINE r == d - Zero
    <3>4. r \in 0..9 /\ d = Zero + r
      BY DEF Digits, Zero
    <3> HIDE DEF r
    <3>5. Accumulate(digits, sign) = AddDigit(Accumulate(front, sign), d, sign)
      <4>1. front \in Seq(Nat) /\ d \in Nat
        BY <1>0, SeqMonotonic
      <4> QED BY <3>1, <4>1, AccumulateAppend
    <3>6. CASE Accumulate(front, sign) = {}
      <4>1. AddDigit({}, d, sign) = {}
        BY DEF AddDigit
      <4> QED BY <3>5, <3>6, <4>1 DEF SumIsSpelled
    <3>7. ASSUME NEW v \in Nat, Accumulate(front, sign) = {sign * v},
                 NEW j \in Nat, digits = Spelling(j, 10 * v + r)
          PROVE  SumIsSpelled(digits, sign)
      <4> DEFINE w == 10 * v + r
      <4>1. w \in Nat
        BY <3>4
      <4>2. Accumulate(digits, sign) = Checked(sign * w)
        BY <3>4, <3>5, <3>7, AddDigitTo, ZenonT(30)
      <4> HIDE DEF w
      <4>3. digits = Spelling(j, w)
        BY <3>7 DEF w
      <4>4. CASE sign * w \in Ints
        BY <4>1, <4>2, <4>3, <4>4 DEF SumIsSpelled, Checked
      <4>5. CASE sign * w \notin Ints
        BY <4>2, <4>5 DEF SumIsSpelled, Checked
      <4> QED BY <4>4, <4>5
    <3>8. CASE front = <<>> /\ Accumulate(front, sign) = {sign * 0}
      <4>1. digits = Spelling(0, 10 * 0 + r) /\ 0 \in Nat
        <5>1. 10 * 0 + r = r
          BY <3>4
        <5>2. Spelling(0, r) = Append(<<>>, Zero + r)
          BY <3>4, SpellingAppend
        <5> QED BY <3>1, <3>4, <3>8, <5>1, <5>2
      <4> QED BY <3>7, <3>8, <4>1
    <3>9. ASSUME NEW k \in Nat, NEW v \in Nat, front = Spelling(k, v),
                 Accumulate(front, sign) = {sign * v}
          PROVE  SumIsSpelled(digits, sign)
      <4>1. PICK j \in Nat : Append(Spelling(k, v), Zero + r) = Spelling(j, 10 * v + r)
        BY <3>4, SpellingAppend
      <4>2. digits = Spelling(j, 10 * v + r)
        BY <3>1, <3>4, <3>9, <4>1
      <4> QED BY <3>7, <3>9, <4>2
    <3> QED BY <3>3, <3>6, <3>8, <3>9 DEF SumIsSpelled
  <2> QED BY <2>1
<1>3. S = Nat
  <2> HIDE DEF S
  <2> QED BY <1>1, <1>2, Induct DEF S
<1>4. \A digits \in Seq(Digits) : Len(digits) \in S
  <2> HIDE DEF S
  <2> QED BY <1>3, LenProperties
<1> QED BY <1>4

-----------------------------------------------------------------------------
(* A line is a number exactly when it spells one                           *)

\* The spellings of the model, and those that the sums were compared with.
LEMMA SpellsCases ==
  ASSUME NEW text \in Seq(Nat), NEW n \in Int
  PROVE  Spells(text, n) <=>
           \E k \in Nat : \/ n >= 0 /\ text = Spelling(k, n)
                          \/ n <= 0 /\ text = <<Minus>> \o Spelling(k, -n)
<1>1. ASSUME NEW k \in Nat, n >= 0
      PROVE  Zeros(k) \o Spell(n) = Spelling(k, n) /\ n \in Nat
  BY <1>1 DEF Spell, Spelling
<1>2. ASSUME NEW k \in Nat, n <= 0
      PROVE  <<Minus>> \o Zeros(k) \o Spell(-n) = <<Minus>> \o Spelling(k, -n) /\ -n \in Nat
  <2>1. -n \in Nat /\ ~(-n < 0)
    BY <1>2
  <2>2. Spell(-n) = SpellNat[-n]
    BY <2>1 DEF Spell
  <2> DEFINE m == -n
             one == <<Minus>>
  <2>3. /\ Zeros(k) \in Seq(Byte) /\ SpellNat[m] \in Seq(Byte) /\ one \in Seq(Byte)
    <3>1. Digits \subseteq Byte /\ Minus \in Byte
      BY DEF Digits, Zero, Minus, Byte
    <3>2. SpellNat[m] \in Seq(Digits) /\ Zeros(k) \in Seq(Digits)
      BY <2>1, SpellDigits, ZerosType
    <3>3. <<>> \in Seq(Byte)
      BY EmptySeq
    <3> QED BY <3>1, <3>2, <3>3, SeqMonotonic, OneByte
  <2>4. one \o (Zeros(k) \o SpellNat[m]) = (one \o Zeros(k)) \o SpellNat[m]
    <3>1. ASSUME NEW s \in Seq(Byte), NEW t \in Seq(Byte), NEW u \in Seq(Byte)
          PROVE  s \o (t \o u) = (s \o t) \o u
      BY ONLY Regroup, SMTT(30)
    <3> HIDE DEF m, one
    <3> QED BY <2>3, <3>1, Zenon
  <2> QED BY <2>1, <2>2, <2>4, Zenon DEF Spelling
<1>3. ASSUME NEW k \in Nat, \/ n >= 0 /\ text = Spelling(k, n)
                            \/ n <= 0 /\ text = <<Minus>> \o Spelling(k, -n)
      PROVE  k \in 0..Len(text)
  <2>1. CASE n >= 0 /\ text = Spelling(k, n)
    BY <2>1, SpellingSteps, LenProperties
  <2>2. CASE n <= 0 /\ text = <<Minus>> \o Spelling(k, -n)
    <3> DEFINE m == -n
               one == <<Minus>>
    <3>1. m \in Nat
      BY <2>2
    <3>2. Spelling(k, m) \in Seq(Nat) /\ Len(Spelling(k, m)) >= k
      BY <3>1, SpellingSteps
    <3>3. one \in Seq(Nat) /\ Len(one) = 1
      BY EmptySeq, OneByte DEF Minus
    <3>4. text = one \o Spelling(k, m)
      BY <2>2
    <3> HIDE DEF m, one
    <3>5. Len(text) = 1 + Len(Spelling(k, m)) /\ Len(Spelling(k, m)) \in Nat
      BY <3>2, <3>3, <3>4, ConcatProperties, LenProperties, ZenonT(30)
    <3> QED BY <3>2, <3>5
  <2> QED BY <1>3, <2>1, <2>2
<1>4. Spells(text, n) <=>
        \E k \in 0..Len(text) : \/ n >= 0 /\ text = Zeros(k) \o Spell(n)
                                \/ n <= 0 /\ text = <<Minus>> \o Zeros(k) \o Spell(-n)
  BY DEF Spells, Zeros
<1>5. \A k \in 0..Len(text) : k \in Nat
  OBVIOUS
<1> QED BY <1>1, <1>2, <1>3, <1>4, <1>5

\* One byte in front of others.
LEMMA OneBefore ==
  ASSUME NEW byte \in Nat, NEW seq \in Seq(Nat)
  PROVE  /\ <<byte>> \o seq \in Seq(Nat)
         /\ Len(<<byte>> \o seq) = Len(seq) + 1
         /\ (<<byte>> \o seq)[1] = byte
         /\ \A i \in 1..Len(seq) : (<<byte>> \o seq)[i + 1] = seq[i]
<1> DEFINE one == <<byte>>
<1>1. one \in Seq(Nat) /\ Len(one) = 1 /\ one[1] = byte /\ Len(seq) \in Nat
  BY EmptySeq, OneByte, LenProperties
<1> HIDE DEF one
<1>2. /\ one \o seq \in Seq(Nat)
      /\ Len(one \o seq) = Len(one) + Len(seq)
      /\ \A i \in 1..(Len(one) + Len(seq)) :
           (one \o seq)[i] = IF i <= Len(one) THEN one[i] ELSE seq[i - Len(one)]
  BY <1>1, ConcatProperties
<1>3. Len(one \o seq) = Len(seq) + 1 /\ (one \o seq)[1] = byte
  BY <1>1, <1>2
<1>4. ASSUME NEW i \in 1..Len(seq) PROVE (one \o seq)[i + 1] = seq[i]
  <2>1. i + 1 \in 1..(Len(one) + Len(seq)) /\ ~(i + 1 <= Len(one)) /\ (i + 1) - Len(one) = i
    BY <1>1
  <2> QED BY <1>2, <2>1
<1> QED BY <1>2, <1>3, <1>4 DEF one

\* The digits of a line, and the direction they are added in.
Signed(text)   == text # <<>> /\ text[1] = Minus
Unsigned(text) == IF Signed(text) THEN Tail(text) ELSE text
SignOf(text)   == IF Signed(text) THEN -1 ELSE 1

\* A line is a number when it has digits, nothing else, and a sum in the range.
LEMMA NumberForm ==
  ASSUME NEW text \in Seq(Nat), NEW next
  PROVE  /\ Unsigned(text) \in Seq(Nat)
         /\ SignOf(text) \in {-1, 1}
         /\ \A n : Number(text, next) = Ok(n, next) =>
              /\ Unsigned(text) # <<>> /\ Unsigned(text) \in Seq(Digits)
              /\ n \in Accumulate(Unsigned(text), SignOf(text))
         /\ \A n : /\ Unsigned(text) # <<>> /\ Unsigned(text) \in Seq(Digits)
                   /\ Accumulate(Unsigned(text), SignOf(text)) = {n}
                   => Number(text, next) = Ok(n, next)
<1> DEFINE digits  == Unsigned(text)
           numbers == Accumulate(digits, SignOf(text))
<1>1. digits \in Seq(Nat)
  BY HeadTailProperties DEF Unsigned, Signed
<1>2. Number(text, next) =
        IF digits # <<>> /\ ToSet(digits) \subseteq Digits /\ numbers # {}
        THEN Ok(CHOOSE n \in numbers : TRUE, next)
        ELSE Invalid
  BY DEF Number, Unsigned, SignOf, Signed
<1>3. ToSet(digits) \subseteq Digits <=> digits \in Seq(Digits)
  <2> HIDE DEF digits
  <2>1. /\ ToSet(digits) = {digits[i] : i \in 1..Len(digits)} /\ Len(digits) \in Nat
        /\ digits = [i \in 1..Len(digits) |-> digits[i]]
    BY <1>1, LenProperties DEF ToSet
  <2>2. ASSUME ToSet(digits) \subseteq Digits PROVE digits \in Seq(Digits)
    <3>1. \A i \in 1..Len(digits) : digits[i] \in Digits
      BY <2>1, <2>2
    <3> QED BY <2>1, <3>1, SeqDef
  <2>3. ASSUME digits \in Seq(Digits) PROVE ToSet(digits) \subseteq Digits
    BY <2>1, <2>3, ElementOfSeq
  <2> QED BY <2>2, <2>3
<1>4. SignOf(text) \in {-1, 1}
  BY DEF SignOf
<1> HIDE DEF digits, numbers
<1>5. ASSUME NEW n, Number(text, next) = Ok(n, next)
      PROVE  digits # <<>> /\ digits \in Seq(Digits) /\ n \in numbers
  <2>1. /\ digits # <<>> /\ ToSet(digits) \subseteq Digits /\ numbers # {}
        /\ Ok(n, next) = Ok(CHOOSE m \in numbers : TRUE, next)
    <3> DEFINE first == CHOOSE m \in numbers : TRUE
               fit   == digits # <<>> /\ ToSet(digits) \subseteq Digits /\ numbers # {}
    <3>1. Ok(n, next) = IF fit THEN Ok(first, next) ELSE Invalid
      BY <1>2, <1>5
    <3> HIDE DEF fit, first
    <3>2. fit /\ Ok(n, next) = Ok(first, next)
      BY <3>1 DEF Ok, Invalid
    <3> QED BY <3>2 DEF fit, first
  <2>2. n = CHOOSE m \in numbers : TRUE
    BY <2>1 DEF Ok
  <2>3. n \in numbers
    BY <2>1, <2>2
  <2> QED BY <1>3, <2>1, <2>3
<1>6. ASSUME NEW n, digits # <<>>, digits \in Seq(Digits), numbers = {n}
      PROVE  Number(text, next) = Ok(n, next)
  <2>1. (CHOOSE m \in {n} : TRUE) = n
    OBVIOUS
  <2>2. Number(text, next) = Ok(CHOOSE m \in numbers : TRUE, next)
    BY <1>2, <1>3, <1>6
  <2> QED BY <1>6, <2>1, <2>2, Zenon
<1> USE DEF digits, numbers
<1> QED BY <1>1, <1>4, <1>5, <1>6

\* A number, positive or negative, is what it spells.
LEMMA NumberSpells ==
  ASSUME NEW text \in Seq(Nat), NEW next, NEW n
  PROVE  Number(text, next) = Ok(n, next) <=> n \in Ints /\ Spells(text, n)
<1> DEFINE digits == Unsigned(text)
           sign   == SignOf(text)
<1>0. /\ digits \in Seq(Nat) /\ sign \in {-1, 1} /\ Ints \subseteq Int
      /\ Digits \subseteq Nat /\ Minus \in Nat /\ Minus \notin Digits
  <2>1. digits \in Seq(Nat) /\ sign \in {-1, 1}
    BY NumberForm
  <2>2. Digits \subseteq Nat /\ Minus \in Nat /\ Minus \notin Digits
    BY DEF Digits, Zero, Minus
  <2> QED BY <2>1, <2>2, IntsAreIntegers
<1>1. ASSUME Number(text, next) = Ok(n, next)
      PROVE  n \in Ints /\ Spells(text, n)
  <2>1. digits # <<>> /\ digits \in Seq(Digits) /\ n \in Accumulate(digits, sign)
    BY <1>1, NumberForm
  <2>2. SumIsSpelled(digits, sign)
    <3> HIDE DEF digits, sign
    <3> QED BY <1>0, <2>1, SumsAreSpelled
  <2>3. PICK k \in Nat, v \in Nat : /\ digits = Spelling(k, v)
                                    /\ sign * v \in Ints
                                    /\ n = sign * v
    <3> HIDE DEF digits, sign
    <3> QED BY <2>1, <2>2 DEF SumIsSpelled
  <2>4. n \in Ints /\ n \in Int
    BY <1>0, <2>3
  <2>5. CASE ~Signed(text)
    <3>1. text = Spelling(k, v) /\ n = v /\ n >= 0
      BY <2>3, <2>5 DEF Unsigned, SignOf
    <3> QED BY <2>4, <3>1, SpellsCases
  <2>6. CASE Signed(text)
    <3>1. text # <<>> /\ text[1] = Minus /\ digits = Tail(text) /\ sign = -1
      BY <2>6 DEF Unsigned, SignOf, Signed
    <3>2. n <= 0 /\ -n = v
      BY <2>3, <3>1
    <3>3. text = <<Minus>> \o Tail(text)
      <4> DEFINE joined == <<Minus>> \o Tail(text)
      <4>1. /\ Tail(text) \in Seq(Nat) /\ Len(Tail(text)) = Len(text) - 1 /\ Len(text) \in Nat
            /\ \A i \in 1..Len(Tail(text)) : Tail(text)[i] = text[i + 1]
        BY <3>1, HeadTailProperties, LenProperties
      <4>2. /\ joined \in Seq(Nat) /\ Len(joined) = Len(Tail(text)) + 1 /\ joined[1] = Minus
            /\ \A i \in 1..Len(Tail(text)) : joined[i + 1] = Tail(text)[i]
        BY <1>0, <4>1, OneBefore
      <4> HIDE DEF joined
      <4>3. ASSUME NEW i \in 1..Len(text) PROVE joined[i] = text[i]
        <5>1. CASE i = 1
          BY <3>1, <4>2, <5>1
        <5>2. CASE i # 1
          <6>1. i - 1 \in 1..Len(Tail(text)) /\ (i - 1) + 1 = i
            BY <4>1, <5>2
          <6>2. joined[(i - 1) + 1] = Tail(text)[i - 1] /\ Tail(text)[i - 1] = text[(i - 1) + 1]
            BY <4>1, <4>2, <6>1
          <6> QED BY <6>1, <6>2
        <5> QED BY <5>1, <5>2
      <4>4. Len(joined) = Len(text)
        BY <4>1, <4>2
      <4>5. joined = text
        BY <4>2, <4>3, <4>4, SeqEqual
      <4> QED BY <4>5 DEF joined
    <3>4. text = <<Minus>> \o Spelling(k, -n)
      <4>1. Tail(text) = Spelling(k, -n)
        BY <2>3, <3>1, <3>2
      <4> HIDE DEF digits, sign
      <4> QED BY <3>3, <4>1, Zenon
    <3> HIDE DEF digits, sign
    <3> QED BY <2>4, <3>2, <3>4, SpellsCases
  <2> QED BY <2>5, <2>6
<1>2. ASSUME n \in Ints, Spells(text, n)
      PROVE  Number(text, next) = Ok(n, next)
  <2>0. n \in Int
    BY <1>0, <1>2
  <2>1. PICK k \in Nat : \/ n >= 0 /\ text = Spelling(k, n)
                         \/ n <= 0 /\ text = <<Minus>> \o Spelling(k, -n)
    BY <1>2, <2>0, SpellsCases
  <2>2. CASE n >= 0 /\ text = Spelling(k, n)
    <3>1. /\ n \in Nat /\ text # <<>> /\ text \in Seq(Digits) /\ 1 * n = n
      BY <2>0, <2>2, SpellingSteps
    <3>2. text[1] \in Digits
      <4>1. 1 \in 1..Len(text)
        BY <3>1, EmptySeq
      <4> QED BY <3>1, <4>1, ElementOfSeq
    <3>3. digits = text /\ sign = 1
      BY <1>0, <3>2 DEF Unsigned, SignOf, Signed
    <3>4. Accumulate(text, 1) = {n}
      <4>1. 1 \in {-1, 1} /\ 1 * n \in Ints
        BY <1>2, <3>1
      <4>2. Accumulate(Spelling(k, n), 1) = {1 * n}
        BY <3>1, <4>1, AccumulateSpelled
      <4> QED BY <2>2, <3>1, <4>2
    <3> QED BY <3>1, <3>3, <3>4, NumberForm
  <2>3. CASE n <= 0 /\ text = <<Minus>> \o Spelling(k, -n)
    <3> DEFINE m == -n
    <3>1. m \in Nat /\ -1 * m = n
      BY <2>0, <2>3
    <3>2. /\ Spelling(k, m) \in Seq(Digits) /\ Spelling(k, m) \in Seq(Nat)
          /\ Spelling(k, m) # <<>> /\ Len(Spelling(k, m)) \in Nat
      BY <3>1, SpellingSteps, LenProperties
    <3>3. text = <<Minus>> \o Spelling(k, m)
      BY <2>3
    <3> HIDE DEF m
    <3>4. /\ Len(text) = Len(Spelling(k, m)) + 1 /\ text[1] = Minus
          /\ \A i \in 1..Len(Spelling(k, m)) : text[i + 1] = Spelling(k, m)[i]
      BY <1>0, <3>2, <3>3, OneBefore
    <3>5. text # <<>>
      BY <3>2, <3>4, EmptySeq
    <3>6. text # <<>> /\ text[1] = Minus
      BY <3>4, <3>5
    <3>7. Tail(text) = Spelling(k, m)
      <4>1. /\ Tail(text) \in Seq(Nat) /\ Len(Tail(text)) = Len(Spelling(k, m))
            /\ \A i \in 1..Len(Tail(text)) : Tail(text)[i] = text[i + 1]
        BY <3>2, <3>4, <3>5, HeadTailProperties
      <4>2. \A i \in 1..Len(Tail(text)) : Tail(text)[i] = Spelling(k, m)[i]
        BY <3>4, <4>1
      <4> QED BY <3>2, <4>1, <4>2, SeqEqual
    <3>8. digits = Spelling(k, m) /\ sign = -1
      BY <3>6, <3>7 DEF Unsigned, SignOf, Signed
    <3>9. Accumulate(Spelling(k, m), -1) = {n}
      <4>1. -1 \in {-1, 1} /\ -1 * m \in Ints
        BY <1>2, <3>1
      <4>2. Accumulate(Spelling(k, m), -1) = {-1 * m}
        BY <3>1, <4>1, AccumulateSpelled
      <4> QED BY <3>1, <4>2
    <3> QED BY <3>2, <3>8, <3>9, NumberForm
  <2> QED BY <2>1, <2>2, <2>3
<1> QED BY <1>1, <1>2

\* The check and the decoding of an input that has begun.
LEMMA ParseSteps ==
  ASSUME NEW src \in Seq(Byte), Len(src) >= 1
  PROVE  /\ \E inner : Check(src) = CheckFrame(src, 1, Layers, inner)
         /\ \E inner : ParseData(src) = DecodeFrame(src, 1, inner)
<1>1. Len(src) \in Nat /\ Layers \in Nat /\ 1 \in Nat /\ Len(src) > 0 /\ ~(1 > Len(src))
  BY LenProperties, WireAssumption DEF Layers
<1>2. \E inner : Check(src) = CheckFrame(src, 1, Layers, inner)
  <2>1. CASE Layers = 0
    <3>1. Checks(src)[Layers][1] = CheckFrame(src, 1, 0, {})
      BY <1>1, <2>1, ChecksSteps
    <3> QED BY <2>1, <3>1 DEF Check
  <2>2. CASE Layers > 0
    <3>1. Checks(src)[Layers][1] = CheckFrame(src, 1, Layers, Checks(src)[Layers - 1])
      BY <1>1, <2>2, ChecksSteps
    <3> QED BY <3>1 DEF Check
  <2> QED BY <1>1, <2>1, <2>2
<1>3. ParseData(src) = DecodeFrame(src, 1, Decodings(src)[Len(src) - 1])
  BY <1>1, DecodingsSteps DEF ParseData
<1> QED BY <1>2, <1>3

\* Of an integer, the check sees the line and decoding the number.
LEMMA ParseInteger ==
  ASSUME NEW src \in Seq(Byte), Len(src) >= 1, src[1] = Colon
  PROVE  /\ Parse(src) = Incomplete => Line(src, 2) = Incomplete
         /\ \A text, next : Line(src, 2) = Ok(text, next) =>
              /\ Number(text, next) = Invalid => Parse(src) = Invalid
              /\ \A n : Number(text, next) = Ok(n, next) =>
                   Parse(src) = Ok([type |-> "Integer", value |-> n], next)
<1>0. ~(1 > Len(src)) /\ 1 + 1 = 2
  BY LenProperties
<1>1. Check(src) = Line(src, 2)
  BY <1>0, ParseSteps, CheckCases
<1>2. Parse(src) = Incomplete => Line(src, 2) = Incomplete
  BY <1>1, ParseOutcome DEF Ok, Incomplete, Invalid
<1>3. ASSUME NEW text, NEW next, Line(src, 2) = Ok(text, next)
      PROVE  /\ Number(text, next) = Invalid => Parse(src) = Invalid
             /\ \A n : Number(text, next) = Ok(n, next) =>
                  Parse(src) = Ok([type |-> "Integer", value |-> n], next)
  <2>1. Parse(src) = ParseData(src)
    BY <1>1, <1>3 DEF Parse, Then, Ok
  <2>2. Decimal(src, 2) = Number(text, next)
    BY <1>3 DEF Decimal, Then, Ok
  <2>3. PICK inner : ParseData(src) = DecodeFrame(src, 1, inner)
    BY ParseSteps
  <2>4. Number(text, next) = Invalid => DecodeFrame(src, 1, inner) = Invalid
    BY <1>0, <2>2, DecodeCases
  <2>5. \A n : Number(text, next) = Ok(n, next) =>
          DecodeFrame(src, 1, inner) = Ok([type |-> "Integer", value |-> n], next)
    <3> SUFFICES ASSUME NEW n, Number(text, next) = Ok(n, next)
                 PROVE  DecodeFrame(src, 1, inner) = Ok([type |-> "Integer", value |-> n], next)
      OBVIOUS
    <3>1. Decimal(src, 1 + 1) = Ok(n, next)
      BY <1>0, <2>2
    <3> QED BY <3>1, DecodeCases
  <2> QED BY <2>1, <2>3, <2>4, <2>5
<1> QED BY <1>2, <1>3

\* The line of an integer is what arrived between its marker and its end: it
\* ended no earlier, or there would have been a verdict already.
LEMMA IntegerLineText ==
  ASSUME Received, IntegerLine
  PROVE  Line(buffer, 2) = Ok(SubSeq(buffer, 2, Len(buffer) - 2), Len(buffer) + 1)
<1> DEFINE n      == Len(buffer)
           before == SubSeq(buffer, 1, n - 1)
<1>0. /\ buffer \in Seq(Byte) /\ buffer \in Seq(Nat) /\ n \in Nat /\ n >= 3
      /\ extra = 0 /\ buffer[1] = Colon
  BY BytesAreNumbers DEF Received, IntegerLine
<1>1. buffer[n - 1] = CR /\ buffer[n] = LF
  <2> DEFINE last == SubSeq(buffer, n - 1, n)
  <2>1. last[1] = CR /\ last[2] = LF
    <3>1. last = <<CR, LF>>
      BY DEF IntegerLine, CRLF
    <3> HIDE DEF last
    <3> QED BY <3>1
  <2>2. \A i \in 1..(n - (n - 1) + 1) : last[i] = buffer[(n - 1) + i - 1]
    <3>1. n - 1 \in Nat \ {0} /\ n \in Int /\ n <= Len(buffer)
      <4>1. n >= 3 /\ n \in Nat /\ n <= Len(buffer)
        BY <1>0
      <4> HIDE DEF last, n
      <4> QED BY <4>1
    <3> QED BY <1>0, <3>1, BytesAreNumbers
  <2> HIDE DEF last
  <2>3. last[1] = buffer[n - 1] /\ last[2] = buffer[n]
    <3>1. /\ 1 \in 1..(n - (n - 1) + 1) /\ (n - 1) + 1 - 1 = n - 1
          /\ 2 \in 1..(n - (n - 1) + 1) /\ (n - 1) + 2 - 1 = n
      BY <1>0
    <3> QED BY <2>2, <3>1
  <2> QED BY <2>1, <2>3
<1>2. /\ before \in Seq(Byte) /\ before \in Seq(Nat) /\ Len(before) = n - 1
      /\ \A i \in 1..(n - 1) : before[i] = buffer[i]
  <2>1. 1 \in Nat \ {0} /\ n - 1 \in Int /\ n - 1 <= Len(buffer)
    BY <1>0
  <2>2. /\ before \in Seq(Byte) /\ Len(before) = IF 1 <= n - 1 THEN (n - 1) - 1 + 1 ELSE 0
        /\ \A i \in 1..((n - 1) - 1 + 1) : before[i] = buffer[1 + i - 1]
    BY <1>0, <2>1, BytesAreNumbers
  <2> HIDE DEF before, n
  <2>3. Len(before) = n - 1 /\ \A i \in 1..(n - 1) : before[i] = buffer[i]
    BY <1>0, <2>2, SMTT(30)
  <2> QED BY <2>2, <2>3, BytesAreNumbers
<1>3. Parse(before) = Incomplete
  BY <1>0 DEF Received, Before
<1>4. Line(before, 2) = Incomplete
  <2>1. Len(before) >= 1 /\ before[1] = Colon
    BY <1>0, <1>2
  <2> HIDE DEF before
  <2> QED BY <1>2, <1>3, <2>1, ParseInteger
<1>5. \A i \in 2..(n - 2) : buffer[i] \notin {CR, LF}
  <2> HIDE DEF before, n
  <2>1. CASE \A i \in 2..Len(before) : before[i] \notin {CR, LF}
    BY <1>0, <1>2, <2>1, SMTT(30)
  <2>2. ASSUME NEW end \in 2..Len(before), before[end] \in {CR, LF},
               \A i \in 2..(end - 1) : before[i] \notin {CR, LF}
        PROVE  \A i \in 2..(n - 2) : buffer[i] \notin {CR, LF}
    <3>1. 2 \in Nat \ {0} /\ Len(before) \in Nat /\ end <= Len(before) /\ end \in Nat
      BY <1>0, <1>2, <2>2
    <3>5. end = Len(before)
      <4>2. CASE before[end] = CR /\ end = Len(before)
        BY <4>2
      <4>3. CASE before[end] = CR /\ end < Len(before) /\ before[end + 1] = LF
        <5>1. Line(before, 2) = Ok(SubSeq(before, 2, end - 1), end + 2)
          BY <1>2, <2>2, <3>1, <4>3, LineAt
        <5> QED BY <1>4, <5>1 DEF Ok, Incomplete
      <4>4. CASE /\ ~(before[end] = CR /\ end = Len(before))
                 /\ ~(before[end] = CR /\ end < Len(before) /\ before[end + 1] = LF)
        <5>1. Line(before, 2) = Invalid
          BY <1>2, <2>2, <3>1, <4>4, LineAt
        <5> QED BY <1>4, <5>1 DEF Invalid, Incomplete
      <4> QED BY <4>2, <4>3, <4>4
    <3> QED BY <1>0, <1>2, <2>2, <3>5, SMTT(30)
  <2> QED BY <1>2, <2>1, <2>2, LineEnds, SMTT(30)
<1>6. n - 1 \in 2..n /\ (n - 1) - 1 = n - 2 /\ (n - 1) + 1 = n /\ (n - 1) + 2 = n + 1 /\ n - 1 < n
  BY <1>0
<1>7. Line(buffer, 2) = Ok(SubSeq(buffer, 2, (n - 1) - 1), (n - 1) + 2)
  <2> HIDE DEF before
  <2>1. 2 \in Nat \ {0} /\ n - 1 \in 2..Len(buffer) /\ n - 1 < Len(buffer)
    BY <1>0, <1>6
  <2>2. buffer[n - 1] \in {CR, LF} /\ buffer[(n - 1) + 1] = LF /\ buffer[n - 1] = CR
    BY <1>1, <1>6
  <2>3. \A i \in 2..((n - 1) - 1) : buffer[i] \notin {CR, LF}
    BY <1>5, <1>6
  <2> HIDE DEF n
  <2> QED BY <1>0, <2>1, <2>2, <2>3, LineAt
<1> QED BY <1>6, <1>7

\* An integer is decoded exactly when it fits the type, to the number that its
\* digits spell.
THEOREM TheIntegers == Spec => []DecimalsAreExact
<1>1. Received => DecimalsAreExact
  <2> DEFINE text == SubSeq(buffer, 2, Len(buffer) - 2)
             next == Len(buffer) + 1
  <2> SUFFICES ASSUME Received, IntegerLine
               PROVE  IF \E n \in Ints : Spells(text, n)
                      THEN result.verdict = "ok" /\ Spells(text, result.value.value)
                      ELSE result.verdict = "Other"
    BY DEF DecimalsAreExact
  <2>1. /\ buffer \in Seq(Byte) /\ Len(buffer) \in Nat /\ Len(buffer) >= 3
        /\ buffer[1] = Colon /\ result = Parse(buffer)
    BY LenProperties DEF Received, IntegerLine
  <2>2. Line(buffer, 2) = Ok(text, next)
    BY IntegerLineText
  <2>3. text \in Seq(Nat)
    <3>1. 2 \in Nat \ {0}
      OBVIOUS
    <3> HIDE DEF text, next
    <3> QED BY <2>1, <2>2, <3>1, LineText
  <2>4. /\ Number(text, next) = Invalid => result = Invalid
        /\ \A n : Number(text, next) = Ok(n, next) =>
             result = Ok([type |-> "Integer", value |-> n], next)
    BY <2>1, <2>2, ParseInteger
  <2> HIDE DEF text, next
  <2>5. \A n : Number(text, next) = Ok(n, next) <=> n \in Ints /\ Spells(text, n)
    BY <2>3, NumberSpells
  <2>6. CASE \E n \in Ints : Spells(text, n)
    <3>1. PICK n \in Ints : Spells(text, n)
      BY <2>6
    <3>2. result = Ok([type |-> "Integer", value |-> n], next)
      BY <2>4, <2>5, <3>1
    <3>3. result.verdict = "ok" /\ result.value.value = n
      BY <3>2 DEF Ok
    <3> QED BY <2>6, <3>1, <3>3
  <2>7. CASE ~\E n \in Ints : Spells(text, n)
    <3>1. Number(text, next) = Invalid
      BY <2>3, <2>5, <2>7, NumberOutcome
    <3>2. result.verdict = "Other"
      BY <2>4, <3>1 DEF Invalid
    <3> QED BY <2>7, <3>2
  <2> QED BY <2>6, <2>7
<1> QED BY <1>1, TheBuffer, PTL

-----------------------------------------------------------------------------
(* What the encoder writes, the decoder reads                              *)

\* The code stands in the input, from that position on.
At(src, at, code) ==
  /\ at + Len(code) <= Len(src) + 1
  /\ \A i \in 1..Len(code) : src[at + i - 1] = code[i]

\* Two codes that follow each other there.
Parts(src, at, first, second, code) ==
  /\ code \in Seq(Byte)
  /\ Len(code) = Len(first) + Len(second)
  /\ At(src, at, first)
  /\ at + Len(first) \in Nat \ {0}
  /\ At(src, at + Len(first), second)

\* A code stands where each of its parts does.
LEMMA AtParts ==
  \A src \in Seq(Byte), at \in Nat \ {0}, first \in Seq(Byte), second \in Seq(Byte) : \A code :
    code = first \o second /\ At(src, at, code) => Parts(src, at, first, second, code)
<1> SUFFICES ASSUME NEW src \in Seq(Byte), NEW at \in Nat \ {0},
                    NEW first \in Seq(Byte), NEW second \in Seq(Byte),
                    NEW code, code = first \o second, At(src, at, code)
             PROVE  Parts(src, at, first, second, code)
  BY Zenon
<1>1. /\ code \in Seq(Byte) /\ Len(code) = Len(first) + Len(second)
      /\ \A i \in 1..Len(first) : code[i] = first[i]
      /\ \A i \in 1..Len(second) : code[Len(first) + i] = second[i]
      /\ Len(first) \in Nat /\ Len(second) \in Nat /\ Len(src) \in Nat
  BY ConcatProperties, LenProperties
<1>2. /\ at + Len(code) <= Len(src) + 1
      /\ \A i \in 1..Len(code) : src[at + i - 1] = code[i]
  BY DEF At
<1>3. At(src, at, first)
  BY <1>1, <1>2 DEF At
<1>4. ASSUME NEW i \in 1..Len(second)
      PROVE  src[(at + Len(first)) + i - 1] = second[i]
  <2>1. /\ Len(first) + i \in 1..Len(code)
        /\ at + (Len(first) + i) - 1 = (at + Len(first)) + i - 1
    BY <1>1
  <2> QED BY <1>1, <1>2, <2>1
<1>5. At(src, at + Len(first), second)
  BY <1>1, <1>2, <1>4 DEF At
<1> QED BY <1>1, <1>3, <1>5 DEF Parts

\* A code that stands in the input is the part of the input there.
LEMMA AtPart ==
  ASSUME NEW src \in Seq(Byte), NEW at \in Nat \ {0}, NEW code \in Seq(Byte), At(src, at, code)
  PROVE  SubSeq(src, at, at + Len(code) - 1) = code
<1> DEFINE last == at + Len(code) - 1
           part == SubSeq(src, at, last)
<1>0. /\ Len(code) \in Nat /\ Len(src) \in Nat /\ last \in Int /\ last <= Len(src)
      /\ last - at + 1 = Len(code)
      /\ \A i \in 1..Len(code) : src[at + i - 1] = code[i]
  BY LenProperties DEF At
<1> HIDE DEF last
<1>1. /\ part \in Seq(Byte)
      /\ Len(part) = IF at <= last THEN last - at + 1 ELSE 0
      /\ \A i \in 1..(last - at + 1) : part[i] = src[at + i - 1]
  BY <1>0, BytesAreNumbers
<1> HIDE DEF part
<1>2. Len(part) = Len(code) /\ \A i \in 1..Len(part) : part[i] = code[i]
  BY <1>0, <1>1
<1>3. part = code
  BY <1>1, <1>2, SeqEqual
<1> QED BY <1>3 DEF part, last

\* A text without line ends is the line that it begins.
LEMMA LineThere ==
  ASSUME NEW src \in Seq(Byte), NEW at \in Nat \ {0}, NEW text \in Seq(TextByte),
         NEW code, code = text \o CRLF, At(src, at, code)
  PROVE  /\ Line(src, at) = Ok(text, at + Len(text) + 2)
         /\ Len(code) = Len(text) + 2
<1>1. text \in Seq(Byte) /\ CRLF \in Seq(Byte) /\ Len(CRLF) = 2 /\ CRLF[1] = CR /\ CRLF[2] = LF
  <2>1. TextByte \subseteq Byte /\ CR \in Byte /\ LF \in Byte
    BY DEF TextByte, Byte, CR, LF
  <2> QED BY <2>1, SeqMonotonic DEF CRLF
<1>2. /\ At(src, at, text) /\ At(src, at + Len(text), CRLF)
      /\ Len(code) = Len(text) + Len(CRLF)
  <2>1. Parts(src, at, text, CRLF, code)
    BY <1>1, AtParts, Zenon
  <2> QED BY <2>1 DEF Parts
<1> DEFINE end == at + Len(text)
<1>3. /\ Len(text) \in Nat /\ Len(src) \in Nat /\ end \in at..Len(src) /\ end < Len(src)
      /\ src[end] = CR /\ src[end + 1] = LF
      /\ \A i \in 1..Len(text) : src[at + i - 1] = text[i]
  <2>1. Len(text) \in Nat /\ Len(src) \in Nat
    BY LenProperties
  <2>2. /\ end + 2 <= Len(src) + 1
        /\ \A i \in 1..2 : src[end + i - 1] = CRLF[i]
    BY <1>1, <1>2 DEF At
  <2>3. src[end + 1 - 1] = CR /\ src[end + 2 - 1] = LF
    <3> HIDE DEF end
    <3> QED BY <1>1, <2>2
  <2>4. end + 1 - 1 = end /\ end + 2 - 1 = end + 1
    BY <2>1
  <2> QED BY <1>2, <2>1, <2>2, <2>3, <2>4 DEF At
<1>4. \A i \in at..(end - 1) : src[i] \notin {CR, LF}
  <2> SUFFICES ASSUME NEW i \in at..(end - 1) PROVE src[i] \notin {CR, LF}
    OBVIOUS
  <2>1. i - at + 1 \in 1..Len(text) /\ at + (i - at + 1) - 1 = i
    BY <1>3, SMTT(30)
  <2>2. src[i] = text[i - at + 1] /\ text[i - at + 1] \in TextByte
    BY <1>3, <2>1, ElementOfSeq
  <2> QED BY <2>2 DEF TextByte
<1>5. src \in Seq(Nat) /\ SubSeq(src, at, at + Len(text) - 1) = text
  BY <1>1, <1>2, BytesAreNumbers, AtPart
<1>6. Line(src, at) = Ok(SubSeq(src, at, end - 1), end + 2)
  <2> HIDE DEF end
  <2> QED BY <1>3, <1>4, <1>5, LineAt
<1>7. (at + Len(text)) - 1 = at + Len(text) - 1 /\ end + 2 = at + Len(text) + 2
  BY <1>3
<1> HIDE DEF end
<1>8. Line(src, at) = Ok(text, at + Len(text) + 2)
  BY <1>5, <1>6, <1>7 DEF end
<1> QED BY <1>1, <1>2, <1>8

\* A number is spelled on one line, and reads as itself.
LEMMA SpellReads ==
  ASSUME NEW n \in Ints
  PROVE  /\ Spell(n) \in Seq(TextByte) /\ Spell(n) \in Seq(Nat)
         /\ \A next : Number(Spell(n), next) = Ok(n, next)
<1>0. n \in Int /\ -n \in Int
  BY IntsAreIntegers
<1>1. Digits \subseteq TextByte /\ Minus \in TextByte /\ TextByte \subseteq Nat
  BY DEF Digits, Zero, Minus, TextByte, Byte, CR, LF
<1>2. \A k \in Nat : SpellNat[k] \in Seq(TextByte) /\ SpellNat[k] \in Seq(Digits)
  BY <1>1, SpellDigits, SeqMonotonic
<1>3. Spell(n) \in Seq(TextByte)
  <2>1. CASE n < 0
    <3>1. -n \in Nat /\ Spell(n) = <<Minus>> \o SpellNat[-n]
      BY <1>0, <2>1 DEF Spell
    <3>2. <<Minus>> \in Seq(TextByte)
      BY <1>1
    <3> QED BY <1>2, <3>1, <3>2, ConcatProperties
  <2>2. CASE ~(n < 0)
    <3>1. n \in Nat
      BY <1>0, <2>2
    <3> QED BY <1>2, <2>2, <3>1 DEF Spell
  <2> QED BY <2>1, <2>2
<1>4. Spell(n) \in Seq(Nat)
  BY <1>1, <1>3, SeqMonotonic
<1>5. Spells(Spell(n), n)
  <2>1. 0 \in Nat
    OBVIOUS
  <2>2. \A k \in Nat : Spelling(0, k) = SpellNat[k]
    <3> SUFFICES ASSUME NEW k \in Nat PROVE Spelling(0, k) = SpellNat[k]
      OBVIOUS
    <3>1. Zeros(0) = <<>> /\ SpellNat[k] \in Seq(Digits)
      BY <1>2, <2>1, ZerosType
    <3>2. <<>> \o SpellNat[k] = SpellNat[k]
      BY <3>1, ConcatEmptySeq
    <3> QED BY <3>1, <3>2, Zenon DEF Spelling
  <2>3. CASE n < 0
    <3>1. -n \in Nat /\ n <= 0 /\ Spell(n) = <<Minus>> \o SpellNat[-n]
      BY <1>0, <2>3 DEF Spell
    <3>2. Spell(n) = <<Minus>> \o Spelling(0, -n)
      BY <2>2, <3>1, Zenon
    <3> QED BY <1>0, <1>4, <2>1, <3>1, <3>2, SpellsCases
  <2>4. CASE ~(n < 0)
    <3>1. n \in Nat /\ n >= 0 /\ Spell(n) = SpellNat[n]
      BY <1>0, <2>4 DEF Spell
    <3>2. Spell(n) = Spelling(0, n)
      BY <2>2, <3>1, Zenon
    <3> QED BY <1>0, <1>4, <2>1, <3>1, <3>2, SpellsCases
  <2> QED BY <2>3, <2>4
<1> QED BY <1>3, <1>4, <1>5, NumberSpells

\* A line of its own: a marker, a text and the line end.
Marked(marker, text) == <<marker>> \o text \o CRLF

\* Such a line in the input, as the decoder finds it.
MarkedThere(src, at, marker, text, code) ==
  /\ code \in Seq(Byte) /\ Len(code) >= 1
  /\ ~(at > Len(src)) /\ src[at] = marker
  /\ Line(src, at + 1) = Ok(text, at + Len(code))

\* A line of its own in the input is its marker, and the text behind it.
LEMMA MarkedReads ==
  ASSUME NEW src \in Seq(Byte), NEW at \in Nat \ {0}, NEW marker \in Byte,
         NEW text \in Seq(TextByte),
         NEW code, code = Marked(marker, text), At(src, at, code)
  PROVE  MarkedThere(src, at, marker, text, code)
<1> DEFINE rest == text \o CRLF
<1>1. /\ text \in Seq(Byte) /\ CRLF \in Seq(Byte) /\ rest \in Seq(Byte)
      /\ <<marker>> \in Seq(Byte) /\ Len(<<marker>>) = 1 /\ <<marker>>[1] = marker
  <2>1. TextByte \subseteq Byte /\ CR \in Byte /\ LF \in Byte
    BY DEF TextByte, Byte, CR, LF
  <2>2. text \in Seq(Byte) /\ CRLF \in Seq(Byte)
    BY <2>1, SeqMonotonic DEF CRLF
  <2> QED BY <2>2, ConcatProperties
<1>2. code = <<marker>> \o rest
  <2>1. code = (<<marker>> \o text) \o CRLF
    BY DEF Marked
  <2>2. ASSUME NEW s \in Seq(Byte), NEW t \in Seq(Byte), NEW u \in Seq(Byte)
        PROVE  (s \o t) \o u = s \o (t \o u)
    BY ONLY Regroup, SMTT(30)
  <2> QED BY <1>1, <2>1, <2>2, ZenonT(30)
<1>3. /\ code \in Seq(Byte)
      /\ Len(code) = 1 + Len(rest)
      /\ At(src, at, <<marker>>) /\ At(src, at + 1, rest)
      /\ at + 1 \in Nat \ {0}
  <2> HIDE DEF rest
  <2>1. Parts(src, at, <<marker>>, rest, code)
    BY <1>1, <1>2, AtParts, Zenon
  <2> QED BY <1>1, <2>1 DEF Parts
<1>4. ~(at > Len(src)) /\ src[at] = marker
  <2>1. /\ at + 1 <= Len(src) + 1 /\ src[at + 1 - 1] = <<marker>>[1] /\ Len(src) \in Nat
    BY <1>1, <1>3, LenProperties DEF At
  <2>2. at + 1 - 1 = at
    OBVIOUS
  <2> QED BY <1>1, <2>1, <2>2
<1>5. /\ Line(src, at + 1) = Ok(text, (at + 1) + Len(text) + 2)
      /\ Len(rest) = Len(text) + 2
  BY <1>3, LineThere, ZenonT(30)
<1>6. /\ Len(code) >= 1
      /\ (at + 1) + Len(text) + 2 = at + Len(code)
  <2> HIDE DEF rest
  <2>1. Len(text) \in Nat
    BY <1>1, LenProperties
  <2> QED BY <1>3, <1>5, <2>1
<1>7. Line(src, at + 1) = Ok(text, at + Len(code))
  <2> HIDE DEF rest
  <2> QED BY <1>5, <1>6
<1> QED BY <1>3, <1>4, <1>6, <1>7 DEF MarkedThere

\* A header in the input, as the decoder finds it.
HeaderThere(src, at, marker, n, code) ==
  /\ MarkedThere(src, at, marker, Spell(n), code)
  /\ Decimal(src, at + 1) = Ok(n, at + Len(code))

\* A header in the input is its marker, and the number behind it.
LEMMA HeaderReads ==
  ASSUME NEW src \in Seq(Byte), NEW at \in Nat \ {0}, NEW marker \in Byte, NEW n \in Ints,
         NEW code, code = Header(marker, n), At(src, at, code)
  PROVE  HeaderThere(src, at, marker, n, code)
<1>1. Spell(n) \in Seq(TextByte) /\ \A next : Number(Spell(n), next) = Ok(n, next)
  BY SpellReads
<1>2. code = Marked(marker, Spell(n))
  BY DEF Header, Marked
<1>3. MarkedThere(src, at, marker, Spell(n), code)
  BY <1>1, <1>2, MarkedReads, Zenon
<1>4. Decimal(src, at + 1) = Ok(n, at + Len(code))
  BY <1>1, <1>3 DEF Decimal, Then, Ok, MarkedThere
<1> QED BY <1>3, <1>4 DEF HeaderThere

\* The frame stands in the input, for the check and for decoding.
FrameThere(src, at, frame, code) ==
  /\ code \in Seq(Byte) /\ Len(code) >= 1
  /\ ~(at > Len(src))
  /\ \A left, inner : \E value : CheckFrame(src, at, left, inner) = Ok(value, at + Len(code))
  /\ \A inner : DecodeFrame(src, at, inner) = Ok(frame, at + Len(code))

\* A text on a line of its own.
LEMMA TextReads ==
  ASSUME NEW src \in Seq(Byte), NEW at \in Nat \ {0}, NEW marker \in {Plus, Minus},
         NEW text \in Texts,
         NEW code, code = Marked(marker, text), At(src, at, code)
  PROVE  FrameThere(src, at,
           [type |-> IF marker = Plus THEN "Simple" ELSE "Error", data |-> text], code)
<1>0. marker \in Byte
  BY DEF Plus, Minus, Byte
<1>2. text \in Seq(TextByte) /\ IsUtf8(text)
  BY DEF Texts
<1>1. MarkedThere(src, at, marker, text, code)
  BY <1>0, <1>2, MarkedReads, Zenon
<1>3. \A left, inner : CheckFrame(src, at, left, inner) = Ok(text, at + Len(code))
  BY <1>1, CheckCases DEF MarkedThere
<1>4. \A inner : DecodeFrame(src, at, inner) =
        Text(IF marker = Plus THEN "Simple" ELSE "Error", Ok(text, at + Len(code)))
  BY <1>1, DecodeCases DEF MarkedThere
<1>5. \A type, next : Text(type, Ok(text, next)) = Ok([type |-> type, data |-> text], next)
  BY <1>2 DEF Text, Then, Ok
<1> QED BY <1>1, <1>3, <1>4, <1>5 DEF FrameThere, MarkedThere

\* A number on a line of its own.
LEMMA IntegerReads ==
  ASSUME NEW src \in Seq(Byte), NEW at \in Nat \ {0}, NEW n \in Ints,
         NEW code, code = Header(Colon, n), At(src, at, code)
  PROVE  FrameThere(src, at, [type |-> "Integer", value |-> n], code)
<1>0. Colon \in Byte
  BY DEF Colon, Byte
<1>1. HeaderThere(src, at, Colon, n, code)
  BY <1>0, HeaderReads, Zenon
<1>2. \A left, inner : CheckFrame(src, at, left, inner) = Ok(Spell(n), at + Len(code))
  BY <1>1, CheckCases DEF HeaderThere, MarkedThere
<1>3. \A inner : DecodeFrame(src, at, inner) =
        Ok([type |-> "Integer", value |-> n], at + Len(code))
  BY <1>1, DecodeCases DEF HeaderThere, MarkedThere
<1> QED BY <1>1, <1>2, <1>3 DEF FrameThere, HeaderThere, MarkedThere

\* A null is a payload of length -1.
LEMMA NullReads ==
  ASSUME NEW src \in Seq(Byte), NEW at \in Nat \ {0},
         NEW code, code = Header(Dollar, -1), At(src, at, code)
  PROVE  FrameThere(src, at, [type |-> "Null"], code)
<1>0. Dollar \in Byte /\ -1 \in Ints
  BY WireAssumption DEF Dollar, Byte, Ints
<1>1. HeaderThere(src, at, Dollar, -1, code)
  BY <1>0, HeaderReads, Zenon
<1>2. \A left, inner : CheckFrame(src, at, left, inner) = CheckBulk(src, at + Len(code), -1)
  BY <1>1, CheckCases DEF HeaderThere, MarkedThere
<1>3. \A inner : DecodeFrame(src, at, inner) = Payload(src, at + Len(code), -1)
  BY <1>1, DecodeCases DEF HeaderThere, MarkedThere
<1>4. \A next : /\ CheckBulk(src, next, -1) = Ok(<<>>, next)
                /\ Payload(src, next, -1) = Ok([type |-> "Null"], next)
  BY DEF CheckBulk, Payload
<1> QED BY <1>1, <1>2, <1>3, <1>4 DEF FrameThere, HeaderThere, MarkedThere

\* A header, a payload and the line end.
Bulked(data) == Header(Dollar, Len(data)) \o data \o CRLF

\* A payload of the length that its header says.
LEMMA BulkReads ==
  ASSUME NEW src \in Seq(Byte), NEW at \in Nat \ {0},
         NEW data \in Seq(Byte), Len(data) <= MaxInt,
         NEW code, code = Bulked(data), At(src, at, code)
  PROVE  FrameThere(src, at, [type |-> "Bulk", data |-> data], code)
<1> DEFINE head == Header(Dollar, Len(data))
           both == head \o data
<1>0. Dollar \in Byte /\ Len(data) \in Nat /\ Len(data) \in Ints
  <2>1. Len(data) \in Nat
    BY LenProperties
  <2>2. \A n \in Nat : n <= MaxInt => n \in Ints
    BY WireAssumption DEF Ints
  <2> QED BY <2>1, <2>2 DEF Dollar, Byte
<1>1. /\ CRLF \in Seq(Byte) /\ Len(CRLF) = 2 /\ CRLF[1] = CR /\ CRLF[2] = LF
      /\ head \in Seq(Byte) /\ both \in Seq(Byte)
  <2>1. TextByte \subseteq Byte /\ CR \in Byte /\ LF \in Byte
    BY DEF TextByte, Byte, CR, LF
  <2>2. Spell(Len(data)) \in Seq(Byte)
    BY <1>0, <2>1, SpellReads, SeqMonotonic
  <2>3. <<Dollar>> \in Seq(Byte) /\ CRLF \in Seq(Byte)
    BY <1>0, <2>1 DEF CRLF
  <2>4. head \in Seq(Byte)
    BY <2>2, <2>3, ConcatProperties DEF Header
  <2> HIDE DEF head
  <2>5. both \in Seq(Byte)
    BY <2>4, ConcatProperties
  <2> QED BY <2>3, <2>4, <2>5 DEF CRLF
<1>2. code = both \o CRLF
  BY DEF Bulked
<1> HIDE DEF head
<1>3. Parts(src, at, both, CRLF, code)
  <2> HIDE DEF both
  <2> QED BY <1>1, <1>2, AtParts, Zenon
<1>4. Parts(src, at, head, data, both)
  <2>1. At(src, at, both)
    BY <1>3 DEF Parts
  <2> QED BY <1>1, <2>1, AtParts, Zenon
<1>5. HeaderThere(src, at, Dollar, Len(data), head)
  <2>1. At(src, at, head)
    BY <1>4 DEF Parts
  <2> QED BY <1>0, <2>1, HeaderReads, Zenon DEF head
<1> DEFINE next == at + Len(head)
           end  == at + Len(code)
           n    == Len(data)
<1> HIDE DEF both
<1>6. /\ next \in Nat \ {0} /\ next + n - 1 <= Len(src) /\ Len(src) \in Nat /\ n \in Nat
      /\ SubSeq(src, next, next + n - 1) = data
  <2>1. next \in Nat \ {0} /\ At(src, next, data)
    BY <1>4 DEF Parts
  <2> HIDE DEF next
  <2>2. SubSeq(src, next, next + n - 1) = data
    BY <2>1, AtPart, Zenon
  <2> QED BY <2>1, <2>2, <1>0, LenProperties DEF At
<1>7. /\ code \in Seq(Byte) /\ Len(code) >= 1 /\ end = next + n + 2
      /\ ~(Len(src) < next + n + 1) /\ src[next + n] = CR /\ src[next + n + 1] = LF
  <2>1. /\ code \in Seq(Byte) /\ Len(code) = Len(both) + 2 /\ Len(both) = Len(head) + n
        /\ Len(head) \in Nat /\ Len(both) \in Nat
        /\ At(src, at + Len(both), CRLF)
    BY <1>1, <1>3, <1>4, LenProperties DEF Parts
  <2>2. at + Len(both) = next + n
    BY <1>6, <2>1
  <2>3. Len(code) >= 1 /\ end = next + n + 2
    BY <1>6, <2>1
  <2> DEFINE place == next + n
  <2>4. place \in Nat
    BY <1>6
  <2>5. At(src, place, CRLF)
    BY <2>1, <2>2
  <2> HIDE DEF next, end, place
  <2>6. place + 2 <= Len(src) + 1 /\ \A i \in 1..2 : src[place + i - 1] = CRLF[i]
    BY <1>1, <2>5 DEF At
  <2>7. src[place + 1 - 1] = CR /\ src[place + 2 - 1] = LF
    BY <1>1, <2>6
  <2>8. place + 1 - 1 = place /\ place + 2 - 1 = place + 1 /\ ~(Len(src) < place + 1)
    BY <1>6, <2>4, <2>6
  <2>9. src[place] = CR /\ src[place + 1] = LF
    BY <2>7, <2>8
  <2> QED BY <2>1, <2>3, <2>8, <2>9 DEF place
<1> HIDE DEF next, end
<1>8. /\ CheckBulk(src, next, n) = Ok(<<>>, end)
      /\ Payload(src, next, n) = Ok([type |-> "Bulk", data |-> data], end)
  <2>1. ~(n = -1) /\ ~(n < 0)
    BY <1>6
  <2> HIDE DEF n
  <2> QED BY <1>6, <1>7, <2>1, Zenon DEF CheckBulk, Payload
<1>9. \A left, inner : CheckFrame(src, at, left, inner) = Ok(<<>>, end)
  <2>1. ~(at > Len(src)) /\ src[at] = Dollar /\ Decimal(src, at + 1) = Ok(n, next)
    BY <1>5 DEF HeaderThere, MarkedThere, next
  <2>2. \A left, inner : CheckFrame(src, at, left, inner) = CheckBulk(src, next, n)
    BY <2>1, CheckCases
  <2> QED BY <1>8, <2>2
<1>10. \A inner : DecodeFrame(src, at, inner) = Ok([type |-> "Bulk", data |-> data], end)
  <2>1. src[at] = Dollar /\ Decimal(src, at + 1) = Ok(n, next)
    BY <1>5 DEF HeaderThere, MarkedThere, next
  <2>2. \A inner : DecodeFrame(src, at, inner) = Payload(src, next, n)
    BY <2>1, DecodeCases
  <2> QED BY <1>8, <2>2
<1> QED BY <1>5, <1>7, <1>9, <1>10 DEF FrameThere, HeaderThere, MarkedThere, end

\* A frame that is no array.
LEMMA ElementaryReads ==
  ASSUME NEW src \in Seq(Byte), NEW at \in Nat \ {0}, NEW frame \in Elementary, NEW inner,
         NEW code, code = EncodeFrame(frame, inner), At(src, at, code)
  PROVE  FrameThere(src, at, frame, code)
<1>1. ASSUME NEW text \in Texts, frame = [type |-> "Simple", data |-> text]
      PROVE  FrameThere(src, at, frame, code)
  <2>1. code = Marked(Plus, text)
    BY <1>1 DEF EncodeFrame, Marked
  <2>2. FrameThere(src, at,
          [type |-> IF Plus = Plus THEN "Simple" ELSE "Error", data |-> text], code)
    <3>1. Plus \in {Plus, Minus}
      OBVIOUS
    <3> QED BY <2>1, <3>1, TextReads, Zenon
  <2> QED BY <1>1, <2>2
<1>2. ASSUME NEW text \in Texts, frame = [type |-> "Error", data |-> text]
      PROVE  FrameThere(src, at, frame, code)
  <2>1. code = Marked(Minus, text)
    BY <1>2 DEF EncodeFrame, Marked
  <2>2. FrameThere(src, at,
          [type |-> IF Minus = Plus THEN "Simple" ELSE "Error", data |-> text], code)
    <3>1. Minus \in {Plus, Minus}
      OBVIOUS
    <3> QED BY <2>1, <3>1, TextReads, Zenon
  <2> QED BY <1>2, <2>2 DEF Minus, Plus
<1>3. ASSUME NEW n \in Ints, frame = [type |-> "Integer", value |-> n]
      PROVE  FrameThere(src, at, frame, code)
  <2>1. code = Header(Colon, n)
    BY <1>3 DEF EncodeFrame
  <2> QED BY <1>3, <2>1, IntegerReads, Zenon
<1>4. ASSUME NEW data \in Seq(Byte), Len(data) <= MaxInt, frame = [type |-> "Bulk", data |-> data]
      PROVE  FrameThere(src, at, frame, code)
  <2>1. code = Bulked(data)
    BY <1>4 DEF EncodeFrame, Bulked
  <2> QED BY <1>4, <2>1, BulkReads, Zenon
<1>5. ASSUME frame = [type |-> "Null"]
      PROVE  FrameThere(src, at, frame, code)
  <2>1. code = Header(Dollar, -1)
    BY <1>5 DEF EncodeFrame
  <2> QED BY <1>5, <2>1, NullReads, Zenon
<1> QED BY <1>1, <1>2, <1>3, <1>4, <1>5 DEF Elementary

\* Codes are joined from nothing, one more at a time.
LEMMA Joining ==
  ASSUME NEW codes \in Seq(Seq(Byte))
  PROVE  \E joined :
           /\ joined[0] = <<>> /\ joined[Len(codes)] = FlattenSeq(codes)
           /\ \A j \in Nat : j <= Len(codes) => joined[j] \in Seq(Byte)
           /\ \A j \in Nat : j + 1 <= Len(codes) => joined[j + 1] = joined[j] \o codes[j + 1]
<1>0. Len(codes) \in Nat /\ \A i \in 1..Len(codes) : codes[i] \in Seq(Byte)
  BY LenProperties, ElementOfSeq
<1>1. PICK parts :
        /\ Len(codes) = 0 => FlattenSeq(codes) = codes
        /\ Len(codes) > 0 => parts[1] = codes[1] /\ FlattenSeq(codes) = parts[Len(codes)]
        /\ \A n \in 1..(Len(codes) - 1) : parts[n + 1] = parts[n] \o codes[n + 1]
  BY <1>0, JoinSteps, Zenon
<1> DEFINE joined == [j \in Nat |-> IF j = 0 THEN <<>> ELSE parts[j]]
<1>2. joined[0] = <<>> /\ \A j \in Nat : j # 0 => joined[j] = parts[j]
  OBVIOUS
<1> HIDE DEF joined
<1>3. joined[Len(codes)] = FlattenSeq(codes)
  <2>1. CASE Len(codes) = 0
    <3>1. codes = <<>>
      BY <2>1, EmptySeq
    <3> QED BY <1>1, <1>2, <2>1, <3>1, Zenon
  <2>2. CASE Len(codes) > 0
    BY <1>0, <1>1, <1>2, <2>2
  <2> QED BY <1>0, <2>1, <2>2
<1>4. ASSUME NEW j \in Nat, j + 1 <= Len(codes)
      PROVE  joined[j + 1] = joined[j] \o codes[j + 1]
  <2>1. CASE j = 0
    <3>1. /\ joined[0 + 1] = codes[0 + 1] /\ codes[0 + 1] \in Seq(Byte)
      <4>1. 0 + 1 = 1 /\ 1 # 0 /\ 1 \in 1..Len(codes) /\ Len(codes) > 0
        BY <1>0, <1>4, <2>1
      <4> QED BY <1>0, <1>1, <1>2, <4>1
    <3>2. <<>> \o codes[0 + 1] = codes[0 + 1]
      BY <3>1, ConcatEmptySeq
    <3> QED BY <1>2, <2>1, <3>1, <3>2, Zenon
  <2>2. CASE j # 0
    <3>1. j \in 1..(Len(codes) - 1) /\ j + 1 # 0 /\ j + 1 \in Nat
      BY <1>0, <1>4, <2>2
    <3>2. joined[j] = parts[j] /\ joined[j + 1] = parts[j + 1]
      BY <1>2, <2>2, <3>1
    <3>3. parts[j + 1] = parts[j] \o codes[j + 1]
      BY <1>1, <3>1
    <3> QED BY <3>2, <3>3, Zenon
  <2> QED BY <2>1, <2>2
<1>5. \A j \in Nat : j <= Len(codes) => joined[j] \in Seq(Byte)
  <2> DEFINE S == {j \in Nat : j <= Len(codes) => joined[j] \in Seq(Byte)}
  <2>1. 0 \in S
    <3>1. <<>> \in Seq(Byte)
      OBVIOUS
    <3>2. joined[0] \in Seq(Byte)
      BY <1>2, <3>1, Zenon
    <3> QED BY <3>2
  <2>2. ASSUME NEW j \in S PROVE j + 1 \in S
    <3> SUFFICES ASSUME j + 1 <= Len(codes) PROVE joined[j + 1] \in Seq(Byte)
      OBVIOUS
    <3>1. joined[j] \in Seq(Byte) /\ codes[j + 1] \in Seq(Byte)
      BY <1>0
    <3>2. joined[j] \o codes[j + 1] \in Seq(Byte)
      BY <3>1, ConcatProperties
    <3> QED BY <1>4, <3>2
  <2> HIDE DEF S
  <2>3. S = Nat
    <3>1. S \in SUBSET Nat
      BY DEF S
    <3> QED BY <2>1, <2>2, <3>1, Induct
  <2> QED BY <2>3 DEF S
<1> QED BY <1>2, <1>3, <1>4, <1>5

\* From there on every code is read where it stands; exactly, if to its item.
ReadsEach(src, start, codes, items, exact, read) ==
  \A i \in 1..Len(codes), at \in Nat : at >= start /\ At(src, at, codes[i]) =>
    \E value : /\ read[at] = Ok(value, at + Len(codes[i]))
               /\ exact => value = items[i]

\* All of them are read; exactly, if to the items.
ReadsAll(start, codes, items, exact, read) ==
  \E values :
    /\ Elements(read, Len(codes), start) = Ok(values, start + Len(FlattenSeq(codes)))
    /\ exact => values = items

\* Elements in the input, one behind the other, are read one after the other.
LEMMA ElementsRead ==
  ASSUME NEW src \in Seq(Byte), NEW start \in Nat \ {0},
         NEW codes \in Seq(Seq(Byte)), At(src, start, FlattenSeq(codes)),
         NEW Items, NEW items \in Seq(Items), Len(items) = Len(codes),
         NEW exact \in BOOLEAN, NEW read,
         ReadsEach(src, start, codes, items, exact, read)
  PROVE  ReadsAll(start, codes, items, exact, read)
<1>0. /\ Len(codes) \in Nat /\ \A i \in 1..Len(codes) : codes[i] \in Seq(Byte)
  BY LenProperties, ElementOfSeq
<1>1. PICK joined :
        /\ joined[0] = <<>> /\ joined[Len(codes)] = FlattenSeq(codes)
        /\ \A j \in Nat : j <= Len(codes) => joined[j] \in Seq(Byte)
        /\ \A j \in Nat : j + 1 <= Len(codes) => joined[j + 1] = joined[j] \o codes[j + 1]
  BY Joining, Zenon
<1> DEFINE P(j) ==
             At(src, start, joined[j]) =>
               \E values :
                 /\ Elements(read, j, start) = Ok(values, start + Len(joined[j]))
                 /\ exact => values = SubSeq(items, 1, j)
           S == {j \in Nat : j <= Len(codes) => P(j)}
<1>2. P(0)
  <2>1. Elements(read, 0, start) = Ok(<<>>, start)
    BY ElementsSteps
  <2>2. start + Len(joined[0]) = start
    BY <1>1
  <2>3. SubSeq(items, 1, 0) = <<>>
    BY SubSeqEmpty
  <2> QED BY <2>1, <2>2, <2>3
<1>3. ASSUME NEW j \in Nat, j + 1 <= Len(codes), P(j)
      PROVE  P(j + 1)
  <2> SUFFICES ASSUME At(src, start, joined[j + 1])
               PROVE  \E values :
                        /\ Elements(read, j + 1, start) = Ok(values, start + Len(joined[j + 1]))
                        /\ exact => values = SubSeq(items, 1, j + 1)
    OBVIOUS
  <2>0. j <= Len(codes) /\ j + 1 \in 1..Len(codes)
    BY <1>0, <1>3
  <2>1. /\ joined[j] \in Seq(Byte) /\ codes[j + 1] \in Seq(Byte)
        /\ joined[j + 1] = joined[j] \o codes[j + 1]
    BY <1>0, <1>1, <1>3, <2>0
  <2>2. Parts(src, start, joined[j], codes[j + 1], joined[j + 1])
    BY <2>1, AtParts, Zenon
  <2> DEFINE at == start + Len(joined[j])
  <2>3. At(src, start, joined[j]) /\ At(src, at, codes[j + 1])
    BY <2>2 DEF Parts
  <2>4. /\ at \in Nat /\ at >= start
        /\ at + Len(codes[j + 1]) = start + Len(joined[j + 1])
    <3>1. Len(joined[j]) \in Nat /\ Len(codes[j + 1]) \in Nat
      BY <2>1, LenProperties
    <3>2. Len(joined[j + 1]) = Len(joined[j]) + Len(codes[j + 1])
      BY <2>2 DEF Parts
    <3> DEFINE a == Len(joined[j])
               b == Len(codes[j + 1])
               c == Len(joined[j + 1])
    <3>3. a \in Nat /\ b \in Nat /\ c = a + b
      BY <3>1, <3>2
    <3> HIDE DEF a, b, c
    <3>4. start + a \in Nat /\ start + a >= start /\ (start + a) + b = start + c
      BY <3>3
    <3> QED BY <3>4 DEF a, b, c
  <2>5. PICK values : /\ Elements(read, j, start) = Ok(values, at)
                      /\ exact => values = SubSeq(items, 1, j)
    BY <1>3, <2>3
  <2> HIDE DEF at
  <2>6. PICK value : /\ read[at] = Ok(value, at + Len(codes[j + 1]))
                     /\ exact => value = items[j + 1]
    BY <2>0, <2>3, <2>4 DEF ReadsEach
  <2>7. Elements(read, j + 1, start) = Ok(Append(values, value), start + Len(joined[j + 1]))
    BY <2>4, <2>5, <2>6, ElementsStep
  <2>8. exact => Append(values, value) = SubSeq(items, 1, j + 1)
    <3>1. SubSeq(items, 1, j + 1) = Append(SubSeq(items, 1, j), items[j + 1])
      BY <2>0, SubSeqRecursiveSecond
    <3> QED BY <2>5, <2>6, <3>1, Zenon
  <2> QED BY <2>7, <2>8
<1> HIDE DEF P
<1>4. S = Nat
  <2>1. 0 \in S
    BY <1>2
  <2>2. \A j \in S : j + 1 \in S
    BY <1>0, <1>3
  <2>3. S \in SUBSET Nat
    OBVIOUS
  <2> HIDE DEF S
  <2> QED BY <2>1, <2>2, <2>3, Induct
<1>5. P(Len(codes))
  BY <1>0, <1>4
<1>6. SubSeq(items, 1, Len(codes)) = items
  BY SubSeqFull
<1> QED BY <1>1, <1>5, <1>6 DEF P, ReadsAll

\* A frame is no array, or an array of frames of a layer less.
LEMMA FrameCases ==
  ASSUME NEW layers \in Nat, NEW frame \in FramesWithin[layers]
  PROVE  \/ frame \in Elementary
         \/ /\ layers > 0
            /\ \E items \in Seq(FramesWithin[layers - 1]) :
                 Len(items) < ArrayLimit /\ frame = [type |-> "Array", items |-> items]
<1>1. CASE layers = 0
  BY <1>1, FramesSteps
<1>2. CASE layers # 0
  <2>1. layers - 1 \in Nat /\ (layers - 1) + 1 = layers /\ layers > 0
    BY <1>2
  <2>2. frame \in Elementary \cup
          [type  : {"Array"},
           items : {items \in Seq(FramesWithin[layers - 1]) : Len(items) < ArrayLimit}]
    BY <2>1, FramesSteps
  <2> QED BY <2>1, <2>2
<1> QED BY <1>1, <1>2

\* The codes of the elements of an array.
Codes(layers, items) == [i \in DOMAIN items |-> Encodings[layers][items[i]]]

\* What the codes of frames are.
LEMMA CodeCases ==
  ASSUME NEW layers \in Nat, NEW frame \in FramesWithin[layers]
  PROVE  /\ \E inner : Encodings[layers][frame] = EncodeFrame(frame, inner)
         /\ \A items : layers > 0 /\ frame = [type |-> "Array", items |-> items] =>
              Encodings[layers][frame] =
                Header(Star, Len(items)) \o FlattenSeq(Codes(layers - 1, items))
<1>1. CASE layers = 0
  BY <1>1, EncodingsSteps
<1>2. CASE layers > 0
  <2>1. Encodings[layers][frame] = EncodeFrame(frame, Encodings[layers - 1])
    BY <1>2, EncodingsSteps
  <2>2. ASSUME NEW items, frame = [type |-> "Array", items |-> items]
        PROVE  EncodeFrame(frame, Encodings[layers - 1]) =
                 Header(Star, Len(items)) \o FlattenSeq(Codes(layers - 1, items))
    BY <2>2 DEF EncodeFrame, Codes
  <2> QED BY <2>1, <2>2
<1> QED BY <1>1, <1>2

\* Headers are bytes.
LEMMA HeaderBytes ==
  ASSUME NEW marker \in Byte, NEW n \in Ints
  PROVE  Header(marker, n) \in Seq(Byte)
<1>1. TextByte \subseteq Byte /\ CR \in Byte /\ LF \in Byte
  BY DEF TextByte, Byte, CR, LF
<1>2. Spell(n) \in Seq(Byte)
  BY <1>1, SpellReads, SeqMonotonic
<1>3. <<marker>> \in Seq(Byte) /\ CRLF \in Seq(Byte)
  BY <1>1 DEF CRLF
<1> QED BY <1>2, <1>3, ConcatProperties DEF Header

\* Codes of bytes joined are bytes.
LEMMA JoinedBytes ==
  ASSUME NEW codes \in Seq(Seq(Byte))
  PROVE  FlattenSeq(codes) \in Seq(Byte)
<1>1. PICK joined :
        /\ joined[Len(codes)] = FlattenSeq(codes)
        /\ \A j \in Nat : j <= Len(codes) => joined[j] \in Seq(Byte)
  BY Joining, Zenon
<1>2. Len(codes) \in Nat /\ Len(codes) <= Len(codes)
  BY LenProperties
<1> QED BY <1>1, <1>2

\* Frames that are no arrays are encoded to bytes.
LEMMA ElementaryBytes ==
  ASSUME NEW frame \in Elementary, NEW inner
  PROVE  EncodeFrame(frame, inner) \in Seq(Byte)
<1>0. /\ TextByte \subseteq Byte /\ CRLF \in Seq(Byte)
      /\ <<Plus>> \in Seq(Byte) /\ <<Minus>> \in Seq(Byte)
      /\ Colon \in Byte /\ Dollar \in Byte
  BY DEF TextByte, Byte, CR, LF, CRLF, Plus, Minus, Colon, Dollar
<1>1. \A s, t, u \in Seq(Byte) : s \o t \o u \in Seq(Byte)
  BY ConcatProperties
<1>2. -1 \in Ints /\ \A data \in Seq(Byte) : Len(data) <= MaxInt => Len(data) \in Ints
  <2>1. \A n \in Nat : n <= MaxInt => n \in Ints
    BY WireAssumption DEF Ints
  <2>2. -1 \in Ints
    BY WireAssumption DEF Ints
  <2> QED BY <2>1, <2>2, LenProperties
<1>3. ASSUME NEW text \in Seq(TextByte)
      PROVE  /\ <<Plus>> \o text \o CRLF \in Seq(Byte)
             /\ <<Minus>> \o text \o CRLF \in Seq(Byte)
  <2>1. text \in Seq(Byte)
    BY <1>0, SeqMonotonic
  <2> QED BY <1>0, <1>1, <2>1, Zenon
<1>4. ASSUME NEW data \in Seq(Byte), Len(data) <= MaxInt
      PROVE  Header(Dollar, Len(data)) \o data \o CRLF \in Seq(Byte)
  <2>1. Header(Dollar, Len(data)) \in Seq(Byte)
    BY <1>0, <1>2, <1>4, HeaderBytes
  <2> QED BY <1>0, <1>1, <2>1, Zenon
<1>5. \A n \in Ints : Header(Colon, n) \in Seq(Byte)
  BY <1>0, HeaderBytes
<1>6. Header(Dollar, -1) \in Seq(Byte)
  BY <1>0, <1>2, HeaderBytes
<1>7. CASE frame.type = "Simple"
  <2>1. frame.data \in Seq(TextByte)
    BY <1>7 DEF Elementary, Texts
  <2>2. EncodeFrame(frame, inner) = <<Plus>> \o frame.data \o CRLF
    BY <1>7 DEF EncodeFrame
  <2> QED BY <1>3, <2>1, <2>2, Zenon
<1>8. CASE frame.type = "Error"
  <2>1. frame.data \in Seq(TextByte)
    BY <1>8 DEF Elementary, Texts
  <2>2. EncodeFrame(frame, inner) = <<Minus>> \o frame.data \o CRLF
    BY <1>8 DEF EncodeFrame
  <2> QED BY <1>3, <2>1, <2>2, Zenon
<1>9. CASE frame.type = "Integer"
  <2>1. frame.value \in Ints
    BY <1>9 DEF Elementary
  <2>2. EncodeFrame(frame, inner) = Header(Colon, frame.value)
    BY <1>9 DEF EncodeFrame
  <2> QED BY <1>5, <2>1, <2>2, Zenon
<1>10. CASE frame.type = "Bulk"
  <2>1. frame.data \in Seq(Byte) /\ Len(frame.data) <= MaxInt
    BY <1>10 DEF Elementary
  <2>2. EncodeFrame(frame, inner) = Header(Dollar, Len(frame.data)) \o frame.data \o CRLF
    BY <1>10 DEF EncodeFrame
  <2> QED BY <1>4, <2>1, <2>2, Zenon
<1>11. CASE frame.type = "Null"
  <2>1. EncodeFrame(frame, inner) = Header(Dollar, -1)
    BY <1>11 DEF EncodeFrame
  <2> QED BY <1>6, <2>1, Zenon
<1> QED BY <1>7, <1>8, <1>9, <1>10, <1>11 DEF Elementary

\* Frames are encoded to bytes.
LEMMA EncodingsBytes ==
  \A layers \in Nat : \A frame \in FramesWithin[layers] : Encodings[layers][frame] \in Seq(Byte)
<1> DEFINE P(layers) == \A frame \in FramesWithin[layers] : Encodings[layers][frame] \in Seq(Byte)
           S == {layers \in Nat : P(layers)}
<1>1. ASSUME NEW layers \in Nat, NEW frame \in FramesWithin[layers], frame \in Elementary
      PROVE  Encodings[layers][frame] \in Seq(Byte)
  BY <1>1, CodeCases, ElementaryBytes
<1>2. P(0)
  BY <1>1, FrameCases
<1>3. ASSUME NEW layers \in Nat, P(layers)
      PROVE  P(layers + 1)
  <2> SUFFICES ASSUME NEW frame \in FramesWithin[layers + 1]
               PROVE  Encodings[layers + 1][frame] \in Seq(Byte)
    OBVIOUS
  <2>0. layers + 1 \in Nat /\ layers + 1 > 0 /\ (layers + 1) - 1 = layers
    OBVIOUS
  <2>1. CASE frame \in Elementary
    BY <1>1, <2>0, <2>1
  <2>2. ASSUME NEW items \in Seq(FramesWithin[layers]), Len(items) < ArrayLimit,
               frame = [type |-> "Array", items |-> items]
        PROVE  Encodings[layers + 1][frame] \in Seq(Byte)
    <3>1. Encodings[layers + 1][frame] =
            Header(Star, Len(items)) \o FlattenSeq(Codes(layers, items))
      BY <2>0, <2>2, CodeCases
    <3>2. Header(Star, Len(items)) \in Seq(Byte)
      <4>1. Star \in Byte
        BY DEF Star, Byte
      <4>2. Len(items) \in Ints
        <5>1. \A n \in Nat : n < ArrayLimit => n \in Ints
          BY WireAssumption DEF Ints
        <5> QED BY <2>2, <5>1, LenProperties
      <4> QED BY <4>1, <4>2, HeaderBytes
    <3>3. Codes(layers, items) \in Seq(Seq(Byte))
      <4>1. Len(items) \in Nat /\ DOMAIN items = 1..Len(items)
        BY LenProperties
      <4>2. \A i \in 1..Len(items) : Encodings[layers][items[i]] \in Seq(Byte)
        BY <1>3, ElementOfSeq
      <4> QED BY <4>1, <4>2, IsASeq DEF Codes
    <3>4. FlattenSeq(Codes(layers, items)) \in Seq(Byte)
      BY <3>3, JoinedBytes
    <3> QED BY <3>1, <3>2, <3>4, ConcatProperties
  <2> QED BY <2>0, <2>1, <2>2, FrameCases
<1> HIDE DEF P
<1>4. S = Nat
  <2>1. 0 \in S
    BY <1>2
  <2>2. \A layers \in S : layers + 1 \in S
    BY <1>3
  <2>3. S \in SUBSET Nat
    OBVIOUS
  <2> HIDE DEF S
  <2> QED BY <2>1, <2>2, <2>3, Induct
<1>5. \A layers \in Nat : P(layers)
  BY <1>4
<1> QED BY <1>5 DEF P

\* A frame stands in the input, for the check and for decoding, each with as
\* many layers as it has left there.
FrameStands(src, at, layers, frame, code) ==
  /\ \E value : Checks(src)[layers][at] = Ok(value, at + Len(code))
  /\ \A left \in Nat : at + left > Len(src) =>
       Decodings(src)[left][at] = Ok(frame, at + Len(code))

\* No array.
LEMMA ElementaryStands ==
  ASSUME NEW src \in Seq(Byte), NEW at \in Nat \ {0}, NEW layers \in Nat,
         NEW frame \in FramesWithin[layers], frame \in Elementary,
         NEW code, code = Encodings[layers][frame], At(src, at, code)
  PROVE  FrameStands(src, at, layers, frame, code)
<1>1. PICK inner : code = EncodeFrame(frame, inner)
  BY CodeCases
<1>2. FrameThere(src, at, frame, code)
  BY <1>1, ElementaryReads, Zenon
<1>3. \E value : Checks(src)[layers][at] = Ok(value, at + Len(code))
  <2>1. \E sub : Checks(src)[layers][at] = CheckFrame(src, at, layers, sub)
    <3>1. CASE layers = 0
      BY <3>1, ChecksSteps
    <3>2. CASE layers > 0
      BY <3>2, ChecksSteps
    <3> QED BY <3>1, <3>2
  <2> QED BY <1>2, <2>1 DEF FrameThere
<1>4. ASSUME NEW left \in Nat, at + left > Len(src)
      PROVE  Decodings(src)[left][at] = Ok(frame, at + Len(code))
  <2>1. ~(at > Len(src)) /\ left > 0
    <3>1. Len(src) \in Nat
      BY LenProperties
    <3>2. ~(at > Len(src))
      BY <1>2 DEF FrameThere
    <3> QED BY <1>4, <3>1, <3>2
  <2>2. Decodings(src)[left][at] = DecodeFrame(src, at, Decodings(src)[left - 1])
    BY <2>1, DecodingsSteps
  <2> QED BY <1>2, <2>2 DEF FrameThere
<1> QED BY <1>3, <1>4 DEF FrameStands

\* An array, whose elements stand wherever their codes do.
LEMMA ArrayStands ==
  ASSUME NEW src \in Seq(Byte), NEW at \in Nat \ {0}, NEW layers \in Nat,
         NEW items \in Seq(FramesWithin[layers]), Len(items) < ArrayLimit,
         NEW frame, frame = [type |-> "Array", items |-> items],
         NEW code, code = Encodings[layers + 1][frame], At(src, at, code),
         \A item \in FramesWithin[layers], place \in Nat \ {0} :
           At(src, place, Encodings[layers][item]) =>
             FrameStands(src, place, layers, item, Encodings[layers][item])
  PROVE  FrameStands(src, at, layers + 1, frame, code)
<1> DEFINE n     == Len(items)
           head  == Header(Star, n)
           codes == Codes(layers, items)
           body  == FlattenSeq(codes)
           next  == at + Len(head)
           end   == at + Len(code)
           checks == Checks(src)[layers]
<1>0. /\ n \in Nat /\ n \in Ints /\ Star \in Byte /\ Len(src) \in Nat /\ ArrayLimit \in Nat
      /\ layers + 1 \in Nat /\ layers + 1 > 0 /\ (layers + 1) - 1 = layers
  <2>1. \A m \in Nat : m < ArrayLimit => m \in Ints
    BY WireAssumption DEF Ints
  <2>2. n \in Nat /\ Len(src) \in Nat
    BY LenProperties
  <2> QED BY <2>1, <2>2, IntsAreIntegers DEF Star, Byte
<1>1. /\ codes \in Seq(Seq(Byte)) /\ Len(codes) = n
      /\ \A i \in 1..n : /\ items[i] \in FramesWithin[layers]
                         /\ codes[i] = Encodings[layers][items[i]]
  <2>1. DOMAIN items = 1..n /\ \A i \in 1..n : items[i] \in FramesWithin[layers]
    BY LenProperties, ElementOfSeq
  <2>2. \A i \in 1..n : Encodings[layers][items[i]] \in Seq(Byte)
    BY <2>1, EncodingsBytes
  <2> HIDE DEF n
  <2>3. codes = [i \in 1..n |-> Encodings[layers][items[i]]]
    BY <2>1 DEF Codes
  <2> HIDE DEF codes
  <2>4. codes \in Seq(Seq(Byte)) /\ Len(codes) = n
    BY <1>0, <2>2, <2>3, IsASeq
  <2> QED BY <2>1, <2>3, <2>4
<1>2. code = head \o body
  <2>1. frame \in FramesWithin[layers + 1]
    BY <1>0, FramesMember
  <2> QED BY <1>0, <2>1, CodeCases, ZenonT(30)
<1>3. head \in Seq(Byte) /\ body \in Seq(Byte)
  BY <1>0, <1>1, HeaderBytes, JoinedBytes
<1> HIDE DEF head, body, codes
<1>4. Parts(src, at, head, body, code)
  BY <1>2, <1>3, AtParts, Zenon
<1>5. HeaderThere(src, at, Star, n, head)
  <2>1. At(src, at, head)
    BY <1>4 DEF Parts
  <2> QED BY <1>0, <2>1, HeaderReads, Zenon DEF head
<1>6. /\ next \in Nat \ {0} /\ next > at /\ At(src, next, body)
      /\ end = next + Len(body)
      /\ ~(at > Len(src)) /\ src[at] = Star /\ Decimal(src, at + 1) = Ok(n, next)
  <2>1. /\ Len(head) \in Nat /\ Len(body) \in Nat /\ Len(head) >= 1
        /\ Len(code) = Len(head) + Len(body)
        /\ At(src, at + Len(head), body)
    BY <1>3, <1>4, <1>5, LenProperties DEF Parts, HeaderThere, MarkedThere
  <2> DEFINE a == Len(head)
             b == Len(body)
             c == Len(code)
  <2>2. a \in Nat /\ b \in Nat /\ a >= 1 /\ c = a + b
    BY <2>1
  <2> HIDE DEF a, b, c
  <2>3. at + a \in Nat \ {0} /\ at + a > at /\ at + c = (at + a) + b
    BY <2>2
  <2>4. ~(at > Len(src)) /\ src[at] = Star /\ Decimal(src, at + 1) = Ok(n, at + Len(head))
    BY <1>5 DEF HeaderThere, MarkedThere
  <2> QED BY <2>1, <2>3, <2>4 DEF a, b, c
<1> HIDE DEF next, end, n, checks
<1>7. \E values : Elements(checks, n, next) = Ok(values, end)
  <2>1. ASSUME NEW i \in 1..Len(codes), NEW place \in Nat, place >= next, At(src, place, codes[i])
        PROVE  \E value : checks[place] = Ok(value, place + Len(codes[i]))
    <3>1. place \in Nat \ {0}
      BY <1>6, <2>1
    <3>2. FrameStands(src, place, layers, items[i], codes[i])
      BY <1>1, <2>1, <3>1
    <3> QED BY <3>2 DEF FrameStands, checks
  <2>2. ReadsAll(next, codes, items, FALSE, checks)
    <3>1. FALSE \in BOOLEAN /\ Len(items) = Len(codes) /\ next \in Nat \ {0}
      BY <1>1, <1>6 DEF n
    <3>2. At(src, next, FlattenSeq(codes))
      BY <1>6 DEF body
    <3>3. ReadsEach(src, next, codes, items, FALSE, checks)
      BY <2>1 DEF ReadsEach
    <3> QED BY <1>1, <3>1, <3>2, <3>3, ElementsRead, Zenon
  <2> QED BY <1>1, <1>6, <2>2 DEF body, ReadsAll
<1>8. \E value : Checks(src)[layers + 1][at] = Ok(value, end)
  <2>1. Checks(src)[layers + 1][at] = CheckFrame(src, at, layers + 1, checks)
    BY <1>0, ChecksSteps DEF checks
  <2>2. layers + 1 # 0
    BY <1>0
  <2>3. CheckFrame(src, at, layers + 1, checks) =
          IF n \in {-1, 0} THEN Ok(<<>>, next)
          ELSE IF n \notin 1..(ArrayLimit - 1) THEN Invalid
          ELSE Elements(checks, n, next)
    BY <1>6, <2>2, CheckCases
  <2>4. CASE n = 0
    <3>1. Elements(checks, 0, next) = Ok(<<>>, next)
      BY ElementsSteps
    <3> QED BY <1>7, <2>1, <2>3, <2>4, <3>1
  <2>5. CASE n # 0
    <3>1. n \notin {-1, 0} /\ n \in 1..(ArrayLimit - 1)
      BY <1>0, <2>5 DEF n
    <3> QED BY <1>7, <2>1, <2>3, <3>1
  <2> QED BY <2>4, <2>5
<1>9. ASSUME NEW left \in Nat, at + left > Len(src)
      PROVE  Decodings(src)[left][at] = Ok(frame, end)
  <2> DEFINE read == Decodings(src)[left - 1]
  <2>0. left > 0 /\ left - 1 \in Nat
    BY <1>0, <1>6, <1>9, SMTT(30)
  <2>1. ASSUME NEW i \in 1..Len(codes), NEW place \in Nat, place >= next, At(src, place, codes[i])
        PROVE  read[place] = Ok(items[i], place + Len(codes[i]))
    <3>1. place \in Nat \ {0} /\ place + (left - 1) > Len(src)
      BY <1>0, <1>6, <1>9, <2>0, <2>1, SMTT(30)
    <3>2. FrameStands(src, place, layers, items[i], codes[i])
      BY <1>1, <2>1, <3>1
    <3> QED BY <2>0, <3>1, <3>2 DEF FrameStands
  <2> HIDE DEF read
  <2>2. ReadsAll(next, codes, items, TRUE, read)
    <3>1. TRUE \in BOOLEAN /\ Len(items) = Len(codes) /\ next \in Nat \ {0}
      BY <1>1, <1>6 DEF n
    <3>2. At(src, next, FlattenSeq(codes))
      BY <1>6 DEF body
    <3>3. ReadsEach(src, next, codes, items, TRUE, read)
      BY <2>1 DEF ReadsEach
    <3> QED BY <1>1, <3>1, <3>2, <3>3, ElementsRead, Zenon
  <2>3. Elements(read, n, next) = Ok(items, end)
    BY <1>1, <1>6, <2>2 DEF body, ReadsAll
  <2>4. Decodings(src)[left][at] = DecodeFrame(src, at, read)
    BY <1>6, <2>0, DecodingsSteps DEF read
  <2>5. DecodeFrame(src, at, read) =
          IF n < -1 THEN Invalid
          ELSE IF n = -1 THEN Ok([type |-> "Null"], next)
          ELSE IF Elements(read, n, next).verdict = "ok"
          THEN Ok([type |-> "Array", items |-> Elements(read, n, next).value],
                  Elements(read, n, next).next)
          ELSE Elements(read, n, next)
    BY <1>6, DecodeCases
  <2>6. ~(n < -1) /\ ~(n = -1)
    BY <1>0 DEF n
  <2> QED BY <2>3, <2>4, <2>5, <2>6 DEF Ok
<1> QED BY <1>8, <1>9 DEF FrameStands, end

\* A frame stands in the input wherever its code does.
LEMMA FramesStand ==
  ASSUME NEW src \in Seq(Byte)
  PROVE  \A layers \in Nat : \A frame \in FramesWithin[layers], at \in Nat \ {0} :
           At(src, at, Encodings[layers][frame]) =>
             FrameStands(src, at, layers, frame, Encodings[layers][frame])
<1> DEFINE P(layers) ==
             \A frame \in FramesWithin[layers], at \in Nat \ {0} :
               At(src, at, Encodings[layers][frame]) =>
                 FrameStands(src, at, layers, frame, Encodings[layers][frame])
           S == {layers \in Nat : P(layers)}
<1>1. ASSUME NEW layers \in Nat, NEW frame \in FramesWithin[layers], frame \in Elementary,
             NEW at \in Nat \ {0}, At(src, at, Encodings[layers][frame])
      PROVE  FrameStands(src, at, layers, frame, Encodings[layers][frame])
  BY <1>1, ElementaryStands, Zenon
<1>2. P(0)
  <2> SUFFICES ASSUME NEW frame \in FramesWithin[0], NEW at \in Nat \ {0},
                      At(src, at, Encodings[0][frame])
               PROVE  FrameStands(src, at, 0, frame, Encodings[0][frame])
    OBVIOUS
  <2>1. 0 \in Nat /\ frame \in Elementary
    BY FramesSteps
  <2> QED BY <1>1, <2>1
<1>3. ASSUME NEW layers \in Nat, P(layers)
      PROVE  P(layers + 1)
  <2> SUFFICES ASSUME NEW frame \in FramesWithin[layers + 1], NEW at \in Nat \ {0},
                      At(src, at, Encodings[layers + 1][frame])
               PROVE  FrameStands(src, at, layers + 1, frame, Encodings[layers + 1][frame])
    OBVIOUS
  <2>0. layers + 1 \in Nat /\ (layers + 1) - 1 = layers
    OBVIOUS
  <2>1. CASE frame \in Elementary
    BY <1>1, <2>0, <2>1
  <2>2. ASSUME NEW items \in Seq(FramesWithin[layers]), Len(items) < ArrayLimit,
               frame = [type |-> "Array", items |-> items]
        PROVE  FrameStands(src, at, layers + 1, frame, Encodings[layers + 1][frame])
    BY <1>3, <2>2, ArrayStands, Zenon
  <2> QED BY <2>0, <2>1, <2>2, FrameCases
<1> HIDE DEF P
<1>4. S = Nat
  <2>1. 0 \in S
    BY <1>2
  <2>2. \A layers \in S : layers + 1 \in S
    BY <1>3
  <2>3. S \in SUBSET Nat
    OBVIOUS
  <2> HIDE DEF S
  <2> QED BY <2>1, <2>2, <2>3, Induct
<1>5. \A layers \in Nat : P(layers)
  BY <1>4
<1> QED BY <1>5 DEF P

\* Every frame within the limits decodes from its code to itself.
LEMMA RoundTrip ==
  ASSUME NEW frame \in FramesWithin[MaxArrayDepth]
  PROVE  /\ Encode(frame) \in Seq(Byte)
         /\ Parse(Encode(frame)) = Ok(frame, Len(Encode(frame)) + 1)
<1> DEFINE code == Encode(frame)
<1>1. code \in Seq(Byte) /\ code = Encodings[MaxArrayDepth][frame]
  BY WireAssumption, EncodingsBytes DEF Encode
<1> HIDE DEF code
<1>2. Len(code) \in Nat /\ At(code, 1, code) /\ 1 \in Nat \ {0} /\ MaxArrayDepth \in Nat
  <2>1. Len(code) \in Nat
    BY <1>1, LenProperties
  <2>2. 1 + Len(code) <= Len(code) + 1
    BY <2>1
  <2>3. \A i \in 1..Len(code) : 1 + i - 1 = i
    BY <2>1
  <2> QED BY <2>1, <2>2, <2>3, WireAssumption DEF At
<1>3. FrameStands(code, 1, MaxArrayDepth, frame, code)
  BY <1>1, <1>2, FramesStand
<1>4. 1 + Len(code) = Len(code) + 1 /\ 1 + Len(code) > Len(code)
  BY <1>2
<1>5. ParseData(code) = Ok(frame, Len(code) + 1)
  BY <1>2, <1>3, <1>4 DEF FrameStands, ParseData
<1>6. PICK value : Check(code) = Ok(value, Len(code) + 1)
  BY <1>3, <1>4 DEF FrameStands, Check, Layers
<1>7. Parse(code) = ParseData(code)
  BY <1>6 DEF Parse, Then, Ok
<1> QED BY <1>1, <1>5, <1>7 DEF code

\* What was decoded encodes to a text that decodes to it again.
THEOREM TheRoundTrip == Spec => []EncodingRoundTrips
<1>1. Received /\ DecodedWithinLimits => EncodingRoundTrips
  BY RoundTrip DEF EncodingRoundTrips, DecodedWithinLimits
<1> QED BY <1>1, TheBuffer, TheLimits, PTL

-----------------------------------------------------------------------------
(* The wire format is a code for the frames within the limits              *)

\* Bytes of which no part is taken for a frame.
NoFrames ==
  {tail \in Seq(Byte) : \A n \in 0..Len(tail) : Parse(SubSeq(tail, 1, n)).verdict # "ok"}

CONSTANTS MaxFrames, Capacity, MaxBuffered

VARIABLES written, ends, asked, rest, pending, flushed, wire, writer, arrived, unread, frames, outcome

\* A connection whose ends use the codec.  Any frames within the limits are written.
Stream == INSTANCE ConnectionTheorems WITH
  Frames <- FramesWithin[MaxArrayDepth], Encoding <- Encode, Decoded <- Parse, Tails <- NoFrames,
  buffer <- unread

\* The first bytes of an input.
LEMMA FirstBytes ==
  ASSUME NEW src \in Seq(Byte), NEW n \in 0..Len(src)
  PROVE  /\ SubSeq(src, 1, n) \in Seq(Byte)
         /\ Len(SubSeq(src, 1, n)) = n
         /\ \A i \in 1..n : SubSeq(src, 1, n)[i] = src[i]
<1>1. Len(src) \in Nat /\ n \in Nat /\ n \in Int /\ n <= Len(src) /\ 1 \in Nat \ {0}
  BY LenProperties
<1> DEFINE part == SubSeq(src, 1, n)
<1>2. /\ part \in Seq(Byte)
      /\ Len(part) = IF 1 <= n THEN n - 1 + 1 ELSE 0
      /\ \A i \in 1..(n - 1 + 1) : part[i] = src[1 + i - 1]
  BY <1>1, BytesAreNumbers
<1> HIDE DEF part
<1>3. Len(part) = n /\ \A i \in 1..n : part[i] = src[i]
  BY <1>1, <1>2
<1> QED BY <1>2, <1>3 DEF part

\* More of an input extends less of it.
LEMMA FirstExtends ==
  ASSUME NEW src \in Seq(Byte), NEW m \in 0..Len(src), NEW n \in 0..m
  PROVE  Extends(SubSeq(src, 1, m), SubSeq(src, 1, n))
<1> DEFINE more == SubSeq(src, 1, m)
           less == SubSeq(src, 1, n)
<1>1. n \in 0..Len(src) /\ n \in Nat /\ m \in Nat /\ n <= m
  BY LenProperties
<1>2. /\ more \in Seq(Byte) /\ Len(more) = m /\ \A i \in 1..m : more[i] = src[i]
      /\ less \in Seq(Byte) /\ Len(less) = n /\ \A i \in 1..n : less[i] = src[i]
  BY <1>1, FirstBytes
<1> HIDE DEF more, less
<1>3. more \in Seq(Nat) /\ less \in Seq(Nat)
  BY <1>2, BytesAreNumbers
<1>4. Extends(more, less)
  BY <1>1, <1>2, <1>3 DEF Extends
<1> QED BY <1>4 DEF more, less

\* What the theorems on connections suppose of a code holds of the wire format,
\* for every frame within the limits and for whatever may follow it: a frame is
\* recognised where it ends, no earlier and no matter what comes next, and what
\* was rejected stays rejected.
THEOREM WireIsACode ==
  /\ \A frame \in FramesWithin[MaxArrayDepth] : Encode(frame) \in Seq(Nat)
  /\ NoFrames \subseteq Seq(Nat)
  /\ Stream!Codec
<1>1. ASSUME NEW frame \in FramesWithin[MaxArrayDepth]
      PROVE  Encode(frame) \in Seq(Nat)
  BY RoundTrip, BytesAreNumbers
<1>2. NoFrames \subseteq Seq(Nat)
  BY BytesAreNumbers DEF NoFrames
<1>3. ASSUME NEW more \in Seq(Nat), NEW frame \in FramesWithin[MaxArrayDepth]
      PROVE  Parse(Encode(frame) \o more) = Ok(frame, Len(Encode(frame)) + 1)
  <2> DEFINE code == Encode(frame)
             all  == code \o more
  <2>1. code \in Seq(Byte) /\ code \in Seq(Nat) /\ Parse(code) = Ok(frame, Len(code) + 1)
    BY RoundTrip, BytesAreNumbers
  <2> HIDE DEF code
  <2>2. /\ all \in Seq(Nat) /\ Len(all) = Len(code) + Len(more)
        /\ Len(code) \in Nat /\ Len(more) \in Nat
        /\ \A i \in 1..Len(code) : all[i] = code[i]
    BY <2>1, ConcatProperties, LenProperties
  <2> HIDE DEF all
  <2>3. Extends(all, code)
    BY <2>1, <2>2 DEF Extends
  <2>4. Parse(code) # Incomplete
    BY <2>1 DEF Ok, Incomplete
  <2>5. Parse(all) = Parse(code)
    BY <2>1, <2>3, <2>4, ParseStable
  <2> QED BY <2>1, <2>5 DEF all, code
<1>4. Parse(<<>>) = Incomplete
  <2>1. Len(<<>>) = 0 /\ 1 > Len(<<>>) /\ Layers \in Nat /\ 1 \in Nat
    BY WireAssumption DEF Layers
  <2>2. \A left, inner : CheckFrame(<<>>, 1, left, inner) = Incomplete
    BY <2>1 DEF CheckFrame
  <2>3. Checks(<<>>)[Layers][1] = Incomplete
    <3>1. CASE Layers = 0
      <4>1. Checks(<<>>)[Layers][1] = CheckFrame(<<>>, 1, 0, {})
        BY <2>1, <3>1, ChecksSteps
      <4> QED BY <2>2, <4>1
    <3>2. CASE Layers > 0
      <4>1. Checks(<<>>)[Layers][1] = CheckFrame(<<>>, 1, Layers, Checks(<<>>)[Layers - 1])
        BY <2>1, <3>2, ChecksSteps
      <4> QED BY <2>2, <4>1
    <3> QED BY <2>1, <3>1, <3>2
  <2> QED BY <2>3 DEF Check, Parse, Then, Incomplete
<1>5. ASSUME NEW frame \in FramesWithin[MaxArrayDepth], NEW n \in 0..(Len(Encode(frame)) - 1)
      PROVE  Parse(SubSeq(Encode(frame), 1, n)).verdict = "Incomplete"
  <2> DEFINE code == Encode(frame)
             part == SubSeq(code, 1, n)
  <2>1. code \in Seq(Byte) /\ Parse(code) = Ok(frame, Len(code) + 1)
    BY RoundTrip
  <2>2. Len(code) \in Nat /\ n \in 0..Len(code) /\ n < Len(code) /\ n \in Nat
    BY <2>1, LenProperties
  <2> HIDE DEF code
  <2>3. /\ part \in Seq(Byte) /\ Len(part) = n /\ part \in Seq(Nat) /\ code \in Seq(Nat)
        /\ \A i \in 1..n : part[i] = code[i]
    BY <2>1, <2>2, FirstBytes, BytesAreNumbers
  <2> HIDE DEF part
  <2>4. Extends(code, part)
    BY <2>2, <2>3 DEF Extends
  <2>5. Parse(part) = Incomplete
    <3> SUFFICES ASSUME Parse(part) # Incomplete PROVE FALSE
      OBVIOUS
    <3>1. Parse(part) = Ok(frame, Len(code) + 1)
      BY <2>1, <2>3, <2>4, ParseStable
    <3>2. Parse(part).verdict = "ok" /\ Parse(part).next = Len(code) + 1
      BY <3>1 DEF Ok
    <3>3. \E value, next : next \in 1..(n + 1) /\ Parse(part) = Ok(value, next)
      BY <2>3, <3>2, ParseOutcome DEF Waits, Ok, Incomplete, Invalid
    <3> QED BY <2>2, <3>2, <3>3 DEF Ok
  <2> QED BY <2>5 DEF Incomplete, part, code
<1>6. ASSUME NEW tail \in NoFrames \cup {<<>>}, NEW n \in 0..Len(tail)
      PROVE  /\ Parse(SubSeq(tail, 1, n)).verdict # "ok"
             /\ Parse(SubSeq(tail, 1, n)).verdict = "Other" =>
                  \A m \in n..Len(tail) : Parse(SubSeq(tail, 1, m)).verdict = "Other"
  <2>1. tail \in Seq(Byte) /\ Parse(SubSeq(tail, 1, n)).verdict # "ok"
    <3>1. CASE tail \in NoFrames
      BY <3>1 DEF NoFrames
    <3>2. CASE tail = <<>>
      <4>1. tail \in Seq(Byte) /\ n = 0
        BY <3>2
      <4>2. SubSeq(tail, 1, n) = <<>>
        BY <4>1, SubSeqEmpty
      <4>3. Parse(SubSeq(tail, 1, n)) = Incomplete
        BY <1>4, <4>2, Zenon
      <4>4. Incomplete.verdict # "ok"
        BY DEF Incomplete
      <4> QED BY <4>1, <4>3, <4>4, Zenon
    <3> QED BY <3>1, <3>2
  <2>2. ASSUME Parse(SubSeq(tail, 1, n)).verdict = "Other", NEW m \in n..Len(tail)
        PROVE  Parse(SubSeq(tail, 1, m)).verdict = "Other"
    <3>1. m \in 0..Len(tail) /\ n \in 0..m
      BY <2>1, LenProperties
    <3>2. SubSeq(tail, 1, n) \in Seq(Byte)
      BY <2>1, FirstBytes
    <3>3. Extends(SubSeq(tail, 1, m), SubSeq(tail, 1, n))
      BY <2>1, <3>1, FirstExtends
    <3> DEFINE less == SubSeq(tail, 1, n)
               more == SubSeq(tail, 1, m)
    <3> HIDE DEF less, more
    <3>4. less \in Seq(Byte) /\ Extends(more, less) /\ Parse(less).verdict = "Other"
      BY <2>2, <3>2, <3>3 DEF less, more
    <3>5. Parse(less) # Incomplete
      BY <3>4 DEF Incomplete
    <3>6. Parse(more) = Parse(less)
      BY <3>4, <3>5, ParseStable
    <3> QED BY <3>4, <3>6 DEF less, more
  <2> QED BY <2>1, <2>2
<1>7. \A more \in Seq(Nat) : Stream!RecognisedBefore(more)
  BY <1>3 DEF Stream!RecognisedBefore, Ok
<1>8. Stream!PartsAreIncomplete
  BY <1>4, <1>5 DEF Stream!PartsAreIncomplete, Stream!First, Incomplete
<1>9. Stream!TailsAreNoFrames
  BY <1>6 DEF Stream!TailsAreNoFrames, Stream!First
<1> QED BY <1>1, <1>2, <1>7, <1>8, <1>9 DEF Stream!Codec

\* Hence connections need no hypothesis on the code: whatever frames within the
\* limits are written, however they are cut and wherever they are cut off, the
\* reader gets these frames and the end that the bytes say, and buffers what is
\* between them.
THEOREM WireStreamIsRead ==
  ASSUME MaxFrames \in Nat, Capacity \in Nat \ {0}, MaxBuffered \in Nat \ {0}
  PROVE  Stream!Spec => [](Stream!BufferIsTheUnread /\ Stream!ReadsTheStream)
<1>1. Stream!ConnectionAssumption
  BY WireIsACode DEF Stream!ConnectionAssumption
<1>2. Stream!Codec
  BY WireIsACode
<1>3. Stream!Spec => []Stream!BufferIsTheUnread
  BY <1>1, <1>2, Stream!BufferCorrect
<1>4. Stream!Spec => []Stream!ReadsTheStream
  BY <1>1, <1>2, Stream!StreamIsRead
<1> QED BY <1>3, <1>4, PTL
=============================================================================
