-------------------------------- MODULE Wire --------------------------------
(***************************************************************************)
(* The wire format: the decoder of frame.rs and the encoder of             *)
(* connection.rs, on sequences of bytes.                                   *)
(*                                                                         *)
(* A result is a verdict with, when it is "ok", a value and the position   *)
(* after it.  Every way to be invalid is "Other", as in frame::Error; a    *)
(* read past the end of the input, where the code would panic, is "Panic". *)
(***************************************************************************)
EXTENDS Integers, SequencesExt

CONSTANTS
  MaxInt,          \* the largest value of the integer type, i64 in the code
  MaxArrayDepth,   \* array layers allowed on one path
  ArrayLimit       \* exclusive bound on the elements of an array

ASSUME WireAssumption ==
  /\ MaxInt \in Nat
  /\ MaxArrayDepth \in Nat
  /\ ArrayLimit \in 1..MaxInt

Ints == (-MaxInt - 1)..MaxInt

\* ASCII codes.
LF == 10
CR == 13
Dollar == 36
Star == 42
Plus == 43
Minus == 45
Colon == 58
Zero == 48
Digits == Zero..(Zero + 9)

\* UTF-8: how many bytes follow the first one of a character, and what the next
\* may be, so that no form is longer than necessary, no surrogate and not beyond
\* the last code point.
Following(first) ==
  CASE first \in 194..223 -> 1
    [] first \in 224..239 -> 2
    [] first \in 240..244 -> 3
    [] OTHER              -> 0

Continuation == 128..191

Second(first) ==
  CASE first = 224 -> 160..191
    [] first = 237 -> 128..159
    [] first = 240 -> 144..191
    [] first = 244 -> 128..143
    [] OTHER       -> Continuation

CharacterAt(text, i) ==
  /\ text[i] \in (0..127) \cup (194..244)
  /\ i + Following(text[i]) <= Len(text)
  /\ \A k \in 1..Following(text[i]) :
       text[i + k] \in (IF k = 1 THEN Second(text[i]) ELSE Continuation)

\* Every byte belongs to a character.
IsUtf8(text) ==
  \A i \in DOMAIN text : \E k \in 0..3 :
    i > k /\ CharacterAt(text, i - k) /\ k <= Following(text[i - k])

-----------------------------------------------------------------------------

Ok(value, next) == [verdict |-> "ok", value |-> value, next |-> next]
Incomplete      == [verdict |-> "Incomplete"]
Invalid         == [verdict |-> "Other"]
Panic           == [verdict |-> "Panic"]

\* The ? operator.
Then(result, Continue(_, _)) ==
  IF result.verdict = "ok" THEN Continue(result.value, result.next) ELSE result

\* Mutant: a carriage return as the last byte so far is taken for a bad line.
LineStrict(src, at) ==
  LET ends == {i \in at..Len(src) : src[i] \in {CR, LF}}
      end  == Min(ends)
  IN  IF ends = {} THEN Incomplete
      ELSE IF src[end] = CR /\ end < Len(src) /\ src[end + 1] = LF
           THEN Ok(SubSeq(src, at, end - 1), end + 2)
           ELSE Invalid

\* The text up to the first CR or LF, which must be a CR that an LF follows.
Line(src, at) ==
  LET ends == {i \in at..Len(src) : src[i] \in {CR, LF}}
      end  == Min(ends)
  IN  IF ends = {} \/ (src[end] = CR /\ end = Len(src)) THEN Incomplete
      ELSE IF src[end] = CR /\ src[end + 1] = LF
           THEN Ok(SubSeq(src, at, end - 1), end + 2)
           ELSE Invalid

\* Checked arithmetic: the set of the result, empty on overflow.
Checked(n) == {n} \cap Ints

\* Mutant: the magnitude is accumulated first and negated at the end.
AccumulateMagnitude(digits, sign) ==
  LET sums[k \in Nat] ==
        IF k = 0 THEN {0}
        ELSE UNION {Checked(10 * n + (digits[k] - Zero)) : n \in sums[k - 1]}
  IN  {sign * n : n \in sums[Len(digits)]}

\* One more digit, added in the direction of the sign.
AddDigit(acc, digit, sign) ==
  LET tens == UNION {Checked(10 * n) : n \in acc}
  IN  UNION {Checked(n + sign * (digit - Zero)) : n \in tens}

Accumulate(digits, sign) ==
  LET sums[k \in Nat] ==
        IF k = 0 THEN {0} ELSE AddDigit(sums[k - 1], digits[k], sign)
  IN  sums[Len(digits)]

\* The number that a line spells.
Number(text, next) ==
  LET negative == text # <<>> /\ text[1] = Minus
      digits   == IF negative THEN Tail(text) ELSE text
      numbers  == Accumulate(digits, IF negative THEN -1 ELSE 1)
  IN  IF digits # <<>> /\ ToSet(digits) \subseteq Digits /\ numbers # {}
      THEN Ok(CHOOSE n \in numbers : TRUE, next)
      ELSE Invalid

Decimal(src, at) == Then(Line(src, at), Number)

\* What read says of the position after those before, as one more element.
NextElement(read, before) ==
  Then(before, LAMBDA values, next :
         Then(read[next], LAMBDA value, end : Ok(Append(values, value), end)))

\* Elements of an array one after the other: the values, and the position after
\* the last.
Elements(read, count, start) ==
  LET after[n \in Nat] ==
        IF n = 0 THEN Ok(<<>>, start) ELSE NextElement(read, after[n - 1])
  IN  after[count]

-----------------------------------------------------------------------------
(* The structural check                                                    *)

\* Mutant: the terminator of the payload is not waited for.
CheckBulkShort(src, at, length) ==
  IF length = -1 THEN Ok(<<>>, at)
  ELSE IF length < 0 THEN Invalid
  ELSE IF Len(src) < at + length - 1 THEN Incomplete
  ELSE Ok(<<>>, at + length + 2)

CheckBulk(src, at, length) ==
  IF length = -1 THEN Ok(<<>>, at)
  ELSE IF length < 0 THEN Invalid
  ELSE IF Len(src) < at + length + 1 THEN Incomplete
  ELSE IF src[at + length] = CR /\ src[at + length + 1] = LF
       THEN Ok(<<>>, at + length + 2)
       ELSE Invalid

\* One frame: left more layers of arrays are allowed, and inner is the check of
\* an element.
CheckFrame(src, at, left, inner) ==
  LET Children(length, next) ==
        IF length \in {-1, 0} THEN Ok(<<>>, next)
        ELSE IF length \notin 1..(ArrayLimit - 1) THEN Invalid
        ELSE Elements(inner, length, next)
      Bulk(length, next) == CheckBulk(src, next, length)
  IN  IF at > Len(src) THEN Incomplete
      ELSE CASE src[at] \in {Plus, Minus, Colon} -> Line(src, at + 1)
             [] src[at] = Dollar -> Then(Decimal(src, at + 1), Bulk)
             [] src[at] = Star ->
                  IF left = 0 THEN Invalid
                  ELSE Then(Decimal(src, at + 1), Children)
             [] OTHER -> Invalid

\* Mutant: one layer more than the limit is let through.
LayersByOne == MaxArrayDepth + 1

Layers == MaxArrayDepth

\* What the check says of every position, by the layers that are left.
Checks(src) ==
  LET layer[left \in Nat] ==
        [at \in Nat |-> CheckFrame(src, at, left, layer[left - 1])]
  IN  layer

Check(src) == Checks(src)[Layers][1]

-----------------------------------------------------------------------------
(* Decoding what the check has accepted                                    *)

Text(type, result) ==
  Then(result, LAMBDA text, next :
         IF IsUtf8(text) THEN Ok([type |-> type, data |-> text], next)
                         ELSE Invalid)

Payload(src, at, length) ==
  IF length = -1 THEN Ok([type |-> "Null"], at)
  ELSE IF length < 0 THEN Invalid
  ELSE IF Len(src) < at + length + 1 THEN Panic
  ELSE Ok([type |-> "Bulk", data |-> SubSeq(src, at, at + length - 1)],
          at + length + 2)

DecodeFrame(src, at, inner) ==
  LET Items(length, next) ==
        IF length < -1 THEN Invalid
        ELSE IF length = -1 THEN Ok([type |-> "Null"], next)
        ELSE Then(Elements(inner, length, next), LAMBDA items, after :
                    Ok([type |-> "Array", items |-> items], after))
      Integer(value, next) == Ok([type |-> "Integer", value |-> value], next)
      Bulk(length, next) == Payload(src, next, length)
  IN  CASE src[at] = Plus   -> Text("Simple", Line(src, at + 1))
        [] src[at] = Minus  -> Text("Error", Line(src, at + 1))
        [] src[at] = Colon  -> Then(Decimal(src, at + 1), Integer)
        [] src[at] = Dollar -> Then(Decimal(src, at + 1), Bulk)
        [] src[at] = Star   -> Then(Decimal(src, at + 1), Items)
        [] OTHER            -> Invalid

\* Decoding has no limit of its own: a layer takes a byte, so Len(src) of them
\* are as many as any input has.
Decodings(src) ==
  LET layer[left \in Nat] ==
        [at \in Nat |->
           IF left = 0 \/ at > Len(src) THEN Panic
           ELSE DecodeFrame(src, at, layer[left - 1])]
  IN  layer

ParseData(src) == Decodings(src)[Len(src)][1]

\* Frame::parse, at the start of the input: check, rewind, decode.
Parse(src) ==
  Then(Check(src), LAMBDA value, next : ParseData(src))

-----------------------------------------------------------------------------
(* Frames and their encoding                                               *)

Byte     == 0..255
TextByte == Byte \ {CR, LF}

\* write_frame asks for texts without line ends.
Texts == {text \in Seq(TextByte) : IsUtf8(text)}

Elementary ==
  [type : {"Simple", "Error"}, data : Texts]
    \cup [type : {"Integer"}, value : Ints]
    \cup [type : {"Bulk"}, data : {data \in Seq(Byte) : Len(data) <= MaxInt}]
    \cup [type : {"Null"}]

\* The frames of at most that many layers of arrays, each within its limit.
FramesWithin[layers \in Nat] ==
  IF layers = 0 THEN Elementary
  ELSE Elementary \cup
         [type  : {"Array"},
          items : {items \in Seq(FramesWithin[layers - 1]) : Len(items) < ArrayLimit}]

CRLF == <<CR, LF>>

SpellNat[n \in Nat] ==
  IF n < 10 THEN <<Zero + n>> ELSE SpellNat[n \div 10] \o <<Zero + (n % 10)>>

\* Mutant: the sign is lost in a conversion to an unsigned integer.
SpellMagnitude(n) == SpellNat[IF n < 0 THEN -n ELSE n]

Spell(n) == IF n < 0 THEN <<Minus>> \o SpellNat[-n] ELSE SpellNat[n]

\* Mutant: the line end after a length is forgotten.
HeaderBare(marker, n) == <<marker>> \o Spell(n)

Header(marker, n) == <<marker>> \o Spell(n) \o CRLF

\* One frame, whose elements inner encodes.
EncodeFrame(frame, inner) ==
  CASE frame.type = "Simple"  -> <<Plus>> \o frame.data \o CRLF
    [] frame.type = "Error"   -> <<Minus>> \o frame.data \o CRLF
    [] frame.type = "Integer" -> Header(Colon, frame.value)
    [] frame.type = "Bulk"    -> Header(Dollar, Len(frame.data)) \o frame.data \o CRLF
    [] frame.type = "Array"   ->
         Header(Star, Len(frame.items))
           \o FlattenSeq([i \in DOMAIN frame.items |-> inner[frame.items[i]]])
    [] frame.type = "Null"    -> Header(Dollar, -1)

Encodings[layers \in Nat] ==
  [frame \in FramesWithin[layers] |-> EncodeFrame(frame, Encodings[layers - 1])]

\* write_data, for frames within the limits of the decoder.
Encode(frame) == Encodings[MaxArrayDepth][frame]
=============================================================================
