----------------------------- MODULE MCFraming -----------------------------
(***************************************************************************)
(* Every input over one alphabet for nesting and one for numbers and text. *)
(* The first has every digit up to the bound on the elements of an array,  *)
(* so that arrays come with none, one, two, and one too many.              *)
(***************************************************************************)
EXTENDS Framing

Structure ==
  {Colon, Dollar, Star, Minus, Zero, Zero + 1, Zero + 2, Zero + 3, CR, LF}

\* The last two are a character in this order, and no text in any other.
Lines == {Plus, Minus, Colon, Dollar, Zero, Zero + 1, Zero + 6, CR, LF, 195, 169}

-----------------------------------------------------------------------------
(* IsUtf8 against the code points that UTF-8 is made of.                   *)

\* The last six bits of n, as a continuation byte.
Rest(n) == 128 + (n % 64)

Utf8Of(point) ==
  IF point < 128 THEN <<point>>
  ELSE IF point < 2048 THEN <<192 + (point \div 64), Rest(point)>>
  ELSE IF point < 65536
       THEN <<224 + (point \div 4096), Rest(point \div 64), Rest(point)>>
  ELSE <<240 + (point \div 262144), Rest(point \div 4096), Rest(point \div 64), Rest(point)>>

\* The code point that bytes would spell, if they spell one.
Point(bytes) ==
  CASE Len(bytes) = 1 -> bytes[1]
    [] Len(bytes) = 2 -> 64 * (bytes[1] % 32) + (bytes[2] % 64)
    [] Len(bytes) = 3 -> 4096 * (bytes[1] % 16) + 64 * (bytes[2] % 64) + (bytes[3] % 64)
    [] Len(bytes) = 4 -> 262144 * (bytes[1] % 8) + 4096 * (bytes[2] % 64)
                           + 64 * (bytes[3] % 64) + (bytes[4] % 64)

IsCharacter(bytes) ==
  LET point == Point(bytes)
  IN  point <= 1114111 /\ point \notin 55296..57343 /\ bytes = Utf8Of(point)

IsText(bytes) ==
  LET after[i \in 0..Len(bytes)] ==
        i = Len(bytes) \/
          \E n \in 1..4 : /\ i + n <= Len(bytes)
                         /\ IsCharacter(SubSeq(bytes, i + 1, i + n))
                         /\ after[i + n]
  IN  after[0]

\* Where the ranges of bytes begin and end.
Edges == {65, 127, 128, 143, 144, 159, 160, 191, 193, 194, 223, 224, 225, 237, 238, 240, 241,
          244, 245}

ASSUME TextsAreCharacters ==
  /\ \A n \in 0..3 : \A bytes \in [1..n -> Edges] : IsUtf8(bytes) = IsText(bytes)
  /\ \A bytes \in [1..3 -> Edges], first \in {240, 241, 244, 245} :
       IsUtf8(<<first>> \o bytes) = IsText(<<first>> \o bytes)
=============================================================================
