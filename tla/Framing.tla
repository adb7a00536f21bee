------------------------------ MODULE Framing ------------------------------
(***************************************************************************)
(* The decoder on input that arrives one byte at a time, as a connection's *)
(* read buffer grows.  A byte may be the start of anything: every sequence *)
(* over the alphabet is an input until the decoder has made up its mind.   *)
(***************************************************************************)
EXTENDS Wire

CONSTANTS
  Alphabet,    \* the bytes that arrive
  MaxBytes,    \* bound: bytes that arrive
  MaxLine,     \* bound: bytes that arrive without a line feed among them
  MaxExtra     \* bound: bytes that arrive after the decoder's verdict

ASSUME FramingAssumption == Alphabet \subseteq Byte

VARIABLES
  buffer,   \* what has arrived
  result,   \* what Frame::parse returns for it
  extra     \* bytes that arrived after a verdict

vars == <<buffer, result, extra>>

Init == buffer = <<>> /\ result = Parse(<<>>) /\ extra = 0

Decided == result.verdict # "Incomplete"

\* The position of the last line feed, 0 when there is none.
LineStart == Max({0} \cup {i \in DOMAIN buffer : buffer[i] = LF})

Arrive(byte) ==
  /\ Len(buffer) < MaxBytes
  /\ Decided => extra < MaxExtra
  /\ Len(buffer) - LineStart <= MaxLine
  /\ buffer' = Append(buffer, byte)
  /\ result' = Parse(buffer')
  /\ extra' = IF Decided THEN extra + 1 ELSE extra

Next == \E byte \in Alphabet : Arrive(byte)

Spec == Init /\ [][Next]_vars

-----------------------------------------------------------------------------
(* Properties                                                              *)

\* A decoded frame ends where the structural check said it would, and decoding
\* never runs out of the input the check accepted (frame.rs:168, "successful
\* check"): no panic, no Incomplete, no byte taken from the next frame.
DecodingFollowsTheCheck ==
  LET checked == Check(buffer)
      decoded == ParseData(buffer)
  IN  checked.verdict = "ok" =>
        \/ decoded.verdict = "Other"
        \/ decoded.verdict = "ok" /\ decoded.next = checked.next

\* Only bytes still to come can change the answer "incomplete": a frame that
\* was decoded, and an input that was rejected, stay so whatever arrives behind.
\* This is what lets read_frame parse again after every read.
VerdictsAreStable == [][Decided => result' = result]_vars

\* A frame that was decoded encodes to bytes that decode to it again, though
\* perhaps not to the same bytes: "*-1" and "$-1" are one Null, the integers
\* ":007" and ":-0" are 7 and 0, and lengths may have leading zeros as well.
EncodingRoundTrips ==
  result.verdict = "ok" => Parse(Encode(result.value)) =
    Ok(result.value, Len(Encode(result.value)) + 1)

\* Resource limits hold for what is decoded, not only for what is checked: no
\* path has more than MaxArrayDepth arrays, no array ArrayLimit elements.
DecodedWithinLimits ==
  result.verdict = "ok" => result.value \in FramesWithin[MaxArrayDepth]

\* An integer is decoded exactly when it fits the type, least value included,
\* to the number its digits spell: the text is the one the encoder writes for
\* that number, but for leading zeros and the sign of a zero (frame.rs:294,330).
Spells(text, n) ==
  \E k \in 0..Len(text) :
    LET zeros == [i \in 1..k |-> Zero]
    IN  \/ n >= 0 /\ text = zeros \o Spell(n)
        \/ n <= 0 /\ text = <<Minus>> \o zeros \o Spell(-n)

IntegerLine ==
  /\ extra = 0
  /\ Len(buffer) >= 3
  /\ buffer[1] = Colon
  /\ SubSeq(buffer, Len(buffer) - 1, Len(buffer)) = CRLF

DecimalsAreExact ==
  IntegerLine =>
    LET text == SubSeq(buffer, 2, Len(buffer) - 2)
    IN  IF \E n \in Ints : Spells(text, n)
        THEN /\ result.verdict = "ok"
             /\ Spells(text, result.value.value)
        ELSE result.verdict = "Other"
=============================================================================
