-------------------------- MODULE ParsingTheorems --------------------------
(***************************************************************************)
(* The command parser against the grammar of its two commands, for every   *)
(* frame: whatever the payloads, the spellings and the number of arguments. *)
(***************************************************************************)
EXTENDS CommandParsing, SequenceTheorems, TLAPS

-----------------------------------------------------------------------------
(* The argument parser                                                     *)

\* What the two kinds of argument, and the end of them, are taken for.
LEMMA ArgumentOutcomes ==
  ASSUME NEW items \in Seq(Argument), NEW i \in Nat \ {0}
  PROVE  /\ (NextBytes(items, i) = "ok") <=> (i <= Len(items) /\ IsString(items[i]))
         /\ (NextString(items, i) = "ok") <=> (i <= Len(items) /\ IsText(items[i]))
         /\ (NextBytes(items, i) = "EndOfStream") <=> i > Len(items)
         /\ (NextString(items, i) = "EndOfStream") <=> i > Len(items)
         /\ (Finish(items, i) = "ok") <=> i > Len(items)
         /\ NextBytes(items, i) \in {"ok", "EndOfStream", "Other"}
         /\ NextString(items, i) \in {"ok", "EndOfStream", "Other"}
         /\ Finish(items, i) \in {"ok", "Other"}
<1> USE DEF NextString, NextBytes, Finish, IsText, IsString
<1>1. Len(items) \in Nat
  OBVIOUS
<1>2. CASE i > Len(items)
  BY <1>1, <1>2
<1>3. CASE i <= Len(items) /\ items[i].type \in {"Bulk", "Simple"}
  BY <1>1, <1>3
<1>4. CASE i <= Len(items) /\ items[i].type \notin {"Bulk", "Simple"}
  BY <1>1, <1>4
<1> QED BY <1>1, <1>2, <1>3, <1>4

\* A rejection is told from a command and from other rejections.
LEMMA Rejections ==
  /\ Reject("Other") # Reject("EndOfStream")
  /\ \A error : Reject(error).op = "Reject" /\ Reject(error).error = error
BY DEF Reject

\* Arguments that leave a command incomplete, and only that.
TooShort(items) ==
  \/ Len(items) = 0
  \/ Len(items) = 1 /\ Names(items[1], GetNames \cup SetNames)
  \/ Len(items) = 2 /\ Names(items[1], SetNames) /\ IsText(items[2])

\* GET takes a key and nothing more.
LEMMA GetMeaning ==
  ASSUME NEW items \in Seq(Argument), NEW n \in Nat \ {0}, Len(items) = n
  PROVE  GetFromParse(items) =
           IF n = 1 THEN Reject("EndOfStream")
           ELSE IF n = 2 /\ IsText(items[2])
           THEN [op |-> "GET", key |-> items[2].data]
           ELSE Reject("Other")
<1>1. CASE n = 1
  <2>1. NextString(items, 2) = "EndOfStream"
    BY <1>1, ArgumentOutcomes
  <2> QED BY <1>1, <2>1 DEF GetFromParse, Try
<1>2. CASE n > 1 /\ ~IsText(items[2])
  <2>1. NextString(items, 2) = "Other"
    BY <1>2, ArgumentOutcomes
  <2> QED BY <1>2, <2>1 DEF GetFromParse, Try
<1>3. CASE n > 2 /\ IsText(items[2])
  <2>1. NextString(items, 2) = "ok" /\ Finish(items, 3) = "Other"
    BY <1>3, ArgumentOutcomes
  <2> QED BY <1>3, <2>1 DEF GetFromParse, Try
<1>4. CASE n = 2 /\ IsText(items[2])
  <2>1. NextString(items, 2) = "ok" /\ Finish(items, 3) = "ok"
    BY <1>4, ArgumentOutcomes
  <2> QED BY <1>4, <2>1 DEF GetFromParse, Try
<1> QED BY <1>1, <1>2, <1>3, <1>4

\* SET takes a key, a value and nothing more.
LEMMA SetMeaning ==
  ASSUME NEW items \in Seq(Argument), NEW n \in Nat \ {0}, Len(items) = n
  PROVE  SetFromParse(items) =
           IF n = 1 \/ (n = 2 /\ IsText(items[2])) THEN Reject("EndOfStream")
           ELSE IF n = 3 /\ IsText(items[2]) /\ IsString(items[3])
           THEN [op |-> "SET", key |-> items[2].data, value |-> items[3].data]
           ELSE Reject("Other")
<1>1. CASE n = 1
  <2>1. NextString(items, 2) = "EndOfStream"
    BY <1>1, ArgumentOutcomes
  <2> QED BY <1>1, <2>1 DEF SetFromParse, Try
<1>2. CASE n > 1 /\ ~IsText(items[2])
  <2>1. NextString(items, 2) = "Other"
    BY <1>2, ArgumentOutcomes
  <2> QED BY <1>2, <2>1 DEF SetFromParse, Try
<1>3. CASE n = 2 /\ IsText(items[2])
  <2>1. NextString(items, 2) = "ok" /\ NextBytes(items, 3) = "EndOfStream"
    BY <1>3, ArgumentOutcomes
  <2> QED BY <1>3, <2>1 DEF SetFromParse, Try
<1>4. CASE n > 2 /\ IsText(items[2]) /\ ~IsString(items[3])
  <2>1. NextString(items, 2) = "ok" /\ NextBytes(items, 3) = "Other"
    BY <1>4, ArgumentOutcomes
  <2> QED BY <1>4, <2>1 DEF SetFromParse, Try
<1>5. CASE n > 3 /\ IsText(items[2]) /\ IsString(items[3])
  <2>1. /\ NextString(items, 2) = "ok" /\ NextBytes(items, 3) = "ok"
        /\ Finish(items, 4) = "Other"
    BY <1>5, ArgumentOutcomes
  <2> QED BY <1>5, <2>1 DEF SetFromParse, Try
<1>6. CASE n = 3 /\ IsText(items[2]) /\ IsString(items[3])
  <2>1. /\ NextString(items, 2) = "ok" /\ NextBytes(items, 3) = "ok"
        /\ Finish(items, 4) = "ok"
    BY <1>6, ArgumentOutcomes
  <2> QED BY <1>6, <2>1 DEF SetFromParse, Try
<1> QED BY <1>1, <1>2, <1>3, <1>4, <1>5, <1>6

-----------------------------------------------------------------------------
(* The commands                                                            *)

\* What the parser makes of arguments: exactly the commands are parsed, and the
\* rejected ones are told apart.
LEMMA ItemsMeaning ==
  ASSUME NEW items \in Seq(Argument), NEW n \in Nat, Len(items) = n, NEW meaning,
         meaning = Try(NextString(items, 1),
                       CASE items[1].data \in GetNames -> GetFromParse(items)
                         [] items[1].data \in SetNames -> SetFromParse(items)
                         [] OTHER                      -> Reject("Other"))
  PROVE  /\ IsGet(items) => meaning = [op |-> "GET", key |-> items[2].data]
         /\ IsSet(items) =>
              meaning = [op |-> "SET", key |-> items[2].data, value |-> items[3].data]
         /\ TooShort(items) => meaning = Reject("EndOfStream")
         /\ ~IsCommand(items) /\ ~TooShort(items) => meaning = Reject("Other")
         /\ ~(IsGet(items) /\ IsSet(items)) /\ ~(IsCommand(items) /\ TooShort(items))
<1> USE DEF IsGet, IsSet, IsCommand, TooShort, Names
<1>1. CASE n = 0
  <2>0. 1 > Len(items) /\ 1 \in Nat \ {0}
    BY <1>1
  <2>1. NextString(items, 1) = "EndOfStream"
    BY <2>0, ArgumentOutcomes
  <2>2. meaning = Reject("EndOfStream")
    BY <2>1 DEF Try
  <2> QED BY <1>1, <2>2
<1>2. CASE n > 0 /\ ~IsText(items[1])
  <2>1. NextString(items, 1) = "Other"
    BY <1>2, ArgumentOutcomes
  <2>2. meaning = Reject("Other")
    BY <2>1 DEF Try
  <2> QED BY <1>2, <2>2
<1>3. CASE n > 0 /\ IsText(items[1])
  <2>1. NextString(items, 1) = "ok"
    BY <1>3, ArgumentOutcomes
  <2>2. meaning = CASE items[1].data \in GetNames -> GetFromParse(items)
                    [] items[1].data \in SetNames -> SetFromParse(items)
                    [] OTHER                      -> Reject("Other")
    BY <2>1 DEF Try
  <2>3. CASE items[1].data \in GetNames
    <3>1. items[1].data \notin SetNames
      BY <2>3, PayloadAssumption
    <3>2. meaning = GetFromParse(items)
      BY <2>2, <2>3, <3>1
    <3> QED BY <1>3, <2>3, <3>1, <3>2, GetMeaning
  <2>4. CASE items[1].data \in SetNames
    <3>1. items[1].data \notin GetNames
      BY <2>4, PayloadAssumption
    <3>2. meaning = SetFromParse(items)
      BY <2>2, <2>4, <3>1
    <3> QED BY <1>3, <2>4, <3>1, <3>2, SetMeaning
  <2>5. CASE items[1].data \notin GetNames \cup SetNames
    <3>1. meaning = Reject("Other")
      BY <2>2, <2>5
    <3> QED BY <1>3, <2>5, <3>1
  <2> QED BY <2>3, <2>4, <2>5
<1> QED BY <1>1, <1>2, <1>3

\* Every array is a command of the grammar, the beginning of one, or wrong; no
\* two of these at once.
LEMMA ArrayMeaning ==
  ASSUME NEW f \in Frame, f.type = "Array"
  PROVE  /\ f.items \in Seq(Argument)
         /\ IsGet(f.items) => FromFrame(f) = [op |-> "GET", key |-> f.items[2].data]
         /\ IsSet(f.items) => FromFrame(f) =
              [op |-> "SET", key |-> f.items[2].data, value |-> f.items[3].data]
         /\ TooShort(f.items) => FromFrame(f) = Reject("EndOfStream")
         /\ ~IsCommand(f.items) /\ ~TooShort(f.items) => FromFrame(f) = Reject("Other")
         /\ ~(IsGet(f.items) /\ IsSet(f.items))
         /\ ~(IsCommand(f.items) /\ TooShort(f.items))
<1>1. f.items \in Seq(Argument) /\ Len(f.items) \in Nat
  BY DEF Frame
<1>2. FromFrame(f) = Try(NextString(f.items, 1),
               CASE f.items[1].data \in GetNames -> GetFromParse(f.items)
                 [] f.items[1].data \in SetNames -> SetFromParse(f.items)
                 [] OTHER                        -> Reject("Other"))
  BY DEF FromFrame
<1> QED BY <1>1, <1>2, ItemsMeaning

\* A frame that is no array is rejected, and not for being too short.
LEMMA OtherMeaning ==
  ASSUME NEW f, f.type # "Array"
  PROVE  FromFrame(f) = Reject("Other")
BY DEF FromFrame

\* The verdict is the parser's, on the frame that was given.
Parsed ==
  frame \in Frame /\ (verdict # NotParsed => verdict = FromFrame(frame))

\* Nothing else ever becomes the verdict.
LEMMA ParsedInvariant == Spec => []Parsed
<1>1. Init => Parsed
  BY ParsingAssumption DEF Init, Parsed
<1>2. ASSUME Parsed, [Parse]_<<frame, verdict>> PROVE Parsed'
  BY <1>2 DEF Parsed, Parse
<1> QED BY <1>1, <1>2, PTL DEF Spec

\* Exactly the grammar is accepted, whatever the payloads and however many
\* arguments there are.
THEOREM GrammarAccepted == Spec => []AcceptsTheGrammar
<1>1. ASSUME Parsed PROVE AcceptsTheGrammar
  <2> SUFFICES ASSUME verdict # NotParsed PROVE AcceptsTheGrammar
    BY DEF AcceptsTheGrammar
  <2>1. frame \in Frame /\ verdict = FromFrame(frame)
    BY <1>1 DEF Parsed
  <2>2. CASE frame.type # "Array"
    BY <2>1, <2>2, OtherMeaning, Rejections DEF AcceptsTheGrammar
  <2>3. CASE frame.type = "Array" /\ IsCommand(frame.items)
    BY <2>1, <2>3, ArrayMeaning DEF AcceptsTheGrammar, IsCommand
  <2>4. CASE frame.type = "Array" /\ ~IsCommand(frame.items)
    <3>1. verdict = Reject("EndOfStream") \/ verdict = Reject("Other")
      BY <2>1, <2>4, ArrayMeaning
    <3> QED BY <2>4, <3>1, Rejections DEF AcceptsTheGrammar, IsCommand
  <2> QED BY <2>2, <2>3, <2>4
<1> QED BY <1>1, ParsedInvariant, PTL

\* The arguments of the frames are arguments, and sequences of them are completions.
LEMMA CompletionTypes ==
  /\ Arguments \subseteq Argument
  /\ \A more \in Completions : more \in Seq(Argument) /\ Len(more) >= 1
  /\ MaxArgs >= 2 => \A a \in Arguments : <<a>> \in Completions /\ <<a, a>> \in Completions
<1>1. Arguments \subseteq Argument
  BY ParsingAssumption DEF Arguments, Frame
<1>2. ASSUME NEW more \in Completions
      PROVE  more \in Seq(Argument) /\ Len(more) >= 1
  <2>1. PICK n \in 1..MaxArgs : more \in [1..n -> Arguments]
    BY DEF Completions
  <2>2. more \in [1..n -> Argument] /\ n \in Nat /\ n >= 1
    BY <1>1, <2>1, ParsingAssumption
  <2> QED BY <2>2
<1>3. ASSUME MaxArgs >= 2, NEW a \in Arguments
      PROVE  <<a>> \in Completions /\ <<a, a>> \in Completions
  <2>1. <<a>> \in [1..1 -> Arguments] /\ <<a, a>> \in [1..2 -> Arguments]
    OBVIOUS
  <2>2. 1 \in 1..MaxArgs /\ 2 \in 1..MaxArgs
    BY <1>3, ParsingAssumption
  <2> QED BY <2>1, <2>2 DEF Completions
<1> QED BY <1>1, <1>2, <1>3

\* What more arguments leave as it is, and where they go.
LEMMA Extended ==
  ASSUME NEW items \in Seq(Argument), NEW n \in Nat, Len(items) = n,
         NEW more \in Seq(Argument), NEW k \in Nat, Len(more) = k
  PROVE  /\ Len(items \o more) = n + k
         /\ \A i \in 1..n : (items \o more)[i] = items[i]
         /\ \A i \in 1..k : (items \o more)[n + i] = more[i]
<1>1. Len(items \o more) = n + k
  BY ConcatProperties
<1>2. ASSUME NEW i \in 1..(n + k)
      PROVE  (items \o more)[i] = IF i <= n THEN items[i] ELSE more[i - n]
  BY ConcatProperties
<1>3. \A i \in 1..n : (items \o more)[i] = items[i]
  BY <1>2
<1>4. ASSUME NEW i \in 1..k
      PROVE  (items \o more)[n + i] = more[i]
  <2>1. n + i \in 1..(n + k) /\ ~(n + i <= n) /\ (n + i) - n = i
    OBVIOUS
  <2> QED BY <1>2, <2>1
<1> QED BY <1>1, <1>3, <1>4

\* Arguments are too few exactly when more of them make a command.
LEMMA ShortMeansCompletable ==
  ASSUME NEW items \in Seq(Argument), NEW n \in Nat, Len(items) = n, Completable
  PROVE  TooShort(items) <=> \E more \in Completions : IsCommand(items \o more)
<1>1. ASSUME NEW more \in Completions, IsCommand(items \o more)
      PROVE  TooShort(items)
  <2>1. more \in Seq(Argument) /\ Len(more) \in Nat /\ Len(more) >= 1
    BY CompletionTypes
  <2>2. /\ Len(items \o more) = n + Len(more)
        /\ \A i \in 1..n : (items \o more)[i] = items[i]
    BY <2>1, Extended
  <2>3. CASE n = 0
    BY <2>3 DEF TooShort
  <2>4. CASE n = 1
    <3>1. (items \o more)[1] = items[1]
      BY <2>2, <2>4
    <3> QED BY <1>1, <2>4, <3>1 DEF TooShort, IsCommand, IsGet, IsSet, Names
  <2>5. CASE n = 2
    <3>1. (items \o more)[1] = items[1] /\ (items \o more)[2] = items[2]
      BY <2>2, <2>5
    <3>2. Len(items \o more) > 2
      BY <2>1, <2>2, <2>5
    <3> QED BY <1>1, <2>5, <3>1, <3>2 DEF TooShort, IsCommand, IsGet, IsSet
  <2>6. CASE n > 2
    <3>1. Len(items \o more) > 3
      BY <2>1, <2>2, <2>6
    <3> QED BY <1>1, <3>1 DEF IsCommand, IsGet, IsSet
  <2> QED BY <2>3, <2>4, <2>5, <2>6
<1>2. ASSUME TooShort(items)
      PROVE  \E more \in Completions : IsCommand(items \o more)
  <2>1. PICK a \in Arguments : Names(a, GetNames)
    BY DEF Completable
  <2>2. a \in Argument /\ IsText(a) /\ IsString(a)
    BY <2>1, CompletionTypes DEF Names, IsText
  <2>3. <<a>> \in Completions /\ <<a, a>> \in Completions
    BY CompletionTypes DEF Completable
  <2>4. /\ <<a>> \in Seq(Argument) /\ Len(<<a>>) = 1 /\ <<a>>[1] = a
        /\ <<a, a>> \in Seq(Argument) /\ Len(<<a, a>>) = 2
        /\ <<a, a>>[1] = a /\ <<a, a>>[2] = a
    BY <2>2
  <2>5. CASE n = 0
    <3>1. /\ Len(items \o <<a, a>>) = 2
          /\ (items \o <<a, a>>)[1] = a /\ (items \o <<a, a>>)[2] = a
      BY <2>4, <2>5, Extended
    <3> QED BY <2>1, <2>2, <2>3, <3>1 DEF IsCommand, IsGet
  <2>6. CASE n = 1 /\ Names(items[1], GetNames)
    <3>1. Len(items \o <<a>>) = 2 /\ (items \o <<a>>)[1] = items[1] /\ (items \o <<a>>)[2] = a
      BY <2>4, <2>6, Extended
    <3> QED BY <2>2, <2>3, <2>6, <3>1 DEF IsCommand, IsGet
  <2>7. CASE n = 1 /\ Names(items[1], SetNames)
    <3>1. /\ Len(items \o <<a, a>>) = 3 /\ (items \o <<a, a>>)[1] = items[1]
          /\ (items \o <<a, a>>)[2] = a /\ (items \o <<a, a>>)[3] = a
      <4>1. 1 \in 1..n /\ n + 1 = 2 /\ n + 2 = 3
        BY <2>7
      <4>2. /\ Len(items \o <<a, a>>) = n + 2
            /\ \A i \in 1..n : (items \o <<a, a>>)[i] = items[i]
            /\ \A i \in 1..2 : (items \o <<a, a>>)[n + i] = <<a, a>>[i]
        BY <2>4, Extended
      <4> QED BY <2>4, <4>1, <4>2
    <3> QED BY <2>2, <2>3, <2>7, <3>1 DEF IsCommand, IsSet
  <2>8. CASE n = 2 /\ Names(items[1], SetNames) /\ IsText(items[2])
    <3>1. /\ Len(items \o <<a>>) = 3 /\ (items \o <<a>>)[1] = items[1]
          /\ (items \o <<a>>)[2] = items[2] /\ (items \o <<a>>)[3] = a
      <4>1. 1 \in 1..n /\ 2 \in 1..n /\ n + 1 = 3
        BY <2>8
      <4>2. /\ Len(items \o <<a>>) = n + 1
            /\ \A i \in 1..n : (items \o <<a>>)[i] = items[i]
            /\ \A i \in 1..1 : (items \o <<a>>)[n + i] = <<a>>[i]
        BY <2>4, Extended
      <4> QED BY <2>4, <4>1, <4>2
    <3> QED BY <2>2, <2>3, <2>8, <3>1 DEF IsCommand, IsSet
  <2> QED BY <1>2, <2>5, <2>6, <2>7, <2>8 DEF TooShort, Names
<1> QED BY <1>1, <1>2

\* EndOfStream is the verdict on exactly the requests that more arguments could
\* complete, wherever some argument can serve to complete them.
THEOREM TooShortReported == Completable => (Spec => []EndOfStreamMeansTooShort)
<1> SUFFICES ASSUME Completable PROVE Spec => []EndOfStreamMeansTooShort
  OBVIOUS
<1>1. ASSUME Parsed PROVE EndOfStreamMeansTooShort
  <2> SUFFICES ASSUME verdict # NotParsed PROVE EndOfStreamMeansTooShort
    BY DEF EndOfStreamMeansTooShort
  <2>1. frame \in Frame /\ verdict = FromFrame(frame)
    BY <1>1 DEF Parsed
  <2>2. CASE frame.type # "Array"
    BY <2>1, <2>2, OtherMeaning, Rejections DEF EndOfStreamMeansTooShort
  <2>3. CASE frame.type = "Array"
    <3>1. (verdict = Reject("EndOfStream")) <=> TooShort(frame.items)
      <4>1. IsCommand(frame.items) => verdict.op \in {"GET", "SET"}
        BY <2>1, <2>3, ArrayMeaning DEF IsCommand
      <4> QED BY <2>1, <2>3, <4>1, ArrayMeaning, Rejections
    <3> QED BY <2>1, <2>3, <3>1, ArrayMeaning, ShortMeansCompletable
            DEF EndOfStreamMeansTooShort
  <2> QED BY <2>2, <2>3
<1> QED BY <1>1, ParsedInvariant, PTL
=============================================================================
