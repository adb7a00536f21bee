------------------------- MODULE ConnectionTheorems -------------------------
(***************************************************************************)
(* What the two ends of a connection keep, for any frames, any encoding    *)
(* and any sizes of the two buffers.                                       *)
(***************************************************************************)
EXTENDS Connection, FiniteSetTheorems, SequenceTheorems, TLAPS

Bytes == Seq(Nat)

-----------------------------------------------------------------------------
(* Cutting and joining sequences of bytes                                  *)

\* The empty sequence.
LEMMA Nothing == <<>> \in Bytes /\ Len(<<>>) = 0 /\ After(<<>>, 0) = <<>>
BY EmptySeq, SubSeqEmpty DEF Bytes, After

\* Joining two sequences.
LEMMA Join ==
  ASSUME NEW s \in Bytes, NEW t \in Bytes
  PROVE  s \o t \in Bytes /\ Len(s \o t) = Len(s) + Len(t)
BY ConcatProperties DEF Bytes

\* Joining with nothing.
LEMMA JoinNothing ==
  ASSUME NEW s \in Bytes
  PROVE  s \o <<>> = s /\ <<>> \o s = s
BY ConcatEmptySeq DEF Bytes

\* Joining three sequences.
LEMMA Regroup ==
  ASSUME NEW s \in Bytes, NEW t \in Bytes, NEW u \in Bytes
  PROVE  (s \o t) \o u = s \o (t \o u)
<1>1. /\ s \in Seq(Nat) /\ t \in Seq(Nat) /\ u \in Seq(Nat)
      /\ Len(s) \in Nat /\ Len(t) \in Nat /\ Len(u) \in Nat
  BY LenProperties DEF Bytes
<1>2. /\ s \o t \in Seq(Nat) /\ Len(s \o t) = Len(s) + Len(t)
      /\ t \o u \in Seq(Nat) /\ Len(t \o u) = Len(t) + Len(u)
  BY ONLY <1>1, ConcatProperties
<1>3. /\ (s \o t) \o u \in Seq(Nat) /\ Len((s \o t) \o u) = Len(s) + Len(t) + Len(u)
      /\ s \o (t \o u) \in Seq(Nat) /\ Len(s \o (t \o u)) = Len(s) + Len(t) + Len(u)
  BY ONLY <1>1, <1>2, ConcatProperties
<1>4. ASSUME NEW i \in 1..Len(s) + Len(t) + Len(u)
      PROVE  ((s \o t) \o u)[i] = (s \o (t \o u))[i]
  <2>1. ((s \o t) \o u)[i] = IF i <= Len(s) + Len(t) THEN (s \o t)[i] ELSE u[i - (Len(s) + Len(t))]
    BY ONLY <1>1, <1>2, <1>4, ConcatProperties
  <2>2. (s \o (t \o u))[i] = IF i <= Len(s) THEN s[i] ELSE (t \o u)[i - Len(s)]
    BY ONLY <1>1, <1>2, <1>4, ConcatProperties
  <2>3. i <= Len(s) + Len(t) => (s \o t)[i] = IF i <= Len(s) THEN s[i] ELSE t[i - Len(s)]
    BY ONLY <1>1, <1>2, <1>4, ConcatProperties
  <2>4. i > Len(s) => (t \o u)[i - Len(s)] = IF i - Len(s) <= Len(t) THEN t[i - Len(s)]
                                             ELSE u[(i - Len(s)) - Len(t)]
    BY ONLY <1>1, <1>2, <1>4, ConcatProperties
  <2> QED BY ONLY <1>1, <1>4, <2>1, <2>2, <2>3, <2>4
<1> QED BY ONLY <1>3, <1>4, SeqEqual

\* Both parts are sequences, and together they are the whole.
LEMMA Cut ==
  ASSUME NEW bytes \in Bytes, NEW n \in 0..Len(bytes)
  PROVE  /\ First(bytes, n) \in Bytes /\ Len(First(bytes, n)) = n
         /\ After(bytes, n) \in Bytes /\ Len(After(bytes, n)) = Len(bytes) - n
         /\ First(bytes, n) \o After(bytes, n) = bytes
<1> USE DEF Bytes, First, After
<1>1. Len(bytes) \in Nat /\ \A i \in 1..Len(bytes) : bytes[i] \in Nat
  BY LenProperties, ElementOfSeq
<1>2. First(bytes, n) \in Bytes /\ Len(First(bytes, n)) = n
  BY <1>1, SubSeqProperties, n \in Int, 1 \in Int
<1>3. After(bytes, n) \in Bytes /\ Len(After(bytes, n)) = Len(bytes) - n
  BY <1>1, SubSeqProperties, n + 1 \in Int, Len(bytes) \in Int
<1>4. First(bytes, n) \o After(bytes, n) = bytes
  <2>1. 1 \in 1..(Len(bytes) + 1) /\ n \in 1 - 1..Len(bytes) /\ Len(bytes) \in n..Len(bytes)
    BY <1>1
  <2>2. First(bytes, n) \o After(bytes, n) = SubSeq(bytes, 1, Len(bytes))
    BY <2>1, ConcatAdjacentSubSeq
  <2> QED BY <2>2, SubSeqFull
<1> QED BY <1>2, <1>3, <1>4

\* Nothing comes after all of it, and all of it after nothing.
LEMMA CutEnds ==
  ASSUME NEW bytes \in Bytes
  PROVE  After(bytes, Len(bytes)) = <<>> /\ After(bytes, 0) = bytes
BY LenProperties, SubSeqEmpty, SubSeqFull DEF Bytes, After

\* What comes after a piece is the next piece and what comes after that.
LEMMA CutAgain ==
  ASSUME NEW bytes \in Bytes, NEW m \in 0..Len(bytes), NEW n \in m..Len(bytes)
  PROVE  /\ SubSeq(bytes, m + 1, n) \in Bytes
         /\ After(bytes, m) = SubSeq(bytes, m + 1, n) \o After(bytes, n)
<1> USE DEF Bytes, After
<1>1. Len(bytes) \in Nat /\ \A i \in 1..Len(bytes) : bytes[i] \in Nat
  BY LenProperties, ElementOfSeq
<1>2. SubSeq(bytes, m + 1, n) \in Bytes
  BY <1>1, SubSeqProperties, m + 1 \in Int, n \in Int
<1>3. m + 1 \in 1..(Len(bytes) + 1) /\ n \in (m + 1) - 1..Len(bytes)
      /\ Len(bytes) \in n..Len(bytes)
  BY <1>1
<1>4. SubSeq(bytes, m + 1, n) \o SubSeq(bytes, n + 1, Len(bytes))
        = SubSeq(bytes, m + 1, Len(bytes))
  BY <1>3, ConcatAdjacentSubSeq
<1> QED BY <1>2, <1>4

\* Taking a join apart where it was joined.
LEMMA Apart ==
  ASSUME NEW s \in Bytes, NEW t \in Bytes
  PROVE  First(s \o t, Len(s)) = s /\ After(s \o t, Len(s)) = t
<1>1. Len(s) \in 0..Len(s \o t) /\ s \o t \in Bytes /\ Len(s) \in Nat
  BY Join, LenProperties DEF Bytes
<1>2. /\ First(s \o t, Len(s)) \in Bytes /\ Len(First(s \o t, Len(s))) = Len(s)
      /\ After(s \o t, Len(s)) \in Bytes
      /\ First(s \o t, Len(s)) \o After(s \o t, Len(s)) = s \o t
  BY <1>1, Cut
<1>3. First(s \o t, Len(s)) = s
  <2>1. \A i \in 1..Len(s) : First(s \o t, Len(s))[i] = s[i]
    BY <1>1, ConcatProperties DEF First, Bytes
  <2> QED BY <1>2, <2>1, SeqEqual DEF Bytes
<1>4. After(s \o t, Len(s)) = t
  <2> DEFINE u == After(s \o t, Len(s))
  <2>1. u \in Bytes /\ s \o u = s \o t
    BY <1>2, <1>3
  <2> HIDE DEF u
  <2>2. \A S : \A a, b, c \in Seq(S) : a \o b = a \o c => b = c
    BY ConcatSimplifications
  <2>3. u = t
    BY <2>1, <2>2 DEF Bytes
  <2> QED BY <2>3 DEF u
<1> QED BY <1>3, <1>4

\* The bytes after the first m and up to the n-th.
Piece(bytes, m, n) == SubSeq(bytes, m + 1, n)

\* A piece is a sequence, is two pieces, and stays when more is joined.
LEMMA Pieces ==
  ASSUME NEW bytes \in Bytes, NEW k \in 0..Len(bytes), NEW m \in k..Len(bytes),
         NEW n \in m..Len(bytes)
  PROVE  /\ Piece(bytes, k, m) \in Bytes /\ Len(Piece(bytes, k, m)) = m - k
         /\ Piece(bytes, k, n) = Piece(bytes, k, m) \o Piece(bytes, m, n)
         /\ First(Piece(bytes, k, n), m - k) = Piece(bytes, k, m)
         /\ After(Piece(bytes, k, n), m - k) = Piece(bytes, m, n)
<1>1. Len(bytes) \in Nat /\ k \in Nat /\ m \in Nat /\ n \in Nat
      /\ \A i \in 1..Len(bytes) : bytes[i] \in Nat
  BY LenProperties, ElementOfSeq DEF Bytes
<1>2. Piece(bytes, k, m) \in Bytes /\ Len(Piece(bytes, k, m)) = m - k
  BY <1>1, SubSeqProperties, k + 1 \in Int, m \in Int DEF Piece, Bytes
<1>3. Piece(bytes, m, n) \in Bytes
  BY <1>1, SubSeqProperties, m + 1 \in Int, n \in Int DEF Piece, Bytes
<1>4. Piece(bytes, k, n) = Piece(bytes, k, m) \o Piece(bytes, m, n)
  <2>1. k + 1 \in 1..Len(bytes) + 1 /\ m \in (k + 1) - 1..Len(bytes) /\ n \in m..Len(bytes)
    BY <1>1
  <2> QED BY <2>1, ConcatAdjacentSubSeq DEF Piece, Bytes
<1> QED BY <1>2, <1>3, <1>4, Apart

\* What is joined at the end changes no piece before it.
LEMMA PieceOfJoin ==
  ASSUME NEW s \in Bytes, NEW t \in Bytes, NEW m \in 0..Len(s), NEW n \in m..Len(s)
  PROVE  Piece(s \o t, m, n) = Piece(s, m, n)
<1>1. Len(s) \in Nat /\ m \in Nat /\ n \in Nat
  BY LenProperties DEF Bytes
<1>2. CASE m = n
  BY <1>1, <1>2, SubSeqEmpty, m + 1 \in Int, n \in Int DEF Piece
<1>3. CASE m < n
  <2>1. m + 1 \in 1..Len(s) /\ n \in 1..Len(s)
    BY <1>1, <1>3
  <2> QED BY <2>1, SubSeqOfConcat1 DEF Piece, Bytes
<1> QED BY <1>1, <1>2, <1>3

-----------------------------------------------------------------------------
(* The writing end                                                         *)

\* The types of the writing end, whose socket has some part of the write buffer.
WriterTypeOK ==
  /\ writer \in {"idle", "writing", "closed"}
  /\ asked \in Bytes /\ rest \in Bytes /\ pending \in Bytes /\ wire \in Bytes
  /\ flushed \in 0..Len(pending)

\* Between two frames nothing is left to be written.
WriterInv ==
  /\ WriterTypeOK
  /\ WireInOrder
  /\ writer = "idle" => rest = <<>> /\ pending = <<>>

\* A read leaves the writing end alone.
LEMMA ReadsOnly ==
  ASSUME ReadOn \/ ReadFails
  PROVE  UNCHANGED <<history, writeVars>>
BY DEF ReadOn, ReadFails, Deliver, RejectInput, RefuseFrame, Read, ReadEnd

\* A frame that is begun is asked for and all of it is left to be written.
LEMMA WriteFrameStep ==
  ASSUME WriterInv, WriteFrame PROVE WriterInv'
<1> USE DEF WriterInv, WriterTypeOK, readVars
<1>1. PICK frame \in Frames :
        /\ asked' = asked \o Encoding(frame)
        /\ rest' = Encoding(frame)
  BY DEF WriteFrame
<1>2. UNCHANGED <<pending, flushed, wire>> /\ writer' = "writing"
      /\ pending = <<>> /\ rest = <<>>
  BY DEF WriteFrame
<1>3. Encoding(frame) \in Bytes
  BY ConnectionAssumption DEF Bytes
<1>4. asked' \in Bytes
  BY <1>1, <1>3, Join
<1>5. After(pending, flushed) = <<>>
  BY <1>2, Nothing DEF WriterInv, WriterTypeOK
<1>6. wire = asked
  BY <1>2, <1>5, JoinNothing DEF WireInOrder
<1>7. wire' \o After(pending, flushed)' \o rest' = asked'
  BY <1>1, <1>2, <1>5, <1>6, JoinNothing
<1> QED BY <1>1, <1>2, <1>3, <1>4, <1>7 DEF WireInOrder

\* What goes into the write buffer is the next piece of what is left.
LEMMA CollectStep ==
  ASSUME WriterInv, Collect PROVE WriterInv'
<1> USE DEF WriterInv, WriterTypeOK, history, readVars
<1>1. PICK n \in 1..Len(rest) :
        /\ Len(pending) + n <= Capacity
        /\ pending' = pending \o First(rest, n)
        /\ rest' = After(rest, n)
  BY DEF Collect
<1>2. UNCHANGED <<asked, flushed, wire, writer>> /\ flushed = 0 /\ writer = "writing"
  BY DEF Collect
<1>3. Len(rest) \in Nat /\ Len(pending) \in Nat /\ n \in 0..Len(rest)
  BY LenProperties DEF Bytes
<1>4. /\ First(rest, n) \in Bytes /\ Len(First(rest, n)) = n
      /\ rest' \in Bytes /\ First(rest, n) \o rest' = rest
  BY <1>1, <1>3, Cut
<1>5. pending' \in Bytes /\ Len(pending') = Len(pending) + n
  <2> DEFINE piece == First(rest, n)
  <2>1. pending \in Bytes /\ piece \in Bytes /\ Len(piece) = n /\ pending' = pending \o piece
    BY <1>1, <1>4
  <2> HIDE DEF piece
  <2> QED BY <2>1, Join
<1>6. After(pending, flushed) = pending /\ After(pending, flushed)' = pending'
  BY <1>2, <1>5, CutEnds
<1>7. (wire \o pending') \o rest' = (wire \o pending) \o rest
  <2> DEFINE piece == First(rest, n)
  <2>0. wire \in Bytes /\ pending \in Bytes /\ piece \in Bytes /\ rest' \in Bytes
    BY <1>4
  <2> HIDE DEF piece
  <2>1. (wire \o pending) \o piece = wire \o (pending \o piece)
    BY ONLY <2>0, Regroup
  <2>2. wire \o pending \in Bytes
    BY ONLY <2>0, Join
  <2>3. ((wire \o pending) \o piece) \o rest' = (wire \o pending) \o (piece \o rest')
    BY ONLY <2>0, <2>2, Regroup
  <2> USE DEF piece
  <2> QED BY <1>1, <1>4, <2>1, <2>3
<1>8. WireInOrder'
  BY <1>1, <1>2, <1>5, <1>6, <1>7 DEF WireInOrder
<1> QED BY <1>2, <1>3, <1>4, <1>5, <1>8

\* A piece that goes around the write buffer finds it empty.
LEMMA WriteThroughStep ==
  ASSUME WriterInv, WriteThrough PROVE WriterInv'
<1> USE DEF WriterInv, WriterTypeOK, history, readVars
<1>1. PICK n \in 1..Len(rest) :
        /\ wire' = wire \o First(rest, n)
        /\ rest' = After(rest, n)
  BY DEF WriteThrough
<1>2. UNCHANGED <<asked, pending, flushed, writer>> /\ pending = <<>> /\ writer = "writing"
  BY DEF WriteThrough
<1>3. Len(rest) \in Nat /\ n \in 0..Len(rest)
  BY LenProperties DEF Bytes
<1>4. /\ First(rest, n) \in Bytes
      /\ rest' \in Bytes /\ First(rest, n) \o rest' = rest
  BY <1>1, <1>3, Cut
<1>5. wire' \in Bytes
  BY <1>1, <1>4, Join
<1>6. After(pending, flushed) = <<>>
  BY <1>2, Nothing DEF WriterInv, WriterTypeOK
<1>7. wire' \o rest' = wire \o rest
  <2>0. wire \in Bytes /\ First(rest, n) \in Bytes /\ rest' \in Bytes
    BY <1>4
  <2>1. (wire \o First(rest, n)) \o rest' = wire \o (First(rest, n) \o rest')
    BY ONLY <2>0, Regroup
  <2> QED BY <1>1, <1>4, <2>1
<1>8. WireInOrder'
  BY <1>2, <1>5, <1>6, <1>7, JoinNothing DEF WireInOrder
<1> QED BY <1>2, <1>4, <1>5, <1>8

\* The socket takes the next piece of the write buffer.
LEMMA FlushStep ==
  ASSUME WriterInv, Flush PROVE WriterInv'
<1> USE DEF WriterInv, WriterTypeOK, history, readVars
<1>1. PICK n \in 1..(Len(pending) - flushed) :
        /\ wire' = wire \o SubSeq(pending, flushed + 1, flushed + n)
        /\ \/ flushed + n = Len(pending) /\ pending' = <<>> /\ flushed' = 0
           \/ flushed + n # Len(pending) /\ flushed' = flushed + n /\ pending' = pending
  BY DEF Flush
<1>2. UNCHANGED <<asked, rest, writer>> /\ writer = "writing"
  BY DEF Flush
<1> DEFINE m == flushed + n
<1>3. Len(pending) \in Nat /\ flushed \in 0..Len(pending) /\ m \in flushed..Len(pending)
  BY LenProperties DEF Bytes
<1>4. /\ SubSeq(pending, flushed + 1, m) \in Bytes
      /\ After(pending, flushed) = SubSeq(pending, flushed + 1, m) \o After(pending, m)
  BY <1>3, CutAgain
<1>5. wire' \in Bytes
  BY <1>1, <1>4, Join
<1>6. /\ After(pending, flushed)' = After(pending, m)
      /\ pending' \in Bytes /\ flushed' \in 0..Len(pending') /\ Len(pending') <= Capacity
  <2>1. CASE m = Len(pending)
    <3>1. After(pending, m) = <<>>
      BY <2>1, CutEnds
    <3>2. After(pending, flushed)' = <<>> /\ pending' = <<>> /\ flushed' = 0
      BY <1>1, <2>1, Nothing DEF WriterInv, WriterTypeOK
    <3>3. <<>> \in Bytes /\ Len(<<>>) = 0
      BY Nothing
    <3> QED BY <3>1, <3>2, <3>3, ConnectionAssumption
  <2>2. CASE m # Len(pending)
    BY <1>1, <1>3, <2>2 DEF WireInOrder
  <2> QED BY <2>1, <2>2
<1>7. After(pending, m) \in Bytes
  BY <1>3, Cut
<1>8. wire' \o After(pending, m) = wire \o After(pending, flushed)
  <2> DEFINE piece == SubSeq(pending, flushed + 1, m)
  <2>0. wire \in Bytes /\ piece \in Bytes /\ After(pending, m) \in Bytes
    BY <1>4, <1>7
  <2> HIDE DEF piece
  <2>1. (wire \o piece) \o After(pending, m) = wire \o (piece \o After(pending, m))
    BY ONLY <2>0, Regroup
  <2> USE DEF piece
  <2> QED BY <1>1, <1>4, <2>1
<1>9. WireInOrder'
  BY <1>2, <1>6, <1>8 DEF WireInOrder
<1> QED BY <1>2, <1>5, <1>6, <1>9

\* The tail goes after everything that was asked for.
LEMMA WriteTailStep ==
  ASSUME WriterInv, WriteTail PROVE WriterInv'
<1> USE DEF WriterInv, WriterTypeOK, readVars
<1>1. PICK tail \in Tails : wire' = wire \o tail /\ asked' = asked \o tail
  BY DEF WriteTail
<1>2. UNCHANGED <<rest, pending, flushed>> /\ writer' = "closed"
      /\ pending = <<>> /\ rest = <<>>
  BY DEF WriteTail
<1>3. wire' \in Bytes /\ asked' \in Bytes
  BY <1>1, Join, ConnectionAssumption DEF Bytes
<1>4. After(pending, flushed) = <<>>
  BY <1>2, Nothing DEF WriterInv, WriterTypeOK
<1>5. wire = asked
  BY <1>2, <1>4, JoinNothing DEF WireInOrder
<1>6. WireInOrder'
  BY <1>1, <1>2, <1>3, <1>4, <1>5, JoinNothing DEF WireInOrder
<1> QED BY <1>2, <1>3, <1>6

\* The writing end keeps its invariant, whatever the reading end does.
THEOREM WriterInvariant == Spec => []WriterInv
<1>1. Init => WriterInv
  <2> SUFFICES ASSUME Init PROVE WriterInv
    OBVIOUS
  <2>1. <<>> \in Bytes /\ Len(<<>>) = 0
    BY Nothing
  <2>2. After(<<>>, 0) = <<>>
    BY <2>1, CutEnds
  <2>3. WireInOrder
    BY <2>1, <2>2, JoinNothing, ConnectionAssumption DEF Init, WireInOrder
  <2> QED BY <2>1, <2>3 DEF Init, WriterInv, WriterTypeOK
<1>2. ASSUME WriterInv, [Next]_vars PROVE WriterInv'
  <2> USE <1>2
  <2>1. CASE WriteFrame
    BY <2>1, WriteFrameStep
  <2>2. CASE WriteOn
    <3>1. CASE WriteReturns
      <4>1. UNCHANGED <<asked, rest, pending, flushed, wire>> /\ writer' = "idle"
            /\ rest = <<>> /\ pending = <<>>
        BY <3>1 DEF WriteReturns, history
      <4> QED BY <4>1 DEF WriterInv, WriterTypeOK, WireInOrder
    <3> QED BY <2>2, <3>1, CollectStep, WriteThroughStep, FlushStep DEF WriteOn
  <2>3. CASE HangUp
    <3>1. UNCHANGED <<asked, rest, pending, flushed, wire>> /\ writer' = "closed"
      BY <2>3 DEF HangUp, history
    <3> QED BY <3>1 DEF WriterInv, WriterTypeOK, WireInOrder
  <2>4. CASE WriteTail
    BY <2>4, WriteTailStep
  <2>5. CASE ReadOn \/ ReadFails \/ Ended \/ UNCHANGED vars
    <3>1. UNCHANGED <<asked, rest, pending, flushed, wire, writer>>
      BY <2>5, ReadsOnly DEF Ended, vars, history, writeVars
    <3> QED BY <3>1 DEF WriterInv, WriterTypeOK, WireInOrder
  <2> QED BY <2>1, <2>2, <2>3, <2>4, <2>5 DEF Next
<1> QED BY <1>1, <1>2, PTL DEF Spec

\* Whatever the sizes of the pieces, of the write buffer and of what the socket
\* takes at a time, no byte is lost, repeated or out of order.
THEOREM WireOrdered == Spec => []WireInOrder
<1>1. WriterInv => WireInOrder
  BY DEF WriterInv
<1> QED BY <1>1, WriterInvariant, PTL

\* Every frame that write_frame returned for is on the wire to its last byte.
THEOREM FlushedOnReturn == Spec => []ReturnedIsFlushed
<1>1. WriterInv => ReturnedIsFlushed
  <2> SUFFICES ASSUME WriterInv, writer = "idle" PROVE wire = asked
    BY DEF ReturnedIsFlushed
  <2>1. pending = <<>> /\ rest = <<>> /\ flushed = 0 /\ wire \in Bytes
    BY Nothing DEF WriterInv, WriterTypeOK
  <2>2. After(pending, flushed) = <<>>
    BY <2>1, Nothing DEF WriterInv, WriterTypeOK
  <2> QED BY <2>1, <2>2, JoinNothing DEF WriterInv, WireInOrder
<1> QED BY <1>1, WriterInvariant, PTL

-----------------------------------------------------------------------------
(* The reading end, for a code that can be told apart from its tails       *)

\* Where frame i ends, and the first begins.
End(i) == IF i = 0 THEN 0 ELSE ends[i]

\* The stream is the encodings of the frames, and then perhaps a tail.
StreamInv ==
  /\ written \in Seq(Frames) /\ ends \in Seq(Nat) /\ Len(ends) = Len(written)
  /\ \A i \in 1..Len(ends) :
       /\ End(i) \in End(i - 1)..Len(asked)
       /\ Piece(asked, End(i - 1), End(i)) = Encoding(written[i])
  /\ End(Len(ends)) \in 0..Len(asked)
  /\ After(asked, End(Len(ends))) \in Tails \cup {<<>>}
  /\ writer # "closed" => End(Len(ends)) = Len(asked)

\* The frames returned are the first that were written, and the buffer holds
\* what arrived after the last of them.
ReaderInv ==
  /\ frames \in Seq(Frames) /\ Len(frames) <= Len(written)
  /\ \A i \in 1..Len(frames) : frames[i] = written[i]
  /\ arrived \in 0..Len(wire)
  /\ End(Len(frames)) \in 0..arrived
  /\ buffer = Piece(wire, End(Len(frames)), arrived)
  /\ Len(buffer) <= MaxBuffered

\* A step of the writer puts frames at the end of the stream, or nothing.
LEMMA StreamGrows ==
  ASSUME WriterInv, StreamInv, WriteFrame
  PROVE  StreamInv' /\ Len(written') = Len(written) + 1
         /\ (\A i \in 1..Len(written) : written'[i] = written[i])
         /\ (\A i \in 0..Len(ends) : End(i)' = End(i))
<1>0. PICK L \in Nat : L = Len(ends)
  BY LenProperties DEF StreamInv
<1>1. PICK frame \in Frames :
        /\ written' = Append(written, frame)
        /\ asked' = asked \o Encoding(frame)
        /\ ends' = Append(ends, Len(asked'))
  BY DEF WriteFrame
<1>2. asked \in Bytes /\ Encoding(frame) \in Bytes /\ writer = "idle"
  BY ConnectionAssumption DEF Bytes, WriterInv, WriterTypeOK, WriteFrame
<1>3. asked' \in Bytes /\ Len(asked') = Len(asked) + Len(Encoding(frame))
      /\ Len(asked) \in Nat /\ Len(Encoding(frame)) \in Nat /\ Len(asked') \in Nat
  <2>1. Len(asked) \in Nat /\ Len(Encoding(frame)) \in Nat
    BY <1>2, LenProperties DEF Bytes
  <2> QED BY <1>1, <1>2, <2>1, Join
<1>4. written \in Seq(Frames) /\ ends \in Seq(Nat) /\ Len(ends) = Len(written)
      /\ L \in Nat /\ End(L) = Len(asked)
  <2>1. written \in Seq(Frames) /\ ends \in Seq(Nat) /\ Len(ends) = Len(written)
        /\ End(L) = Len(asked)
    BY <1>0, <1>2 DEF StreamInv
  <2> QED BY <1>0, <2>1
<1>5. written' \in Seq(Frames) /\ Len(written') = L + 1
      /\ (\A i \in 1..L : written'[i] = written[i]) /\ written'[L + 1] = frame
  BY <1>0, <1>1, <1>4, AppendProperties
<1>6. ends' \in Seq(Nat) /\ Len(ends') = L + 1
      /\ (\A i \in 1..L : ends'[i] = ends[i]) /\ ends'[L + 1] = Len(asked')
  BY <1>0, <1>1, <1>3, <1>4, AppendProperties
<1>7. (\A i \in 0..L : End(i)' = End(i)) /\ End(L + 1)' = Len(asked')
  BY <1>4, <1>6 DEF End
<1>8. ASSUME NEW i \in 1..L
      PROVE  /\ End(i)' \in End(i - 1)'..Len(asked')
             /\ Piece(asked, End(i - 1), End(i))' = Encoding(written'[i])
  <2>1. End(i)' = End(i) /\ End(i - 1)' = End(i - 1)
    BY <1>4, <1>7
  <2>2. /\ End(i) \in End(i - 1)..Len(asked)
        /\ Piece(asked, End(i - 1), End(i)) = Encoding(written[i])
    BY <1>0 DEF StreamInv
  <2>3. End(i - 1) \in Nat
    <3>1. CASE i = 1
      BY <3>1 DEF End
    <3>2. CASE i # 1
      BY <1>0, <1>4, <3>2, ElementOfSeq DEF End
    <3> QED BY <3>1, <3>2
  <2>4. End(i - 1) \in 0..Len(asked) /\ End(i) \in End(i - 1)..Len(asked)
    BY <1>3, <2>2, <2>3
  <2>5. Piece(asked \o Encoding(frame), End(i - 1), End(i)) = Piece(asked, End(i - 1), End(i))
    BY <1>2, <2>4, PieceOfJoin
  <2>6. Piece(asked, End(i - 1), End(i))' = Piece(asked \o Encoding(frame), End(i - 1), End(i))
    BY <1>1, <2>1 DEF Piece
  <2>7. written'[i] = written[i]
    BY <1>5
  <2> QED BY <1>3, <2>1, <2>2, <2>4, <2>5, <2>6, <2>7
<1>9. /\ End(L + 1)' \in End(L)'..Len(asked')
      /\ Piece(asked, End(L), End(L + 1))' = Encoding(written'[L + 1])
  <2>1. End(L + 1)' = Len(asked') /\ End(L)' = Len(asked)
    BY <1>4, <1>7
  <2>2. Piece(asked, End(L), End(L + 1))' = After(asked \o Encoding(frame), Len(asked))
    BY <1>1, <2>1 DEF Piece, After
  <2>3. After(asked \o Encoding(frame), Len(asked)) = Encoding(frame)
    BY <1>2, Apart
  <2> QED BY <1>3, <1>5, <2>1, <2>2, <2>3
<1>10. \A i \in 1..Len(ends') :
         /\ End(i)' \in End(i - 1)'..Len(asked')
         /\ Piece(asked, End(i - 1), End(i))' = Encoding(written'[i])
  <2> SUFFICES ASSUME NEW i \in 1..(L + 1)
               PROVE  /\ End(i)' \in End(i - 1)'..Len(asked')
                      /\ Piece(asked, End(i - 1), End(i))' = Encoding(written'[i])
    BY <1>6
  <2>1. CASE i \in 1..L
    BY <1>8, <2>1
  <2>2. CASE i = L + 1
    <3>1. i - 1 = L
      BY <1>4, <2>2
    <3> QED BY <1>9, <2>2, <3>1
  <2> QED BY <1>4, <2>1, <2>2
<1>11. End(Len(ends))' = Len(asked')
  BY <1>6, <1>7
<1>12. After(asked, End(Len(ends)))' = <<>>
  <2>1. After(asked', Len(asked')) = <<>>
    BY <1>3, CutEnds
  <2> QED BY <1>11, <2>1 DEF After
<1> QED BY <1>3, <1>4, <1>5, <1>6, <1>7, <1>10, <1>11, <1>12, <1>0 DEF StreamInv

\* The tail is what comes after the last frame.
LEMMA TailEnds ==
  ASSUME WriterInv, StreamInv, WriteTail
  PROVE  StreamInv'
<1>0. PICK L \in Nat : L = Len(ends)
  BY LenProperties DEF StreamInv
<1>1. PICK tail \in Tails : asked' = asked \o tail
  BY DEF WriteTail
<1>2. asked \in Bytes /\ tail \in Bytes /\ writer = "idle" /\ writer' = "closed"
      /\ ends' = ends /\ written' = written
  BY ConnectionAssumption DEF Bytes, WriterInv, WriterTypeOK, WriteTail
<1>3. Len(asked) \in Nat /\ Len(tail) \in Nat /\ Len(asked') = Len(asked) + Len(tail)
  <2>1. Len(asked) \in Nat /\ Len(tail) \in Nat
    BY <1>2, LenProperties DEF Bytes
  <2> QED BY <1>1, <1>2, <2>1, Join
<1>4. ends \in Seq(Nat) /\ L \in Nat /\ End(L) = Len(asked)
  <2>1. ends \in Seq(Nat) /\ End(L) = Len(asked)
    BY <1>0, <1>2 DEF StreamInv
  <2> QED BY <1>0, <2>1
<1>5. ASSUME NEW i \in 1..L
      PROVE  /\ End(i) \in End(i - 1)..Len(asked')
             /\ Piece(asked', End(i - 1), End(i)) = Encoding(written[i])
  <2>1. /\ End(i) \in End(i - 1)..Len(asked)
        /\ Piece(asked, End(i - 1), End(i)) = Encoding(written[i])
    BY <1>0 DEF StreamInv
  <2>2. End(i - 1) \in Nat
    <3>1. CASE i = 1
      BY <3>1 DEF End
    <3>2. CASE i # 1
      BY <1>0, <1>4, <3>2, ElementOfSeq DEF End
    <3> QED BY <3>1, <3>2
  <2>3. End(i - 1) \in 0..Len(asked) /\ End(i) \in End(i - 1)..Len(asked)
    BY <1>3, <2>1, <2>2
  <2>4. Piece(asked \o tail, End(i - 1), End(i)) = Piece(asked, End(i - 1), End(i))
    BY <1>2, <2>3, PieceOfJoin
  <2> QED BY <1>1, <1>3, <2>1, <2>3, <2>4
<1>6. After(asked', End(L)) = tail
  <2>1. After(asked \o tail, Len(asked)) = tail
    BY <1>2, Apart
  <2> QED BY <1>1, <1>4, <2>1
<1>7. \A i : End(i)' = End(i)
  BY <1>2 DEF End
<1>8. End(L) \in 0..Len(asked')
  BY <1>3, <1>4
<1> QED BY <1>2, <1>5, <1>6, <1>7, <1>8, <1>0 DEF StreamInv, Piece, After

\* The bytes on the wire are the first of those that are to be written.
LEMMA WireIsPrefix ==
  ASSUME WriterInv
  PROVE  \E more \in Bytes : asked = wire \o more
<1>1. wire \in Bytes /\ rest \in Bytes /\ After(pending, flushed) \in Bytes
  BY Cut DEF WriterInv, WriterTypeOK
<1>2. asked = wire \o (After(pending, flushed) \o rest)
  BY <1>1, Regroup DEF WriterInv, WireInOrder
<1> QED BY <1>1, <1>2, Join

\* ... and the wire only grows.
LEMMA WireGrows ==
  ASSUME WriterInv, [Next]_vars
  PROVE  \E more \in Bytes : wire' = wire \o more
<1> USE DEF WriterInv, WriterTypeOK
<1>1. CASE UNCHANGED wire
  BY <1>1, Nothing, JoinNothing
<1>2. CASE WriteThrough
  <2>1. PICK n \in 1..Len(rest) : wire' = wire \o First(rest, n)
    BY <1>2 DEF WriteThrough
  <2>2. n \in 0..Len(rest)
    BY LenProperties DEF Bytes
  <2> QED BY <2>1, <2>2, Cut
<1>3. CASE Flush
  <2>1. PICK n \in 1..(Len(pending) - flushed) :
          wire' = wire \o SubSeq(pending, flushed + 1, flushed + n)
    BY <1>3 DEF Flush
  <2>2. flushed + n \in flushed..Len(pending)
    BY LenProperties DEF Bytes
  <2> QED BY <2>1, <2>2, CutAgain
<1>4. CASE WriteTail
  BY <1>4, ConnectionAssumption DEF WriteTail, Bytes
<1> QED BY <1>1, <1>2, <1>3, <1>4, ReadsOnly
        DEF Next, WriteOn, WriteFrame, Collect, WriteReturns, HangUp, Ended, vars, writeVars

\* The writer's steps do not disturb the reader.
LEMMA ReaderKeeps ==
  ASSUME WriterInv, StreamInv, ReaderInv, [Next]_vars, UNCHANGED readVars
  PROVE  ReaderInv'
<1>1. PICK more \in Bytes : wire' = wire \o more
  BY WireGrows
<1>2. wire \in Bytes /\ Len(wire) \in Nat /\ Len(more) \in Nat /\ Len(wire') = Len(wire) + Len(more)
  <2>1. wire \in Bytes
    BY DEF WriterInv, WriterTypeOK
  <2> QED BY <1>1, <2>1, Join, LenProperties DEF Bytes
<1>3. PICK k \in Nat : k = Len(frames) /\ k <= Len(ends) /\ Len(ends) = Len(written)
  BY LenProperties DEF ReaderInv, StreamInv
<1>4. Len(written) \in Nat /\ Len(written') \in Nat
      /\ Len(written') >= Len(written)
      /\ (\A i \in 1..Len(written) : written'[i] = written[i])
      /\ End(k)' = End(k)
  <2>1. Len(written) \in Nat
    BY LenProperties DEF StreamInv
  <2>2. CASE WriteFrame
    BY <1>3, <2>1, <2>2, StreamGrows
  <2>3. CASE UNCHANGED <<written, ends>>
    BY <2>1, <2>3 DEF End
  <2> QED BY <2>2, <2>3, ReadsOnly
          DEF Next, WriteOn, Collect, WriteThrough, Flush, WriteReturns, HangUp, WriteTail,
              Ended, vars, history
<1>5. arrived \in 0..Len(wire) /\ End(k) \in 0..arrived
  BY <1>3 DEF ReaderInv
<1>6. Piece(wire', End(k), arrived) = Piece(wire, End(k), arrived)
  <2>1. End(k) \in 0..Len(wire) /\ arrived \in End(k)..Len(wire)
    BY <1>2, <1>5
  <2> QED BY <1>1, <1>2, <2>1, PieceOfJoin
<1>7. UNCHANGED <<arrived, buffer, frames>>
  BY DEF readVars
<1>8. \A i \in 1..Len(frames) : frames[i] = written'[i]
  BY <1>3, <1>4 DEF ReaderInv
<1>9. arrived' \in 0..Len(wire') /\ End(Len(frames))' = End(k) /\ Len(frames') <= Len(written')
  <2>1. End(Len(frames))' = End(k)'
    BY <1>3, <1>7 DEF End
  <2> QED BY <1>2, <1>3, <1>4, <1>5, <1>7, <2>1
<1>10. buffer' = Piece(wire, End(Len(frames)), arrived)'
  <2>1. buffer = Piece(wire, End(k), arrived)
    BY <1>3 DEF ReaderInv
  <2> QED BY <1>6, <1>7, <1>9, <2>1 DEF Piece
<1> QED BY <1>5, <1>7, <1>8, <1>9, <1>10 DEF ReaderInv

\* A read adds the next piece of the wire to the buffer.
LEMMA ReadStep ==
  ASSUME WriterInv, StreamInv, ReaderInv, Read
  PROVE  ReaderInv'
<1>1. PICK n \in 1..(Len(wire) - arrived) :
        /\ Len(buffer) + n <= MaxBuffered
        /\ buffer' = buffer \o Piece(wire, arrived, arrived + n)
        /\ arrived' = arrived + n
  BY DEF Read, Piece
<1>2. UNCHANGED <<written, ends, wire, frames>>
  BY DEF Read, history, writeVars
<1>3. wire \in Bytes /\ Len(wire) \in Nat
  BY LenProperties DEF WriterInv, WriterTypeOK, Bytes
<1>4. PICK e \in Nat : e = End(Len(frames)) /\ e \in 0..arrived
  BY DEF ReaderInv
<1>5. arrived \in 0..Len(wire) /\ buffer = Piece(wire, e, arrived)
  BY <1>4 DEF ReaderInv
<1>6. e \in 0..Len(wire) /\ arrived \in e..Len(wire) /\ arrived + n \in arrived..Len(wire)
      /\ arrived + n \in e..Len(wire)
  BY <1>3, <1>4, <1>5
<1>7. buffer' = Piece(wire, e, arrived + n)
  BY <1>1, <1>3, <1>5, <1>6, Pieces
<1>8. Len(buffer) = arrived - e /\ Len(buffer') = arrived + n - e
  <2>1. Len(Piece(wire, e, arrived)) = arrived - e
    BY <1>3, <1>6, Pieces
  <2>2. Len(Piece(wire, e, arrived + n)) = arrived + n - e
    BY <1>3, <1>6, Pieces
  <2> QED BY <1>5, <1>7, <2>1, <2>2
<1>9. End(Len(frames))' = e
  BY <1>2, <1>4 DEF End
<1>10. Len(buffer') <= MaxBuffered
  BY <1>1, <1>4, <1>5, <1>8, ConnectionAssumption
<1>11. arrived' \in 0..Len(wire') /\ e \in 0..arrived'
  BY <1>1, <1>2, <1>3, <1>4, <1>6
<1>12. buffer' = Piece(wire, End(Len(frames)), arrived)'
  BY <1>1, <1>2, <1>7, <1>9 DEF Piece
<1> QED BY <1>2, <1>9, <1>10, <1>11, <1>12 DEF ReaderInv

\* What is delivered is the next frame that was written, and what stays is
\* what came after it.
LEMMA DeliverStep ==
  ASSUME Codec, WriterInv, StreamInv, ReaderInv, Deliver
  PROVE  ReaderInv'
<1>1. PICK k \in Nat, C \in Nat : k = Len(frames) /\ C = End(k)
  BY LenProperties DEF ReaderInv
<1>2. PICK more \in Bytes : asked = wire \o more
  BY WireIsPrefix
<1>3. /\ wire \in Bytes /\ asked \in Bytes /\ Len(wire) \in Nat /\ Len(asked) \in Nat
      /\ Len(wire) <= Len(asked)
  <2>1. wire \in Bytes /\ asked \in Bytes
    BY DEF WriterInv, WriterTypeOK
  <2>2. Len(wire) \in Nat /\ Len(more) \in Nat /\ Len(asked) = Len(wire) + Len(more)
    BY <1>2, <2>1, Join, LenProperties DEF Bytes
  <2> QED BY <2>1, <2>2
<1>4. C \in 0..arrived /\ arrived \in 0..Len(wire) /\ k <= Len(written)
      /\ buffer = Piece(wire, C, arrived) /\ frames \in Seq(Frames)
  BY <1>1 DEF ReaderInv
<1>5. C \in 0..Len(asked) /\ arrived \in C..Len(asked)
      /\ C \in 0..Len(wire) /\ arrived \in C..Len(wire)
  BY <1>3, <1>4
<1>6. buffer = Piece(asked, C, arrived)
  BY <1>2, <1>3, <1>4, <1>5, PieceOfJoin
<1>7. /\ Decoded(buffer).verdict = "ok"
      /\ frames' = Append(frames, Decoded(buffer).value)
      /\ buffer' = After(buffer, Decoded(buffer).next - 1)
      /\ UNCHANGED <<written, ends, wire, arrived>>
  BY DEF Deliver, history, writeVars
<1>8. Len(ends) = Len(written) /\ Len(ends) \in Nat /\ written \in Seq(Frames)
  BY LenProperties DEF StreamInv
<1>9. CASE k = Len(written)
  <2>1. PICK tail \in Tails \cup {<<>>} : tail = Piece(asked, C, Len(asked))
    BY <1>1, <1>8, <1>9 DEF StreamInv, Piece, After
  <2>2. Len(asked) \in arrived..Len(asked) /\ Len(asked) \in C..Len(asked)
        /\ Len(asked) \in Len(asked)..Len(asked)
    BY <1>3, <1>5
  <2>3. First(tail, arrived - C) = buffer /\ Len(tail) = Len(asked) - C
    <3>1. First(Piece(asked, C, Len(asked)), arrived - C) = Piece(asked, C, arrived)
          /\ Len(Piece(asked, C, Len(asked))) = Len(asked) - C
      BY ONLY <1>3, <1>5, <2>2, Pieces
    <3> QED BY ONLY <1>6, <2>1, <3>1
  <2>4. arrived - C \in 0..Len(tail)
    BY <1>3, <1>5, <2>3
  <2>5. Decoded(First(tail, arrived - C)).verdict # "ok"
    BY <2>4 DEF Codec, TailsAreNoFrames
  <2> QED BY <1>7, <2>3, <2>5
<1>10. CASE k < Len(written)
  <2>1. PICK D \in Nat : D = End(k + 1)
    BY <1>1, <1>8, <1>10, ElementOfSeq DEF End, StreamInv
  <2>2. PICK frame \in Frames : frame = written[k + 1]
    BY <1>1, <1>8, <1>10, ElementOfSeq
  <2>3. D \in C..Len(asked) /\ Piece(asked, C, D) = Encoding(frame)
    <3>1. k + 1 \in 1..Len(ends) /\ (k + 1) - 1 = k
      BY <1>1, <1>8, <1>10
    <3>2. /\ End(k + 1) \in End((k + 1) - 1)..Len(asked)
          /\ Piece(asked, End((k + 1) - 1), End(k + 1)) = Encoding(written[k + 1])
      BY <3>1 DEF StreamInv
    <3> QED BY <1>1, <2>1, <2>2, <3>1, <3>2
  <2>4. Len(asked) \in D..Len(asked) /\ Len(Encoding(frame)) = D - C
    <3>1. Len(asked) \in D..Len(asked)
      BY <1>3, <2>3
    <3>2. Len(Piece(asked, C, D)) = D - C
      BY <1>3, <1>5, <2>3, <3>1, Pieces
    <3> QED BY <2>3, <3>1, <3>2
  <2>5. CASE arrived < D
    <3>1. D \in arrived..Len(asked)
      BY <1>3, <1>5, <2>3, <2>5
    <3>2. First(Encoding(frame), arrived - C) = buffer
      BY ONLY <1>3, <1>5, <1>6, <2>3, <3>1, Pieces
    <3>3. arrived - C \in 0..(Len(Encoding(frame)) - 1)
      BY <1>5, <2>3, <2>4, <2>5
    <3>4. Decoded(First(Encoding(frame), arrived - C)).verdict = "Incomplete"
      BY <3>3 DEF Codec, PartsAreIncomplete
    <3> QED BY <1>7, <3>2, <3>4
  <2>6. CASE D <= arrived
    <3>1. arrived \in D..Len(asked) /\ D \in 0..Len(asked) /\ D \in 0..Len(wire)
          /\ arrived \in D..Len(wire)
      BY <1>3, <1>5, <2>3, <2>6
    <3>2. /\ buffer = Encoding(frame) \o Piece(asked, D, arrived)
          /\ After(buffer, D - C) = Piece(asked, D, arrived)
      <4>1. /\ Piece(asked, C, arrived) = Piece(asked, C, D) \o Piece(asked, D, arrived)
            /\ After(Piece(asked, C, arrived), D - C) = Piece(asked, D, arrived)
        BY ONLY <1>3, <1>5, <2>3, <3>1, Pieces
      <4> QED BY ONLY <1>6, <2>3, <4>1
    <3>3. Piece(asked, D, arrived) = Piece(wire, D, arrived)
          /\ Piece(asked, D, arrived) \in Bytes /\ Len(Piece(asked, D, arrived)) = arrived - D
      <4>1. Piece(asked, D, arrived) = Piece(wire, D, arrived)
        BY <1>2, <1>3, <3>1, PieceOfJoin
      <4>2. arrived \in arrived..Len(asked)
        BY <3>1
      <4> QED BY <1>3, <3>1, <4>1, <4>2, Pieces
    <3>4. Decoded(buffer).value = frame /\ Decoded(buffer).next = Len(Encoding(frame)) + 1
      BY <3>2, <3>3 DEF Codec, RecognisedBefore, Bytes
    <3>5. frames' = Append(frames, frame) /\ buffer' = Piece(wire, D, arrived)
      <4>1. Decoded(buffer).next - 1 = D - C
        BY <2>4, <3>4
      <4> QED BY <1>7, <3>2, <3>3, <3>4, <4>1
    <3>6. frames' \in Seq(Frames) /\ Len(frames') = k + 1
          /\ (\A i \in 1..k : frames'[i] = frames[i]) /\ frames'[k + 1] = frame
      BY <1>1, <1>4, <3>5, AppendProperties
    <3>7. \A i \in 1..Len(frames') : frames'[i] = written'[i]
      <4>1. \A i \in 1..k : frames[i] = written[i]
        BY <1>1 DEF ReaderInv
      <4> QED BY <1>1, <1>7, <2>2, <3>6, <4>1
    <3>8. End(Len(frames))' = D
      BY <1>7, <2>1, <3>6 DEF End
    <3>9. Len(buffer') <= MaxBuffered
      <4>1. Len(buffer) = arrived - C /\ Len(buffer') = arrived - D
        <5>1. Len(asked) \in arrived..Len(asked)
          BY <1>3, <1>5
        <5> QED BY <1>3, <1>5, <1>6, <3>3, <3>5, <5>1, Pieces
      <4>2. Len(buffer) <= MaxBuffered
        BY DEF ReaderInv
      <4> QED BY <1>4, <1>5, <2>3, <4>1, <4>2, ConnectionAssumption
    <3>10. buffer' = Piece(wire, End(Len(frames)), arrived)'
      BY <1>7, <3>5, <3>8 DEF Piece
    <3>11. arrived' \in 0..Len(wire') /\ End(Len(frames))' \in 0..arrived'
           /\ Len(frames') <= Len(written')
      BY <1>3, <1>4, <1>7, <1>8, <1>10, <2>6, <3>6, <3>8
    <3> QED BY <3>6, <3>7, <3>9, <3>10, <3>11 DEF ReaderInv
  <2> QED BY <1>4, <1>5, <2>5, <2>6
<1> QED BY <1>1, <1>4, <1>8, <1>9, <1>10

\* Both ends together.
THEOREM BothEnds == Codec => (Spec => [](StreamInv /\ ReaderInv))
<1> SUFFICES ASSUME Codec PROVE Spec => [](StreamInv /\ ReaderInv)
  OBVIOUS
<1>1. Init => StreamInv /\ ReaderInv
  <2> SUFFICES ASSUME Init PROVE StreamInv /\ ReaderInv
    OBVIOUS
  <2>1. <<>> \in Seq(Frames) /\ <<>> \in Seq(Nat) /\ Len(<<>>) = 0
    BY EmptySeq
  <2>2. written = <<>> /\ ends = <<>> /\ asked = <<>> /\ wire = <<>> /\ frames = <<>>
        /\ arrived = 0 /\ buffer = <<>>
    BY DEF Init
  <2>3. End(Len(ends)) = 0 /\ End(Len(frames)) = 0
    BY <2>1, <2>2 DEF End
  <2>4. StreamInv
    BY <2>1, <2>2, <2>3, Nothing DEF StreamInv
  <2>5. Piece(wire, 0, 0) = <<>>
    BY SubSeqEmpty DEF Piece
  <2> QED BY <2>1, <2>2, <2>3, <2>4, <2>5, ConnectionAssumption DEF ReaderInv
<1>2. ASSUME WriterInv, StreamInv, ReaderInv, [Next]_vars PROVE StreamInv' /\ ReaderInv'
  <2> USE <1>2
  <2>1. StreamInv'
    <3>1. CASE WriteFrame
      BY <3>1, StreamGrows
    <3>2. CASE WriteTail
      BY <3>2, TailEnds
    <3>3. CASE UNCHANGED history /\ (writer' # "closed" => writer # "closed")
      BY <3>3 DEF StreamInv, End, Piece, After, history
    <3> QED BY <3>1, <3>2, <3>3, ReadsOnly
            DEF Next, WriteOn, Collect, WriteThrough, Flush, WriteReturns, HangUp,
                Ended, vars, writeVars
  <2>2. ReaderInv'
    <3>1. CASE UNCHANGED readVars
      BY <3>1, ReaderKeeps
    <3>2. CASE UNCHANGED <<history, writeVars, arrived, buffer, frames>>
      BY <3>2 DEF ReaderInv, End, Piece, history, writeVars
    <3>3. CASE Read
      BY <3>3, ReadStep
    <3>4. CASE Deliver
      BY <3>4, DeliverStep
    <3> QED BY <3>1, <3>2, <3>3, <3>4
            DEF Next, WriteFrame, WriteOn, Collect, WriteThrough, Flush, WriteReturns, HangUp,
                WriteTail, ReadOn, RejectInput, RefuseFrame, ReadEnd, ReadFails, Ended, vars
  <2> QED BY <2>1, <2>2
<1> QED BY <1>1, <1>2, WriterInvariant, PTL DEF Spec

\* For any code whose encodings are recognised whole and never from a part, and
\* from no tail, the read buffer is exactly what arrived and was not returned.
THEOREM BufferCorrect == Codec => (Spec => []BufferIsTheUnread)
<1> SUFFICES ASSUME Codec PROVE Spec => []BufferIsTheUnread
  OBVIOUS
<1>1. StreamInv /\ ReaderInv => BufferIsTheUnread
  <2> SUFFICES ASSUME StreamInv, ReaderInv PROVE BufferIsTheUnread
    OBVIOUS
  <2>1. Consumed = End(Len(frames))
    BY EmptySeq, LenProperties DEF Consumed, End, ReaderInv
  <2> QED BY <2>1 DEF ReaderInv, StreamInv, BufferIsTheUnread, Piece
<1> QED BY <1>1, BothEnds, PTL

\* ... and the frames returned are the first of those written.
LEMMA FirstFrames ==
  ASSUME StreamInv, ReaderInv
  PROVE  frames = SubSeq(written, 1, Len(frames))
<1>1. PICK n \in Nat : n = Len(frames) /\ n <= Len(written)
  BY LenProperties DEF ReaderInv
<1>2. \A i \in 1..n : written[i] \in Frames /\ frames[i] = written[i]
  BY <1>1, LenProperties, ElementOfSeq DEF ReaderInv, StreamInv
<1>3. /\ SubSeq(written, 1, n) \in Seq(Frames) /\ Len(SubSeq(written, 1, n)) = n
      /\ \A i \in 1..n : SubSeq(written, 1, n)[i] = written[i]
  BY <1>2, SubSeqProperties, 1 \in Int, n \in Int
<1> QED BY <1>1, <1>2, <1>3, SeqEqual DEF ReaderInv

-----------------------------------------------------------------------------
(* How reading ends                                                        *)

\* The reader's place, k frames read of those that end at the positions of ends:
\* what it holds, and what it could still get, are pieces of the stream.
LEMMA ReaderPlace ==
  ASSUME WriterInv, StreamInv, ReaderInv, NEW k, k = Len(frames), NEW C, C = End(k)
  PROVE  /\ k \in Nat /\ Len(ends) \in Nat /\ Len(ends) = Len(written) /\ k <= Len(ends)
         /\ C \in Nat /\ arrived \in Nat /\ Len(wire) \in Nat /\ Len(asked) \in Nat
         /\ C <= arrived /\ arrived <= Len(wire) /\ Len(wire) <= Len(asked)
         /\ asked \in Bytes /\ buffer \in Bytes
         /\ buffer = Piece(asked, C, arrived) /\ Len(buffer) = arrived - C
         /\ After(wire, C) = Piece(asked, C, Len(wire))
         /\ Len(After(wire, C)) = Len(wire) - C
<1>1. PICK more \in Bytes : asked = wire \o more
  BY WireIsPrefix
<1>2. wire \in Bytes /\ asked \in Bytes /\ Len(wire) \in Nat
  BY LenProperties DEF WriterInv, WriterTypeOK, Bytes
<1>3. Len(more) \in Nat /\ Len(asked) = Len(wire) + Len(more)
  BY <1>1, <1>2, Join, LenProperties DEF Bytes
<1>4. k \in Nat /\ Len(ends) \in Nat /\ Len(ends) = Len(written) /\ k <= Len(written)
  BY LenProperties DEF StreamInv, ReaderInv
<1>5. arrived \in 0..Len(wire) /\ C \in 0..arrived /\ buffer = Piece(wire, C, arrived)
  BY DEF ReaderInv
<1>6. C \in 0..Len(wire) /\ arrived \in C..Len(wire) /\ Len(wire) \in C..Len(wire)
      /\ Len(wire) \in arrived..Len(wire) /\ Len(wire) \in Len(wire)..Len(wire)
  BY <1>2, <1>5
<1>7. Piece(asked, C, arrived) = Piece(wire, C, arrived)
      /\ Piece(asked, C, Len(wire)) = Piece(wire, C, Len(wire))
  BY <1>1, <1>2, <1>6, PieceOfJoin
<1>8. Piece(wire, C, arrived) \in Bytes /\ Len(Piece(wire, C, arrived)) = arrived - C
      /\ Len(Piece(wire, C, Len(wire))) = Len(wire) - C
  BY <1>2, <1>6, Pieces
<1>9. After(wire, C) = Piece(wire, C, Len(wire))
  BY DEF After, Piece
<1> QED BY <1>2, <1>3, <1>4, <1>5, <1>6, <1>7, <1>8, <1>9

\* Before the end of a frame the buffer is too short to tell, and from there on
\* it shows the frame.
LEMMA InsideFrame ==
  ASSUME Codec, WriterInv, StreamInv, ReaderInv,
         NEW k, k = Len(frames), NEW C, C = End(k), k < Len(ends),
         NEW D, D = ends[k + 1]
  PROVE  /\ D \in Nat /\ Len(Encoding(written[k + 1])) = D - C
         /\ arrived < D => Decoded(buffer).verdict = "Incomplete"
         /\ D <= arrived => Decoded(buffer).verdict = "ok"
<1>1. /\ k \in Nat /\ Len(ends) \in Nat /\ Len(ends) = Len(written)
      /\ C \in Nat /\ arrived \in Nat /\ Len(asked) \in Nat
      /\ C <= arrived /\ arrived <= Len(asked)
      /\ asked \in Bytes /\ buffer = Piece(asked, C, arrived)
  BY ReaderPlace
<1>2. k + 1 \in 1..Len(ends) /\ (k + 1) - 1 = k /\ End(k + 1) = D
  BY <1>1 DEF End
<1>3. PICK frame \in Frames : frame = written[k + 1]
  BY <1>1, <1>2, ElementOfSeq DEF StreamInv
<1>4. D \in C..Len(asked) /\ Piece(asked, C, D) = Encoding(frame)
  <2>1. /\ End(k + 1) \in End((k + 1) - 1)..Len(asked)
        /\ Piece(asked, End((k + 1) - 1), End(k + 1)) = Encoding(written[k + 1])
    BY <1>2 DEF StreamInv
  <2> QED BY <1>2, <1>3, <2>1
<1>5. D \in Nat /\ Len(Encoding(frame)) = D - C
  <2>1. C \in 0..Len(asked) /\ Len(asked) \in D..Len(asked)
    BY <1>1, <1>4
  <2>2. Len(Piece(asked, C, D)) = D - C
    BY <1>1, <1>4, <2>1, Pieces
  <2> QED BY <1>1, <1>4, <2>2
<1>6. CASE arrived < D
  <2>1. C \in 0..Len(asked) /\ arrived \in C..Len(asked) /\ D \in arrived..Len(asked)
    BY <1>1, <1>4, <1>5, <1>6
  <2>2. First(Encoding(frame), arrived - C) = buffer
    BY ONLY <1>1, <1>4, <2>1, Pieces
  <2>3. arrived - C \in 0..((D - C) - 1)
    BY ONLY <1>1, <1>5, <1>6
  <2>4. Decoded(First(Encoding(frame), arrived - C)).verdict = "Incomplete"
    BY <1>5, <2>3 DEF Codec, PartsAreIncomplete
  <2> QED BY <1>1, <1>3, <1>5, <1>6, <2>2, <2>4
<1>7. CASE D <= arrived
  <2>1. C \in 0..Len(asked) /\ arrived \in D..Len(asked) /\ D \in 0..Len(asked)
        /\ arrived \in arrived..Len(asked)
    BY <1>1, <1>4, <1>5, <1>7
  <2>2. Piece(asked, C, arrived) = Piece(asked, C, D) \o Piece(asked, D, arrived)
    BY ONLY <1>1, <1>4, <2>1, Pieces
  <2>3. Piece(asked, D, arrived) \in Bytes
    BY ONLY <1>1, <2>1, Pieces
  <2>4. Decoded(Encoding(frame) \o Piece(asked, D, arrived)).verdict = "ok"
    BY <2>3 DEF Codec, RecognisedBefore, Bytes
  <2> QED BY <1>1, <1>3, <1>4, <1>5, <1>7, <2>2, <2>4
<1> QED BY <1>1, <1>5, <1>6, <1>7

\* Behind the last frame the buffer, and all that is on the wire, are parts of
\* the tail, which is empty as long as the writer may go on.
LEMMA InsideTail ==
  ASSUME WriterInv, StreamInv, ReaderInv,
         NEW k, k = Len(frames), NEW C, C = End(k), k = Len(ends)
  PROVE  \E tail \in Tails \cup {<<>>} :
           /\ Len(tail) \in Nat
           /\ Len(buffer) \in 0..Len(tail) /\ buffer = First(tail, Len(buffer))
           /\ Len(wire) - C \in Len(buffer)..Len(tail)
           /\ After(wire, C) = First(tail, Len(wire) - C)
           /\ writer # "closed" => tail = <<>>
<1>1. /\ C \in Nat /\ arrived \in Nat /\ Len(wire) \in Nat /\ Len(asked) \in Nat
      /\ C <= arrived /\ arrived <= Len(wire) /\ Len(wire) <= Len(asked)
      /\ asked \in Bytes
      /\ buffer = Piece(asked, C, arrived) /\ Len(buffer) = arrived - C
      /\ After(wire, C) = Piece(asked, C, Len(wire))
  BY ReaderPlace
<1>2. PICK tail \in Tails \cup {<<>>} : tail = Piece(asked, C, Len(asked))
  BY DEF StreamInv, Piece, After
<1>3. C \in 0..Len(asked) /\ arrived \in C..Len(asked) /\ Len(wire) \in C..Len(asked)
      /\ Len(asked) \in C..Len(asked) /\ Len(asked) \in arrived..Len(asked)
      /\ Len(asked) \in Len(wire)..Len(asked) /\ Len(asked) \in Len(asked)..Len(asked)
  BY <1>1
<1>4. Len(tail) = Len(asked) - C
  BY ONLY <1>1, <1>2, <1>3, Pieces
<1>5. buffer = First(tail, arrived - C) /\ After(wire, C) = First(tail, Len(wire) - C)
  BY ONLY <1>1, <1>2, <1>3, Pieces
<1>6. writer # "closed" => tail = <<>>
  <2> SUFFICES ASSUME writer # "closed" PROVE tail = <<>>
    OBVIOUS
  <2>1. C = Len(asked)
    BY DEF StreamInv
  <2>2. SubSeq(asked, Len(asked) + 1, Len(asked)) = <<>>
    BY <1>1, CutEnds DEF After
  <2> QED BY <1>2, <2>1, <2>2 DEF Piece
<1>7. Len(buffer) \in 0..Len(tail) /\ Len(wire) - C \in Len(buffer)..Len(tail)
      /\ Len(tail) \in Nat
  <2> DEFINE b == Len(buffer)  w == Len(wire)  a == Len(asked)  t == Len(tail)
  <2>1. /\ C \in Nat /\ arrived \in Nat /\ w \in Nat /\ a \in Nat
        /\ C <= arrived /\ arrived <= w /\ w <= a /\ b = arrived - C /\ t = a - C
    BY <1>1, <1>4
  <2> HIDE DEF b, w, a, t
  <2>2. b \in 0..t /\ w - C \in b..t /\ t \in Nat
    BY ONLY <2>1
  <2> QED BY <2>2 DEF b, w, t
<1> QED BY <1>1, <1>5, <1>6, <1>7

\* Counting the frames that can be read: k of them, if these fit and the next,
\* if there is one, does not.
LEMMA ReadableCounts ==
  ASSUME NEW k \in Nat, Len(ends) \in Nat, ends \in Seq(Nat), k <= Len(ends),
         \A i \in 1..k : Fits(i)
  PROVE  k <= Readable /\ ((k < Len(ends) => ~Fits(k + 1)) => Readable = k)
<1> DEFINE S == {n \in DOMAIN ends : \A i \in 1..n : Fits(i)}
<1>1. DOMAIN ends = 1..Len(ends)
  BY LenProperties
<1>2. IsFiniteSet(S) /\ Cardinality(S) \in Nat
  <2>1. IsFiniteSet(1..Len(ends)) /\ S \subseteq 1..Len(ends)
    BY <1>1, FS_Interval
  <2> QED BY <2>1, FS_Subset, FS_CardinalityType
<1>3. IsFiniteSet(1..k) /\ Cardinality(1..k) = k
  BY FS_Interval
<1>4. 1..k \subseteq S
  BY <1>1
<1>5. k <= Cardinality(S)
  BY <1>2, <1>3, <1>4, FS_Subset
<1>6. ASSUME k < Len(ends) => ~Fits(k + 1) PROVE S = 1..k
  <2> SUFFICES ASSUME NEW n \in S PROVE n \in 1..k
    BY <1>4
  <2>1. n \in 1..Len(ends) /\ \A i \in 1..n : Fits(i)
    BY <1>1
  <2>2. ~(k < n)
    <3> SUFFICES ASSUME k < n PROVE FALSE
      OBVIOUS
    <3>1. k + 1 \in 1..n /\ k < Len(ends)
      BY <2>1
    <3> QED BY <1>6, <2>1, <3>1
  <2> QED BY <2>1, <2>2
<1> QED BY <1>3, <1>5, <1>6 DEF Readable

\* A frame that is on the wire stays there, and one that is not comes only from
\* a writer that is not closed.
LEMMA FitsStays ==
  ASSUME WriterInv, StreamInv, [Next]_vars, NEW i \in 1..Len(ends)
  PROVE  /\ i \in 1..Len(ends') /\ ends'[i] = ends[i] /\ written'[i] = written[i]
         /\ Fits(i) => Fits(i)'
         /\ wire' = wire => (Fits(i)' => Fits(i))
<1>1. PICK L \in Nat : L = Len(ends) /\ L = Len(written) /\ ends \in Seq(Nat)
  BY LenProperties DEF StreamInv
<1>2. i \in 1..Len(ends') /\ ends'[i] = ends[i] /\ written'[i] = written[i]
  <2>1. CASE WriteFrame
    <3>1. StreamInv' /\ Len(written') = L + 1 /\ written'[i] = written[i] /\ End(i)' = End(i)
      BY <1>1, <2>1, StreamGrows
    <3>2. Len(ends') = L + 1
      BY <3>1 DEF StreamInv
    <3> QED BY <1>1, <3>1, <3>2 DEF End
  <2>2. CASE UNCHANGED <<written, ends>>
    BY <2>2
  <2> QED BY <2>1, <2>2, ReadsOnly
          DEF Next, WriteOn, Collect, WriteThrough, Flush, WriteReturns, HangUp, WriteTail,
              Ended, vars, history
<1>3. Len(wire) \in Nat /\ Len(wire') \in Nat /\ Len(wire) <= Len(wire')
  <2>1. PICK more \in Bytes : wire' = wire \o more
    BY WireGrows
  <2>2. wire \in Bytes /\ Len(wire) \in Nat /\ Len(more) \in Nat
    BY LenProperties DEF WriterInv, WriterTypeOK, Bytes
  <2> QED BY <2>1, <2>2, Join
<1>4. ends[i] \in Nat
  BY <1>1, ElementOfSeq
<1>5. Fits(i) => Fits(i)'
  BY <1>2, <1>3, <1>4 DEF Fits
<1>6. wire' = wire => (Fits(i)' => Fits(i))
  BY <1>2 DEF Fits
<1> QED BY <1>2, <1>5, <1>6

\* Nothing comes any more that the reader could still read: the writer is done
\* and the next frame is not on the wire, or too large, or there is none; or the
\* next frame is too large, whether all of it is written or not.
NothingFollows ==
  LET k == Len(frames)
  IN  \/ writer = "closed" /\ (k < Len(ends) => ~Fits(k + 1))
      \/ k < Len(ends) /\ Len(Encoding(written[k + 1])) > MaxBuffered

\* What each end of reading says of the buffer, which does not change after it.
EndInv ==
  /\ outcome \in {"reading", "Failed", "Invalid", "TooLarge", "EndOfInput", "Truncated"}
  /\ \A i \in 1..Len(frames) : Fits(i)
  /\ outcome \notin {"reading", "Failed"} => NothingFollows
  /\ outcome = "Invalid" =>
       Decoded(buffer).verdict = "Other" /\ Len(frames) = Len(ends)
  /\ outcome = "TooLarge" =>
       Decoded(buffer).verdict = "Incomplete" /\ Len(buffer) = MaxBuffered
  /\ outcome \in {"EndOfInput", "Truncated"} =>
       /\ Decoded(buffer).verdict = "Incomplete" /\ Len(buffer) < MaxBuffered
       /\ writer = "closed" /\ arrived = Len(wire)
       /\ outcome = "EndOfInput" <=> buffer = <<>>

\* What ends does not go on: steps of the writer leave all this as it is.
LEMMA EndStays ==
  ASSUME WriterInv, StreamInv, ReaderInv, EndInv, [Next]_vars, UNCHANGED readVars
  PROVE  EndInv'
<1>1. PICK k \in Nat, L \in Nat : k = Len(frames) /\ L = Len(ends) /\ k <= L
  BY LenProperties DEF ReaderInv, StreamInv
<1>2. UNCHANGED <<arrived, buffer, frames, outcome>>
  BY DEF readVars
<1>3. writer = "closed" => writer' = "closed" /\ UNCHANGED <<written, ends, wire>>
  BY ReadsOnly
     DEF Next, WriteFrame, WriteOn, Collect, WriteThrough, Flush, WriteReturns, HangUp,
         WriteTail, Ended, vars, history, writeVars
<1>4. \A i \in 1..k : Fits(i)'
  BY <1>1, FitsStays DEF EndInv
<1>5. NothingFollows => NothingFollows'
  <2>1. CASE writer = "closed" /\ (k < L => ~Fits(k + 1))
    <3>1. k < L => ~(Fits(k + 1)')
      BY <1>3, <2>1 DEF Fits
    <3>2. writer' = "closed" /\ Len(ends)' = L /\ Len(frames)' = k
      BY <1>1, <1>2, <1>3, <2>1
    <3> QED BY <3>1, <3>2 DEF NothingFollows, Fits
  <2>2. CASE k < L /\ Len(Encoding(written[k + 1])) > MaxBuffered
    <3>1. k + 1 \in 1..L
      BY <1>1, <2>2
    <3>2. k + 1 \in 1..Len(ends') /\ written'[k + 1] = written[k + 1]
      BY <1>1, <3>1, FitsStays
    <3>3. Len(frames)' = k /\ k < Len(ends)'
      <4>1. CASE WriteFrame
        <5>1. Len(ends') = L + 1
          BY <1>1, <4>1, StreamGrows DEF StreamInv
        <5> QED BY <1>1, <1>2, <2>2, <5>1
      <4>2. CASE UNCHANGED ends
        BY <1>1, <1>2, <2>2, <4>2
      <4> QED BY <4>1, <4>2, ReadsOnly
              DEF Next, WriteOn, Collect, WriteThrough, Flush, WriteReturns, HangUp,
                  WriteTail, Ended, vars, history
    <3> QED BY <2>2, <3>2, <3>3 DEF NothingFollows
  <2> QED BY <1>1, <2>1, <2>2 DEF NothingFollows
<1>6. \A i \in 1..Len(frames') : Fits(i)'
  BY <1>1, <1>2, <1>4
<1>7. outcome' = "Invalid" => Decoded(buffer').verdict = "Other" /\ Len(frames') = Len(ends')
  <2> SUFFICES ASSUME outcome = "Invalid"
               PROVE  Decoded(buffer).verdict = "Other" /\ Len(frames) = Len(ends')
    BY <1>2
  <2>1. NothingFollows /\ k = L /\ Decoded(buffer).verdict = "Other"
    BY <1>1 DEF EndInv
  <2>2. writer = "closed"
    BY <1>1, <2>1 DEF NothingFollows
  <2> QED BY <1>1, <1>3, <2>1, <2>2
<1> QED BY <1>2, <1>3, <1>5, <1>6, <1>7 DEF EndInv

\* A frame is returned when all of it is in the buffer.
LEMMA DeliverFits ==
  ASSUME Codec, WriterInv, StreamInv, ReaderInv, EndInv, Deliver
  PROVE  EndInv'
<1>1. PICK k \in Nat, C \in Nat : k = Len(frames) /\ C = End(k)
  BY LenProperties DEF ReaderInv
<1>2. /\ Len(ends) \in Nat /\ k <= Len(ends) /\ arrived \in Nat /\ Len(wire) \in Nat
      /\ C <= arrived /\ arrived <= Len(wire) /\ Len(buffer) = arrived - C
  BY <1>1, ReaderPlace
<1>3. /\ outcome = "reading" /\ outcome' = "reading"
      /\ Decoded(buffer).verdict = "ok"
      /\ frames' = Append(frames, Decoded(buffer).value)
      /\ UNCHANGED <<written, ends, wire>>
  BY DEF Deliver, history, writeVars
<1>4. k < Len(ends)
  <2> SUFFICES ASSUME k = Len(ends) PROVE FALSE
    BY <1>1, <1>2
  <2>1. PICK tail \in Tails \cup {<<>>} :
          Len(buffer) \in 0..Len(tail) /\ buffer = First(tail, Len(buffer))
    BY <1>1, InsideTail
  <2>2. Decoded(First(tail, Len(buffer))).verdict # "ok"
    BY <2>1 DEF Codec, TailsAreNoFrames
  <2> QED BY <1>3, <2>1, <2>2
<1>5. Fits(k + 1)
  <2>1. /\ ends[k + 1] \in Nat
        /\ Len(Encoding(written[k + 1])) = ends[k + 1] - C
        /\ arrived < ends[k + 1] => Decoded(buffer).verdict = "Incomplete"
    BY <1>1, <1>4, InsideFrame
  <2>2. ends[k + 1] <= arrived
    BY <1>2, <1>3, <2>1
  <2>3. Len(buffer) <= MaxBuffered
    BY DEF ReaderInv
  <2>4. ends[k + 1] <= Len(wire) /\ ends[k + 1] - C <= MaxBuffered
    <3> DEFINE e == ends[k + 1]  b == Len(buffer)  w == Len(wire)
    <3>1. /\ e \in Nat /\ b = arrived - C /\ b <= MaxBuffered /\ e <= arrived
          /\ arrived <= w /\ arrived \in Nat /\ w \in Nat /\ C \in Nat /\ MaxBuffered \in Nat
      BY <1>1, <1>2, <2>1, <2>2, <2>3, ConnectionAssumption
    <3> HIDE DEF e, b, w
    <3>2. e <= w /\ e - C <= MaxBuffered
      BY ONLY <3>1
    <3> QED BY <3>2 DEF e, w
  <2> QED BY <2>1, <2>4 DEF Fits
<1>6. Len(frames') = k + 1
  <2>1. Len(Append(frames, Decoded(buffer).value)) = Len(frames) + 1
    OBVIOUS
  <2> QED BY <1>1, <1>3, <2>1
<1>7. \A i \in 1..Len(frames') : Fits(i)'
  <2> SUFFICES ASSUME NEW i \in 1..(k + 1) PROVE Fits(i)'
    BY <1>6
  <2>1. Fits(i)
    BY <1>1, <1>5 DEF EndInv
  <2> QED BY <1>3, <2>1 DEF Fits
<1> QED BY <1>3, <1>7 DEF EndInv

\* Reading ends for one of four reasons, which the bytes give.
LEMMA ReadingEnds ==
  ASSUME Codec, WriterInv, StreamInv, ReaderInv, EndInv,
         RejectInput \/ RefuseFrame \/ ReadEnd
  PROVE  EndInv'
<1>1. PICK k \in Nat, C \in Nat : k = Len(frames) /\ C = End(k)
  BY LenProperties DEF ReaderInv
<1>2. /\ Len(ends) \in Nat /\ k <= Len(ends) /\ arrived \in Nat /\ Len(wire) \in Nat
      /\ C <= arrived /\ arrived <= Len(wire) /\ Len(buffer) = arrived - C
      /\ Len(buffer) <= MaxBuffered
  BY <1>1, ReaderPlace DEF ReaderInv
<1>3. /\ outcome = "reading"
      /\ UNCHANGED <<written, ends, wire, writer, arrived, buffer, frames>>
  BY DEF RejectInput, RefuseFrame, ReadEnd, Waits, history, writeVars
<1>4. NothingFollows => NothingFollows'
  BY <1>3 DEF NothingFollows, Fits
<1>5. \A i \in 1..Len(frames') : Fits(i)'
  BY <1>3 DEF EndInv, Fits
<1>6. ASSUME k = Len(ends), buffer # <<>> PROVE writer = "closed"
  <2> SUFFICES ASSUME writer # "closed" PROVE FALSE
    OBVIOUS
  <2>1. Len(buffer) \in 0..Len(<<>>) /\ buffer = First(<<>>, Len(buffer))
    BY <1>1, <1>6, InsideTail
  <2>2. Len(<<>>) = 0 /\ First(<<>>, 0) = <<>>
    BY EmptySeq, SubSeqEmpty DEF First
  <2> QED BY <1>2, <1>6, <2>1, <2>2
<1>7. CASE RejectInput
  <2>1. Decoded(buffer).verdict = "Other" /\ outcome' = "Invalid"
    BY <1>7 DEF RejectInput
  <2>2. k = Len(ends)
    <3> SUFFICES ASSUME k < Len(ends) PROVE FALSE
      BY <1>1, <1>2
    <3>1. /\ ends[k + 1] \in Nat
          /\ arrived < ends[k + 1] => Decoded(buffer).verdict = "Incomplete"
          /\ ends[k + 1] <= arrived => Decoded(buffer).verdict = "ok"
      BY <1>1, InsideFrame
    <3> QED BY <1>2, <2>1, <3>1
  <2>3. buffer # <<>>
    BY <2>1 DEF Codec, PartsAreIncomplete
  <2>4. NothingFollows
    BY <1>1, <1>2, <1>6, <2>2, <2>3 DEF NothingFollows
  <2> QED BY <1>1, <1>3, <1>4, <1>5, <2>1, <2>2, <2>4 DEF EndInv
<1>8. ASSUME Waits, k < Len(ends) PROVE arrived < ends[k + 1]
  <2>1. ends[k + 1] \in Nat /\ (ends[k + 1] <= arrived => Decoded(buffer).verdict = "ok")
    BY <1>1, <1>8, InsideFrame
  <2> QED BY <1>2, <1>8, <2>1 DEF Waits
<1>9. CASE RefuseFrame
  <2>1. Decoded(buffer).verdict = "Incomplete" /\ outcome' = "TooLarge" /\ Waits
    BY <1>9 DEF RefuseFrame, Waits
  <2>2. Len(buffer) = MaxBuffered
    BY <1>2, <1>9, ConnectionAssumption DEF RefuseFrame, BufferFull
  <2>3. NothingFollows
    <3>1. CASE k = Len(ends)
      <4>1. buffer # <<>>
        BY <2>2, EmptySeq, ConnectionAssumption
      <4> QED BY <1>1, <1>2, <1>6, <3>1, <4>1 DEF NothingFollows
    <3>2. CASE k < Len(ends)
      <4>1. ends[k + 1] \in Nat /\ Len(Encoding(written[k + 1])) = ends[k + 1] - C
        BY <1>1, <3>2, InsideFrame
      <4>2. Len(Encoding(written[k + 1])) > MaxBuffered
        BY <1>1, <1>2, <1>8, <2>1, <2>2, <3>2, <4>1, ConnectionAssumption
      <4> QED BY <1>1, <3>2, <4>2 DEF NothingFollows
    <3> QED BY <1>2, <3>1, <3>2
  <2> QED BY <1>3, <1>4, <1>5, <2>1, <2>2, <2>3 DEF EndInv
<1>10. CASE ReadEnd
  <2>1. /\ Decoded(buffer).verdict = "Incomplete" /\ Waits
        /\ writer = "closed" /\ arrived = Len(wire)
        /\ outcome' = IF buffer = <<>> THEN "EndOfInput" ELSE "Truncated"
    BY <1>10 DEF ReadEnd, Waits
  <2>2. Len(buffer) < MaxBuffered
    BY <1>2, <1>10, ConnectionAssumption DEF ReadEnd, BufferFull
  <2>3. NothingFollows
    <3>1. ASSUME k < Len(ends) PROVE ~Fits(k + 1)
      <4>1. arrived < ends[k + 1] /\ ends[k + 1] \in Nat
        BY <1>1, <1>8, <2>1, <3>1, InsideFrame
      <4> QED BY <1>2, <2>1, <4>1 DEF Fits
    <3> QED BY <1>1, <2>1, <3>1 DEF NothingFollows
  <2>4. outcome' \in {"EndOfInput", "Truncated"} /\ (outcome' = "EndOfInput" <=> buffer = <<>>)
    BY <2>1
  <2> QED BY <1>3, <1>4, <1>5, <2>1, <2>2, <2>3, <2>4 DEF EndInv
<1> QED BY <1>7, <1>9, <1>10

\* A first part of a first part.
LEMMA FirstOfFirst ==
  ASSUME NEW bytes \in Bytes, NEW n \in 0..Len(bytes), NEW m \in 0..n
  PROVE  First(First(bytes, n), m) = First(bytes, m)
<1>1. Len(bytes) \in Nat
  BY LenProperties DEF Bytes
<1>2. 0 \in 0..Len(bytes) /\ m \in 0..Len(bytes) /\ n \in m..Len(bytes) /\ m - 0 = m
  BY <1>1
<1>3. First(Piece(bytes, 0, n), m - 0) = Piece(bytes, 0, m)
  BY <1>2, Pieces
<1>4. Piece(bytes, 0, n) = First(bytes, n) /\ Piece(bytes, 0, m) = First(bytes, m)
  BY DEF Piece, First
<1> QED BY <1>2, <1>3, <1>4

\* The end that was reported is the one the remaining bytes say.
LEMMA EndIsTrue ==
  ASSUME Codec, WriterInv, StreamInv, ReaderInv, EndInv
  PROVE  ReadsTheStream
<1>1. PICK k \in Nat, C \in Nat : k = Len(frames) /\ C = End(k)
  BY LenProperties DEF ReaderInv
<1>2. /\ Len(ends) \in Nat /\ k <= Len(ends) /\ arrived \in Nat /\ Len(wire) \in Nat
      /\ C <= arrived /\ arrived <= Len(wire) /\ Len(buffer) = arrived - C
      /\ asked \in Bytes /\ Len(asked) \in Nat /\ Len(wire) <= Len(asked)
      /\ buffer = Piece(asked, C, arrived)
      /\ After(wire, C) = Piece(asked, C, Len(wire)) /\ Len(After(wire, C)) = Len(wire) - C
      /\ Len(buffer) <= MaxBuffered
  BY <1>1, ReaderPlace DEF ReaderInv
<1>3. k <= Readable /\ ((k < Len(ends) => ~Fits(k + 1)) => Readable = k)
  BY <1>1, <1>2, ReadableCounts DEF EndInv, StreamInv
<1>4. frames = SubSeq(written, 1, Len(frames))
  BY FirstFrames
<1>5. ASSUME outcome \notin {"reading", "Failed"}
      PROVE  Len(frames) = Readable /\ outcome = EndAfter(Unreadable)
  <2> DEFINE bytes == After(wire, C)
  <2>1. Readable = k
    <3>1. k < Len(ends) => ~Fits(k + 1)
      BY <1>1, <1>5, ConnectionAssumption DEF EndInv, NothingFollows, Fits
    <3> QED BY <1>3, <3>1
  <2>2. Unreadable = bytes
    BY <1>1, <2>1 DEF Unreadable, End
  <2>3. First(bytes, Len(buffer)) = buffer /\ Len(buffer) <= Len(bytes)
    <3>1. C \in 0..Len(asked) /\ arrived \in C..Len(asked) /\ Len(wire) \in arrived..Len(asked)
      BY <1>2
    <3>2. First(Piece(asked, C, Len(wire)), arrived - C) = Piece(asked, C, arrived)
      BY ONLY <1>2, <3>1, Pieces
    <3> QED BY <1>2, <3>2
  <2>4. CASE outcome = "Invalid"
    <3>1. Decoded(buffer).verdict = "Other" /\ k = Len(ends)
      BY <1>1, <2>4 DEF EndInv
    <3>2. PICK tail \in Tails \cup {<<>>} :
            /\ Len(tail) \in Nat
            /\ Len(buffer) \in 0..Len(tail) /\ buffer = First(tail, Len(buffer))
            /\ Len(wire) - C \in Len(buffer)..Len(tail)
            /\ bytes = First(tail, Len(wire) - C)
      BY <1>1, <3>1, InsideTail
    <3> DEFINE room == IF Len(bytes) < MaxBuffered THEN Len(bytes) ELSE MaxBuffered
    <3>3. room \in Len(buffer)..Len(tail) /\ room \in 0..(Len(wire) - C)
      <4> DEFINE b == Len(buffer)  t == Len(tail)  w == Len(wire)  all == Len(bytes)
      <4>1. /\ b \in Nat /\ t \in Nat /\ w - C \in b..t /\ all = w - C
            /\ b <= MaxBuffered /\ MaxBuffered \in Nat
        BY <1>2, <3>2, ConnectionAssumption
      <4> HIDE DEF b, t, w, all
      <4>2. LET r == IF all < MaxBuffered THEN all ELSE MaxBuffered
            IN  r \in b..t /\ r \in 0..(w - C)
        BY ONLY <4>1
      <4> QED BY <4>2 DEF b, t, w, all
    <3>4. First(bytes, room) = First(tail, room)
      <4>1. tail \in Bytes
        BY EmptySeq, ConnectionAssumption DEF Bytes
      <4>2. Len(wire) - C \in 0..Len(tail)
        BY <3>2
      <4> QED BY <3>2, <3>3, <4>1, <4>2, FirstOfFirst
    <3>5. Decoded(First(tail, room)).verdict = "Other"
      BY <3>1, <3>2, <3>3 DEF Codec, TailsAreNoFrames
    <3>6. bytes # <<>>
      <4>1. buffer # <<>>
        BY <3>1 DEF Codec, PartsAreIncomplete
      <4>2. Len(buffer) # 0
        <5>1. buffer \in Bytes
          BY <1>1, ReaderPlace
        <5> QED BY <4>1, <5>1, EmptySeq DEF Bytes
      <4> QED BY <1>2, <2>3, <4>2, EmptySeq
    <3> QED BY <1>1, <2>1, <2>2, <2>4, <3>4, <3>5, <3>6 DEF EndAfter
  <2>5. CASE outcome = "TooLarge"
    <3>1. Decoded(buffer).verdict = "Incomplete" /\ Len(buffer) = MaxBuffered
      BY <2>5 DEF EndInv
    <3>2. MaxBuffered <= Len(bytes) /\ Len(bytes) \in Nat /\ MaxBuffered \in Nat /\ MaxBuffered > 0
      BY <1>2, <2>3, <3>1, ConnectionAssumption
    <3>3. bytes # <<>>
      BY <3>2, EmptySeq
    <3>4. (IF Len(bytes) < MaxBuffered THEN Len(bytes) ELSE MaxBuffered) = MaxBuffered
      BY <3>2
    <3>5. Decoded(First(bytes, MaxBuffered)).verdict # "Other"
      BY <2>3, <3>1
    <3> QED BY <1>1, <2>1, <2>2, <2>5, <3>3, <3>4, <3>5 DEF EndAfter
  <2>6. CASE outcome \in {"EndOfInput", "Truncated"}
    <3>1. /\ Decoded(buffer).verdict = "Incomplete" /\ Len(buffer) < MaxBuffered
          /\ arrived = Len(wire)
          /\ outcome = "EndOfInput" <=> buffer = <<>>
      BY <2>6 DEF EndInv
    <3>2. bytes = buffer
      BY <1>2, <3>1
    <3>3. (IF Len(bytes) < MaxBuffered THEN Len(bytes) ELSE MaxBuffered) = Len(buffer)
          /\ Len(buffer) # MaxBuffered
      BY <1>2, <3>1, <3>2, ConnectionAssumption
    <3>4. Decoded(First(bytes, Len(buffer))).verdict # "Other"
      BY <2>3, <3>1
    <3> QED BY <1>1, <2>1, <2>2, <2>6, <3>1, <3>2, <3>3, <3>4 DEF EndAfter
  <2> QED BY <1>5, <2>4, <2>5, <2>6 DEF EndInv
<1> QED BY <1>1, <1>3, <1>4, <1>5 DEF ReadsTheStream

\* For any code whose encodings are recognised whole and never from a part, and
\* any cutting of the stream: the reader gets the frames that are all on the wire
\* and fit the buffer, up to the first that does not, and then the end that the
\* bytes behind them say.
THEOREM StreamIsRead == Codec => (Spec => []ReadsTheStream)
<1> SUFFICES ASSUME Codec PROVE Spec => []ReadsTheStream
  OBVIOUS
<1>1. Init => EndInv
  BY EmptySeq DEF Init, EndInv
<1>2. ASSUME WriterInv, StreamInv, ReaderInv, EndInv, [Next]_vars PROVE EndInv'
  <2> USE <1>2
  <2>1. CASE UNCHANGED readVars
    BY <2>1, EndStays
  <2>2. CASE Deliver
    BY <2>2, DeliverFits
  <2>3. CASE RejectInput \/ RefuseFrame \/ ReadEnd
    BY <2>3, ReadingEnds
  <2>4. CASE Read \/ ReadFails
    <3>1. UNCHANGED <<written, ends, wire, frames>> /\ outcome' \in {"reading", "Failed"}
      BY <2>4 DEF Read, ReadFails, Waits, history, writeVars
    <3> QED BY <3>1 DEF EndInv, Fits
  <2> QED BY <2>1, <2>2, <2>3, <2>4
          DEF Next, WriteFrame, WriteOn, Collect, WriteThrough, Flush, WriteReturns, HangUp,
              WriteTail, ReadOn, Ended, vars
<1>3. WriterInv /\ StreamInv /\ ReaderInv /\ EndInv => ReadsTheStream
  BY EndIsTrue
<1> QED BY <1>1, <1>2, <1>3, WriterInvariant, BothEnds, PTL DEF Spec
=============================================================================
