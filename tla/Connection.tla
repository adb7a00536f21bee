----------------------------- MODULE Connection -----------------------------
(***************************************************************************)
(* One direction of a connection (connection.rs): write_frame at one end,  *)
(* through a BufWriter, and read_frame at the other, on a byte stream that *)
(* is cut into pieces of any size on its way.                              *)
(*                                                                         *)
(* A call of read_frame keeps nothing but the buffer between two awaits,   *)
(* so a call that is dropped while it waits for the socket and started     *)
(* again is no step of its own.  A write that is dropped, like one that    *)
(* fails, must be the last: the writer hangs up in the middle of a frame.  *)
(***************************************************************************)
EXTENDS Naturals, Sequences, FiniteSets

CONSTANTS
  Frames,       \* the frames that may be written
  Encoding(_),  \* what write_data writes for a frame
  Decoded(_),   \* what Frame::parse makes of a buffer
  Tails,        \* what a peer that is no Connection may write at the end
  MaxFrames,    \* bound: frames written
  Capacity,     \* of the write buffer
  MaxBuffered   \* MAX_BUFFERED_BYTES of config.rs

ASSUME ConnectionAssumption ==
  /\ MaxFrames \in Nat
  /\ Capacity \in Nat \ {0}
  /\ MaxBuffered \in Nat \ {0}
  /\ \A frame \in Frames : Encoding(frame) \in Seq(Nat)
  /\ Tails \subseteq Seq(Nat)

VARIABLES
  written,   \* the frames write_frame was called with
  ends,      \* where the encoding of each ends in the stream
  asked,     \* the bytes that are to be written, from the beginning
  rest,      \* those of the current frame that write_data still has
  pending,   \* the bytes in the write buffer,
  flushed,   \* how many of them are on the wire already
  wire,      \* the bytes the socket has taken
  writer,    \* "idle", "writing" or "closed"
  arrived,   \* how many bytes of the wire the reader has taken
  buffer,    \* the read buffer
  frames,    \* the frames read_frame has returned
  outcome    \* "reading", or how the last call ended

history   == <<written, ends, asked>>
writeVars == <<rest, pending, flushed, wire, writer>>
readVars  == <<arrived, buffer, frames, outcome>>
vars      == <<history, writeVars, readVars>>

First(bytes, n) == SubSeq(bytes, 1, n)
After(bytes, n) == SubSeq(bytes, n + 1, Len(bytes))

Init ==
  /\ written = <<>> /\ ends = <<>> /\ asked = <<>>
  /\ rest = <<>> /\ pending = <<>> /\ flushed = 0 /\ wire = <<>>
  /\ writer = "idle"
  /\ arrived = 0 /\ buffer = <<>> /\ frames = <<>>
  /\ outcome = "reading"

-----------------------------------------------------------------------------
(* Writing.  write_data hands its frame to the BufWriter in pieces.        *)

WriteFrame ==
  /\ writer = "idle"
  /\ Len(written) < MaxFrames
  /\ writer' = "writing"
  /\ \E frame \in Frames :
       /\ written' = Append(written, frame)
       /\ asked' = asked \o Encoding(frame)
       /\ ends' = Append(ends, Len(asked'))
       /\ rest' = Encoding(frame)
  /\ UNCHANGED <<pending, flushed, wire, readVars>>

\* A piece that fits the write buffer waits there.
Collect ==
  /\ writer = "writing"
  /\ flushed = 0
  /\ \E n \in 1..Len(rest) :
       /\ n < Capacity
       /\ Len(pending) + n <= Capacity
       /\ pending' = pending \o First(rest, n)
       /\ rest' = After(rest, n)
  /\ UNCHANGED <<history, flushed, wire, writer, readVars>>

\* Mutant: a large piece overtakes what is in the write buffer.
WriteThroughAhead ==
  /\ writer = "writing"
  /\ Len(rest) >= Capacity
  /\ \E n \in 1..Len(rest) :
       /\ wire' = wire \o First(rest, n)
       /\ rest' = After(rest, n)
  /\ UNCHANGED <<history, pending, flushed, writer, readVars>>

\* A piece as large as the buffer goes to the socket at once, when the buffer
\* is empty; the socket takes a part of it.
WriteThrough ==
  /\ writer = "writing"
  /\ pending = <<>>
  /\ Len(rest) >= Capacity
  /\ \E n \in 1..Len(rest) :
       /\ wire' = wire \o First(rest, n)
       /\ rest' = After(rest, n)
  /\ UNCHANGED <<history, pending, flushed, writer, readVars>>

\* The buffer is emptied when a piece does not fit, and at the end; the socket
\* takes a part of it at a time.
FlushDue == flushed > 0 \/ rest = <<>> \/ Len(pending) + Len(rest) > Capacity

Flush ==
  /\ writer = "writing"
  /\ FlushDue
  /\ \E n \in 1..(Len(pending) - flushed) :
       /\ wire' = wire \o SubSeq(pending, flushed + 1, flushed + n)
       /\ IF flushed + n = Len(pending)
          THEN pending' = <<>> /\ flushed' = 0
          ELSE flushed' = flushed + n /\ UNCHANGED pending
  /\ UNCHANGED <<history, rest, writer, readVars>>

\* Mutant: write_frame ends without its flush.
ReturnUnflushed ==
  /\ writer = "writing"
  /\ rest = <<>>
  /\ writer' = "idle"
  /\ UNCHANGED <<history, rest, pending, flushed, wire, readVars>>

WriteReturns ==
  /\ writer = "writing"
  /\ rest = <<>> /\ pending = <<>>
  /\ writer' = "idle"
  /\ UNCHANGED <<history, rest, pending, flushed, wire, readVars>>

\* The writer is dropped, or its write fails or is cut off: a BufWriter that is
\* dropped does not write what it holds.
HangUp ==
  /\ writer # "closed"
  /\ writer' = "closed"
  /\ UNCHANGED <<history, rest, pending, flushed, wire, readVars>>

WriteTail ==
  /\ writer = "idle"
  /\ writer' = "closed"
  /\ \E tail \in Tails : wire' = wire \o tail /\ asked' = asked \o tail
  /\ UNCHANGED <<written, ends, rest, pending, flushed, readVars>>

WriteOn == Collect \/ WriteThrough \/ Flush \/ WriteReturns

-----------------------------------------------------------------------------
(* Reading                                                                 *)

\* parse_frame finds a frame and consumes its bytes, and no others.
Deliver ==
  LET parsed == Decoded(buffer)
  IN  /\ outcome = "reading"
      /\ parsed.verdict = "ok"
      /\ frames' = Append(frames, parsed.value)
      /\ buffer' = After(buffer, parsed.next - 1)
      /\ UNCHANGED <<history, writeVars, arrived, outcome>>

RejectInput ==
  /\ outcome = "reading"
  /\ Decoded(buffer).verdict = "Other"
  /\ outcome' = "Invalid"
  /\ UNCHANGED <<history, writeVars, arrived, buffer, frames>>

Waits == outcome = "reading" /\ Decoded(buffer).verdict = "Incomplete"

BufferFullEarly == Len(buffer) >= MaxBuffered - 1   \* mutant: off by one

BufferFull == Len(buffer) >= MaxBuffered

RefuseFrame ==
  /\ Waits
  /\ BufferFull
  /\ outcome' = "TooLarge"
  /\ UNCHANGED <<history, writeVars, arrived, buffer, frames>>

\* Mutant: what a frame takes is not deducted from the budget of a read.
ReadUnbounded ==
  /\ Waits
  /\ ~BufferFull
  /\ \E n \in 1..(Len(wire) - arrived) :
       /\ buffer' = buffer \o SubSeq(wire, arrived + 1, arrived + n)
       /\ arrived' = arrived + n
  /\ UNCHANGED <<history, writeVars, frames, outcome>>

\* A read brings any part of what is in flight that the budget allows.
Read ==
  /\ Waits
  /\ ~BufferFull
  /\ \E n \in 1..(Len(wire) - arrived) :
       /\ Len(buffer) + n <= MaxBuffered
       /\ buffer' = buffer \o SubSeq(wire, arrived + 1, arrived + n)
       /\ arrived' = arrived + n
  /\ UNCHANGED <<history, writeVars, frames, outcome>>

\* A read brings nothing: the end of the stream.
ReadEnd ==
  /\ Waits
  /\ ~BufferFull
  /\ writer = "closed" /\ arrived = Len(wire)
  /\ outcome' = IF buffer = <<>> THEN "EndOfInput" ELSE "Truncated"
  /\ UNCHANGED <<history, writeVars, arrived, buffer, frames>>

\* The socket reports an error instead.
ReadFails ==
  /\ Waits
  /\ ~BufferFull
  /\ outcome' = "Failed"
  /\ UNCHANGED <<history, writeVars, arrived, buffer, frames>>

ReadOn == Deliver \/ RejectInput \/ RefuseFrame \/ Read \/ ReadEnd

\* Neither end has anything to do.
Ended == outcome # "reading" /\ writer = "closed" /\ UNCHANGED vars

Next == WriteFrame \/ WriteOn \/ HangUp \/ WriteTail
          \/ ReadOn \/ ReadFails \/ Ended

Spec == Init /\ [][Next]_vars

\* The socket takes what is written, and somebody calls read_frame.
FairSpec == Spec /\ WF_vars(WriteOn) /\ WF_vars(ReadOn)

-----------------------------------------------------------------------------
(* What is asked of the code, for the reader to find the frames again      *)

\* An encoding is recognised as its frame, with these bytes after it.
RecognisedBefore(more) ==
  \A frame \in Frames :
    LET parsed == Decoded(Encoding(frame) \o more)
    IN  /\ parsed.verdict = "ok"
        /\ parsed.value = frame
        /\ parsed.next = Len(Encoding(frame)) + 1

\* No bytes, and any proper part of an encoding, are too short to tell.
PartsAreIncomplete ==
  /\ Decoded(<<>>).verdict = "Incomplete"
  /\ \A frame \in Frames : \A n \in 0..(Len(Encoding(frame)) - 1) :
       Decoded(First(Encoding(frame), n)).verdict = "Incomplete"

\* No part of a tail is taken for a frame, and one that is rejected is rejected
\* with more of the tail, too.
TailsAreNoFrames ==
  \A tail \in Tails \cup {<<>>} : \A n \in 0..Len(tail) :
    /\ Decoded(First(tail, n)).verdict # "ok"
    /\ Decoded(First(tail, n)).verdict = "Other" =>
         \A m \in n..Len(tail) : Decoded(First(tail, m)).verdict = "Other"

Codec ==
  /\ \A more \in Seq(Nat) : RecognisedBefore(more)
  /\ PartsAreIncomplete
  /\ TailsAreNoFrames

-----------------------------------------------------------------------------
(* Properties                                                              *)

\* Neither the write buffer nor the way around it loses, repeats or reorders a
\* byte (connection.rs:96-111): the wire, the buffer and what write_data still
\* has make up the encodings, and a write that was cut off leaves a prefix.
WireInOrder ==
  /\ Len(pending) <= Capacity
  /\ wire \o After(pending, flushed) \o rest = asked

\* write_frame returns when the whole frame is on the wire: nothing waits in the
\* write buffer for a later write, which might never come.
ReturnedIsFlushed == writer = "idle" => wire = asked

Consumed == IF frames = <<>> THEN 0 ELSE ends[Len(frames)]

\* The buffer never outgrows its limit and holds what arrived and was not yet
\* returned, to the byte (config.rs:15, "Maximum unread bytes buffered").
BufferIsTheUnread ==
  /\ Len(buffer) <= MaxBuffered
  /\ Len(frames) <= Len(ends)
  /\ buffer = SubSeq(wire, Consumed + 1, arrived)

\* What the reader must get, from the stream alone: the frames that are all on
\* the wire and fit into the buffer, up to the first that does not, and then the
\* end that follows.
Fits(n) == ends[n] <= Len(wire) /\ Len(Encoding(written[n])) <= MaxBuffered

Readable == Cardinality({n \in DOMAIN ends : \A i \in 1..n : Fits(i)})

Unreadable == After(wire, IF Readable = 0 THEN 0 ELSE ends[Readable])

EndAfter(bytes) ==
  LET room == IF Len(bytes) < MaxBuffered THEN Len(bytes) ELSE MaxBuffered
  IN  IF bytes = <<>> THEN "EndOfInput"
      ELSE IF Decoded(First(bytes, room)).verdict = "Other" THEN "Invalid"
      ELSE IF room = MaxBuffered THEN "TooLarge"
      ELSE "Truncated"

\* However the stream is cut into pieces, by the writer's buffer, the socket and
\* the budget of each read, and wherever it is cut off, the reader gets the
\* frames that were written, in order, and ends the way their bytes say
\* (connection.rs:31-37).
ReadsTheStream ==
  /\ Len(frames) <= Readable
  /\ frames = SubSeq(written, 1, Len(frames))
  /\ outcome \notin {"reading", "Failed"} =>
       Len(frames) = Readable /\ outcome = EndAfter(Unreadable)

\* A frame that was begun reaches the reader, though nothing is written after
\* it, unless either end is given up (connection.rs:113-114, the flush).
FramesArrive ==
  \A n \in 1..MaxFrames :
    Len(written) = n ~>
      Len(frames) >= n \/ outcome # "reading" \/ writer = "closed"
=============================================================================
