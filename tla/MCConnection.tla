---------------------------- MODULE MCConnection ----------------------------
(***************************************************************************)
(* A read buffer of eleven bytes: the largest frames fit it exactly or     *)
(* miss it by one.  Payloads hold line ends and what looks like a frame.   *)
(* The write buffer holds four bytes, less than most frames take.          *)
(***************************************************************************)
EXTENDS Connection, Wire

BulkFrame(data) == [type |-> "Bulk", data |-> data]
ListOf(items)   == [type |-> "Array", items |-> items]

X == 120

MCFrames == {
  [type |-> "Simple", data |-> <<X>>],
  [type |-> "Integer", value |-> -16],
  [type |-> "Null"],
  BulkFrame(<<CR, LF, Plus, CR, LF>>),             \* eleven bytes on the wire
  BulkFrame(<<CR, LF, Colon, X, CR, LF>>),         \* twelve
  ListOf(<<>>),
  ListOf(<<BulkFrame(<<X>>)>>),                    \* eleven
  ListOf(<<ListOf(<<>>), [type |-> "Null"]>>) }    \* thirteen

MCTails == {
  <<X>>,                               \* no marker
  <<Dollar, Zero + 1, CR>>,            \* ends inside a line
  <<Star, Zero + 1, CR, LF>>,          \* ends before an element
  <<Plus, X, LF>>,                     \* a bare line feed
  <<Dollar, Zero + 1, CR, LF, X, X>>,  \* a bad terminator, as far as it goes
  [i \in 1..10 |-> Plus], [i \in 1..11 |-> Plus], [i \in 1..12 |-> Plus] }

\* Simple strings of four, seven, eleven and twelve bytes, for which the decoder
\* comes down to one case (TLC evaluates it over and over for fairness).
SimpleFrames == {[type |-> "Simple", data |-> [i \in 1..n |-> X]] : n \in {1, 4, 8, 9}}

ParseSimple(src) ==
  IF src = <<>> THEN Incomplete
  ELSE IF src[1] = Plus THEN Text("Simple", Line(src, 2))
  ELSE Invalid

SimpleTails == { <<X>>, <<Plus, X, LF>>, <<Plus, X, CR>> }

\* Codec of Connection for the codes of the runs, as far as it is finite: what
\* may follow a frame is a frame, a tail or nothing.
ASSUME CodesAreTold ==
  /\ \A more \in {Encoding(frame) : frame \in Frames} \cup Tails \cup {<<>>} :
       RecognisedBefore(more)
  /\ PartsAreIncomplete
  /\ TailsAreNoFrames
=============================================================================
