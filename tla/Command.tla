------------------------------ MODULE Command ------------------------------
(***************************************************************************)
(* From a decoded frame to a GET or a SET (parse.rs, command.rs), and what *)
(* the command does to the database (database.rs).                         *)
(*                                                                         *)
(* A byte string is an opaque payload.  The code asks three things of one: *)
(* is it valid UTF-8, and does it spell GET or SET when ASCII case is      *)
(* ignored.  Each question is a set of payloads.                           *)
(***************************************************************************)
EXTENDS Naturals, Sequences

CONSTANTS
  Payloads,   \* the byte strings an argument can carry
  Utf8,       \* the valid UTF-8 ones: possible command names and keys
  GetNames,   \* the spellings of GET
  SetNames,   \* the spellings of SET
  NoValue     \* what a lookup of an absent key finds

ASSUME PayloadAssumption ==
  /\ Utf8 \subseteq Payloads
  /\ GetNames \subseteq Utf8
  /\ SetNames \subseteq Utf8
  /\ GetNames \cap SetNames = {}
  /\ NoValue \notin Payloads

-----------------------------------------------------------------------------
(* Frames.  The contents of a frame the command parser rejects whatever    *)
(* they are (an integer, a nested array, a top-level string) are left out. *)

Argument ==
  [type : {"Bulk"}, data : Payloads] \cup [type : {"Simple"}, data : Utf8]
    \cup [type : {"Error", "Integer", "Null", "Array"}]

Frame ==
  [type : {"Array"}, items : Seq(Argument)]
    \cup [type : {"Bulk", "Simple", "Error", "Integer", "Null"}]

ErrorFrame == [type |-> "Error"]
OkFrame    == [type |-> "Simple"]
NullFrame  == [type |-> "Null"]

Reply == [type : {"Bulk"}, data : Payloads] \cup {ErrorFrame, OkFrame, NullFrame}

-----------------------------------------------------------------------------
(* The argument parser: the outcome of taking argument i as bytes, as a    *)
(* string, or of expecting no argument i at all.                           *)

NextBytes(items, i) ==
  CASE i > Len(items)                           -> "EndOfStream"
    [] i <= Len(items) /\ items[i].type \in {"Bulk", "Simple"} -> "ok"
    [] OTHER                                    -> "Other"

NextString(items, i) ==
  IF NextBytes(items, i) = "ok" /\ items[i].data \notin Utf8
  THEN "Other"
  ELSE NextBytes(items, i)

FinishUnchecked(items, i) == "ok"   \* mutant: extra arguments are ignored

Finish(items, i) == IF i <= Len(items) THEN "Other" ELSE "ok"

Reject(error) == [op |-> "Reject", error |-> error]

\* The ? operator: go on after "ok", return the error otherwise.
Try(outcome, next) == IF outcome = "ok" THEN next ELSE Reject(outcome)

GetFromParse(items) ==
  Try(NextString(items, 2),
  Try(Finish(items, 3),
      [op |-> "GET", key |-> items[2].data]))

\* Mutant: the value is taken before the key.
SetFromParseSwapped(items) ==
  Try(NextBytes(items, 3),
  Try(NextString(items, 2),
  Try(Finish(items, 4),
      [op |-> "SET", key |-> items[2].data, value |-> items[3].data])))

SetFromParse(items) ==
  Try(NextString(items, 2),
  Try(NextBytes(items, 3),
  Try(Finish(items, 4),
      [op |-> "SET", key |-> items[2].data, value |-> items[3].data])))

FromFrame(frame) ==
  IF frame.type # "Array"
  THEN Reject("Other")
  ELSE LET items == frame.items
       IN  Try(NextString(items, 1),
               CASE items[1].data \in GetNames -> GetFromParse(items)
                 [] items[1].data \in SetNames -> SetFromParse(items)
                 [] OTHER                      -> Reject("Other"))

Commands ==
  [op : {"GET"}, key : Utf8] \cup [op : {"SET"}, key : Utf8, value : Payloads]
    \cup [op : {"Reject"}, error : {"EndOfStream", "Other"}]

-----------------------------------------------------------------------------
(* Executing a command.  The map is read or written once, under the mutex. *)

Database == [Utf8 -> Payloads \cup {NoValue}]

EmptyDatabase == [key \in Utf8 |-> NoValue]

Lookup(db, key) ==
  IF db[key] = NoValue THEN NullFrame ELSE [type |-> "Bulk", data |-> db[key]]

Response(command, db) ==
  CASE command.op = "GET" -> Lookup(db, command.key)
    [] command.op = "SET" -> OkFrame
    [] OTHER              -> ErrorFrame

Effect(command, db) ==
  IF command.op = "SET" THEN [db EXCEPT ![command.key] = command.value] ELSE db
=============================================================================
