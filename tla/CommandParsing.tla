--------------------------- MODULE CommandParsing ---------------------------
(***************************************************************************)
(* One call of Command::from_frame (command.rs) on an arbitrary frame,     *)
(* against the grammar of the two commands.                                *)
(***************************************************************************)
EXTENDS Command

CONSTANTS
  Frames,   \* the frames parsed
  MaxArgs   \* bound: arguments looked for when a command is to be completed

ASSUME ParsingAssumption == Frames \subseteq Frame /\ MaxArgs \in Nat

VARIABLES frame, verdict

NotParsed == [op |-> "None"]

Init == frame \in Frames /\ verdict = NotParsed

Parse ==
  /\ verdict = NotParsed
  /\ verdict' = FromFrame(frame)
  /\ UNCHANGED frame

Spec == Init /\ [][Parse]_<<frame, verdict>>

-----------------------------------------------------------------------------
(* The grammar                                                             *)

IsString(a) == a.type \in {"Bulk", "Simple"}
IsText(a)   == IsString(a) /\ a.data \in Utf8
Names(a, names) == IsText(a) /\ a.data \in names

IsGet(items) ==
  Len(items) = 2 /\ Names(items[1], GetNames) /\ IsText(items[2])

IsSet(items) ==
  /\ Len(items) = 3
  /\ Names(items[1], SetNames) /\ IsText(items[2]) /\ IsString(items[3])

IsCommand(items) == IsGet(items) \/ IsSet(items)

Arguments == UNION {{f.items[i] : i \in DOMAIN f.items} :
                      f \in {g \in Frames : g.type = "Array"}}

\* Sequences of at most MaxArgs arguments, one or more.
Completions == UNION {[1..n -> Arguments] : n \in 1..MaxArgs}

\* Some argument can be the name of a GET, and so its key, too; and there may be
\* enough of them behind it.
Completable == MaxArgs >= 2 /\ \E a \in Arguments : Names(a, GetNames)

\* Exactly the GET and SET requests of the grammar are accepted, each as the
\* command it spells; nothing is accepted with an argument of a wrong type, a
\* key that is not UTF-8, or an argument too many (command.rs:56-58).
AcceptsTheGrammar ==
  verdict # NotParsed =>
    verdict =
      IF frame.type = "Array" /\ IsGet(frame.items)
      THEN [op |-> "GET", key |-> frame.items[2].data]
      ELSE IF frame.type = "Array" /\ IsSet(frame.items)
      THEN [op |-> "SET", key |-> frame.items[2].data, value |-> frame.items[3].data]
      ELSE Reject(IF verdict.op = "Reject" THEN verdict.error ELSE "Other")

\* EndOfStream tells a request that is right as far as it goes from one that no
\* further argument could save (command.rs:54, "the command name or a required
\* argument is missing").
EndOfStreamMeansTooShort ==
  verdict # NotParsed =>
    ((verdict = Reject("EndOfStream")) <=>
       /\ frame.type = "Array"
       /\ \E more \in Completions : IsCommand(frame.items \o more))
=============================================================================
