-------------------------- MODULE MCCommandParsing --------------------------
(***************************************************************************)
(* Every array of up to four arguments of every kind, and every frame that *)
(* is no array.                                                            *)
(***************************************************************************)
EXTENDS CommandParsing

MCUtf8 == {"get", "SET", "k"}
MCPayloads == MCUtf8 \cup {"ff"}
MCGetNames == {"get"}
MCSetNames == {"SET"}

MCArguments ==
  [type : {"Bulk"}, data : MCPayloads] \cup [type : {"Simple"}, data : {"get", "k"}]
    \cup [type : {"Null", "Array"}]

MCFrames ==
  [type : {"Array"}, items : UNION {[1..n -> MCArguments] : n \in 0..4}]
    \cup [type : {"Bulk", "Simple", "Error", "Integer", "Null"}]

\* What the theorem on EndOfStreamMeansTooShort asks of the instance.
ASSUME CanBeCompleted == Completable
=============================================================================
