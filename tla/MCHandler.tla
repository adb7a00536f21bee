----------------------------- MODULE MCHandler -----------------------------
(***************************************************************************)
(* Two connection tasks on one key, with every kind of input.              *)
(***************************************************************************)
EXTENDS Handler, TLC

CONSTANTS c1, c2

MCConns == {c1, c2}
MCUtf8 == {"GET", "SET", "k", "v"}
MCPayloads == MCUtf8 \cup {"ff"}
MCGetNames == {"GET"}
MCSetNames == {"SET"}

Bulk(payload)  == [type |-> "Bulk", data |-> payload]
Request(words) == [type |-> "Array", items |-> [i \in DOMAIN words |-> Bulk(words[i])]]

GetK    == Request(<<"GET", "k">>)
SetKV   == Request(<<"SET", "k", "v">>)
NoKey   == Request(<<"GET">>)

MCInputs == {GetK, SetKV, NoKey, Malformed, Partial}

\* Bound: inputs in all, so that one connection pipelines while the other asks.
MaxInAll == 3
FewInputs == Len(sent[c1]) + Len(sent[c2]) <= MaxInAll

MCSymmetry == Permutations(MCConns)
=============================================================================
