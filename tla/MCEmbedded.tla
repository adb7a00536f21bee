----------------------------- MODULE MCEmbedded -----------------------------
(***************************************************************************)
(* A small embedding program: two connections and two slots.               *)
(***************************************************************************)
EXTENDS Embedded

CONSTANTS c1, c2

TwoConns == {c1, c2}
MCUtf8 == {"GET", "SET", "k", "v"}
MCGetNames == {"GET"}
MCSetNames == {"SET"}

Bulk(payload) == [type |-> "Bulk", data |-> payload]
SetKV == [type |-> "Array", items |-> <<Bulk("SET"), Bulk("k"), Bulk("v")>>]

MCInputs == {SetKV}

\* Bound: inputs in all.  Two on one connection let its client stop reading.
MaxInAll == 2
FewInputs == Len(sent[c1]) + Len(sent[c2]) <= MaxInAll
=============================================================================
