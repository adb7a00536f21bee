------------------------------ MODULE MCServer ------------------------------
(***************************************************************************)
(* Small servers: a key, a request that writes it, and input that fails.   *)
(***************************************************************************)
EXTENDS Server, TLC

CONSTANTS c1, c2, c3

TwoConns == {c1, c2}
ThreeConns == {c1, c2, c3}

MCUtf8 == {"GET", "SET", "k", "v"}
MCGetNames == {"GET"}
MCSetNames == {"SET"}

Bulk(payload) == [type |-> "Bulk", data |-> payload]
SetKV == [type |-> "Array", items |-> <<Bulk("SET"), Bulk("k"), Bulk("v")>>]

OneInput == {SetKV}

MCSymmetry == Permutations(ThreeConns)
=============================================================================
