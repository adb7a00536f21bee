---------------------------- MODULE MCRequester ----------------------------
(***************************************************************************)
(* Users of a small server with one key.                                   *)
(***************************************************************************)
EXTENDS Requester, TLC

CONSTANTS u1, u2, c1, c2, c3

OneUser == {u1}
TwoUsers == {u1, u2}
TwoConns == {c1, c2}
ThreeConns == {c1, c2, c3}

MCUtf8 == {"GET", "SET", "k"}
MCPayloads == MCUtf8 \cup {"v", "huge"}
MCGetNames == {"GET"}
MCSetNames == {"SET"}
MCHuge == {"huge"}

Get == [op |-> "GET", key |-> "k"]
Set(value) == [op |-> "SET", key |-> "k", value |-> value]

OneCall == {Get}
SmallCalls == {Get, Set("v")}
MixedCalls == {Get, Set("v"), Set("huge")}

MCInputs == {RequestFor(call) : call \in MixedCalls} \cup {Partial}

\* Bound: the server is not shut down.
Serving == main = "serving"

\* Bound: calls in all.
MaxInAll == 3
FewCalls == Last(u1) + Last(u2) <= MaxInAll

\* Bound: connections that are reset.
MaxResets == 1
FewResets == Cardinality({c \in Conns : peer[c] = "gone"}) <= MaxResets

MCSymmetry == Permutations(TwoUsers) \cup Permutations(ThreeConns)
=============================================================================
