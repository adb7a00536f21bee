--------------------------- MODULE ConnectionPool ---------------------------
(***************************************************************************)
(* What the server promises about its connections: a bounded set of live   *)
(* ones, each connection admitted at most once; after shutdown begins no   *)
(* more are admitted, and shutdown ends when the last one has left.        *)
(***************************************************************************)
EXTENDS Naturals, FiniteSets

CONSTANTS Conns, MaxConnections

VARIABLES
  phase,   \* "open", "draining" or "closed"
  live,    \* the connections being served
  left     \* those that were served and have left

vars == <<phase, live, left>>

Init == phase = "open" /\ live = {} /\ left = {}

Admit(c) ==
  /\ phase = "open"
  /\ c \notin live \cup left
  /\ Cardinality(live) < MaxConnections
  /\ live' = live \cup {c}
  /\ UNCHANGED <<phase, left>>

Leave(c) ==
  /\ c \in live
  /\ live' = live \ {c}
  /\ left' = left \cup {c}
  /\ UNCHANGED phase

\* A connection can also be turned away before it is admitted.
TurnAway(cs) ==
  /\ cs \subseteq Conns \ (live \cup left)
  /\ left' = left \cup cs
  /\ UNCHANGED <<phase, live>>

Drain ==
  /\ phase = "open"
  /\ phase' = "draining"
  /\ UNCHANGED <<live, left>>

Close ==
  /\ phase = "draining"
  /\ live = {}
  /\ phase' = "closed"
  /\ UNCHANGED <<live, left>>

Next ==
  \/ \E c \in Conns : Admit(c) \/ Leave(c)
  \/ \E cs \in SUBSET Conns : TurnAway(cs)
  \/ Drain
  \/ Close

Spec == Init /\ [][Next]_vars
=============================================================================
