----------------------------- MODULE KVService -----------------------------
(***************************************************************************)
(* What the server promises the clients of its database: each connection's *)
(* requests are executed in the order they were written, each one once and *)
(* in one indivisible step on a single shared map, and the answers come    *)
(* back in that order, one per request.  Input that is no frame ends the   *)
(* connection, with at most one error answer after all the others.         *)
(***************************************************************************)
EXTENDS Command

CONSTANTS Conns, Inputs, MaxInputs

VARIABLES store, requests, answers, over

vars == <<store, requests, answers, over>>

Init ==
  /\ store = EmptyDatabase
  /\ requests = [c \in Conns |-> <<>>]
  /\ answers = [c \in Conns |-> <<>>]
  /\ over = {}

\* A client writes one more request.
Request(c) ==
  /\ Len(requests[c]) < MaxInputs
  /\ \E m \in Inputs : requests' = [requests EXCEPT ![c] = Append(@, m)]
  /\ UNCHANGED <<store, answers, over>>

Outstanding(c) == Len(answers[c]) < Len(requests[c])
Oldest(c)      == requests[c][Len(answers[c]) + 1]

\* The oldest outstanding request takes effect and its answer is fixed.
Execute(c) ==
  /\ c \notin over
  /\ Outstanding(c)
  /\ Oldest(c) \in Frame
  /\ LET command == FromFrame(Oldest(c))
     IN  /\ answers' = [answers EXCEPT ![c] = Append(@, Response(command, store))]
         /\ store' = Effect(command, store)
  /\ UNCHANGED <<requests, over>>

\* Connections end, whatever is outstanding ...
Hangup(cs) ==
  /\ cs \cap over = {}
  /\ over' = over \cup cs
  /\ UNCHANGED <<store, requests, answers>>

\* ... or one ends with an error answer, when what is outstanding is no frame.
Complain(c) ==
  /\ c \notin over
  /\ Outstanding(c)
  /\ Oldest(c) \notin Frame
  /\ answers' = [answers EXCEPT ![c] = Append(@, ErrorFrame)]
  /\ over' = over \cup {c}
  /\ UNCHANGED <<store, requests>>

Next ==
  \/ \E c \in Conns : Request(c) \/ Execute(c) \/ Complain(c)
  \/ \E cs \in SUBSET Conns : Hangup(cs)

Spec == Init /\ [][Next]_vars
=============================================================================
