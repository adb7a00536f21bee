---------------------------- MODULE CallService ----------------------------
(***************************************************************************)
(* What Requester promises its callers: get and set on one shared map.  A  *)
(* call takes effect at most once, in one indivisible step after it began. *)
(* A call that returns an answer took effect before it returned, and the   *)
(* answer is what its effect found.  A call that fails says nothing: it    *)
(* may have taken effect, may do so later, or never.                       *)
(***************************************************************************)
EXTENDS Command

CONSTANTS
  Users,      \* callers, each making one call at a time
  Calls,      \* the commands they call for
  MaxCalls,   \* bound: calls of one user
  Unanswered, \* the effect of a call that has not taken effect
  Pending,    \* the result of a call that has not returned
  Failed      \* the result of a call that returned an error

VARIABLES
  store,      \* the map
  calls,      \* the commands each user has called for, in order,
  effects,    \* what the effect of each call found,
  results     \* and what each call returned

vars == <<store, calls, effects, results>>

\* What get and set make of the answer to them.
Interpret(command, answer) ==
  IF \/ command.op = "GET" /\ answer.type \in {"Bulk", "Null"}
     \/ command.op = "SET" /\ answer = OkFrame
  THEN answer ELSE Failed

Init ==
  /\ store = EmptyDatabase
  /\ calls = [u \in Users |-> <<>>]
  /\ effects = [u \in Users |-> <<>>]
  /\ results = [u \in Users |-> <<>>]

Last(u) == Len(results[u])
Busy(u) == Last(u) > 0 /\ results[u][Last(u)] = Pending

Invoke(u) ==
  /\ ~Busy(u)
  /\ Last(u) < MaxCalls
  /\ results' = [results EXCEPT ![u] = Append(@, Pending)]
  /\ effects' = [effects EXCEPT ![u] = Append(@, Unanswered)]
  /\ \E command \in Calls : calls' = [calls EXCEPT ![u] = Append(@, command)]
  /\ UNCHANGED store

\* Any call, also one that has failed long ago.
TakeEffect(u, i) ==
  /\ effects[u][i] = Unanswered
  /\ effects' = [effects EXCEPT ![u][i] = Response(calls[u][i], store)]
  /\ store' = Effect(calls[u][i], store)
  /\ UNCHANGED <<calls, results>>

Return(u) ==
  LET effect == effects[u][Last(u)]
  IN  /\ Busy(u)
      /\ effect # Unanswered
      /\ results' = [results EXCEPT ![u][Last(u)] =
                       Interpret(calls[u][Last(u)], effect)]
      /\ UNCHANGED <<store, calls, effects>>

Fail(u) ==
  /\ Busy(u)
  /\ results' = [results EXCEPT ![u][Last(u)] = Failed]
  /\ UNCHANGED <<store, calls, effects>>

Next ==
  \E u \in Users :
    \/ Invoke(u)
    \/ \E i \in 1..Last(u) : TakeEffect(u, i)
    \/ Return(u)
    \/ Fail(u)

Spec == Init /\ [][Next]_vars
=============================================================================
