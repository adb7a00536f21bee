----------------------------- MODULE Requester -----------------------------
(***************************************************************************)
(* Callers of Requester (requester.rs) against the whole server: every     *)
(* user connects, calls get and set one at a time, gives calls up, drops   *)
(* the requester and connects again.  The command-line client (client.rs)  *)
(* is a user with one call.                                                *)
(*                                                                         *)
(* A user keeps the one rule the code asks for: after a call that was given *)
(* up, by its timeout or by dropping its future, drop the requester.  After *)
(* any other error the requester may be used again.                        *)
(*                                                                         *)
(* On its connection a requester is one of the server's clients: a write   *)
(* is a Send, a read a ReadReply, and dropping it closes or resets.        *)
(***************************************************************************)
EXTENDS Server

CONSTANTS
  Users, Calls, MaxCalls,
  Huge,        \* values whose SET is larger than the server buffers
  Unanswered, Pending, Failed,   \* marks that are no answer of the server
  NoConn       \* the connection of a user without a requester

ASSUME RequesterAssumption ==
  /\ "GET" \in GetNames /\ "SET" \in SetNames
  /\ Calls \subseteq Commands \ [op : {"Reject"}, error : {"EndOfStream", "Other"}]
  /\ MaxCalls \in Nat
  /\ Huge \subseteq Payloads
  /\ {Unanswered, Pending, Failed} \cap Reply = {} /\ Pending # Failed
  /\ NoConn \notin Conns

VARIABLES
  conn,    \* the connection of each user's requester
  phase,   \* what the requester is doing
  calls,   \* the calls each user has made, in order,
  results, \* what they returned,
  places   \* and where their requests are: at is 0 before one is written

users    == <<conn, phase, calls, results, places>>
callVars == <<vars, users>>

\* A "stale" requester is one whose last call was given up.
Phases == {"away", "idle", "writing", "reading", "stale"}

-----------------------------------------------------------------------------
(* A call                                                                  *)

BulkFrame(data) == [type |-> "Bulk", data |-> data]

GetFrame(key) ==
  [type |-> "Array", items |-> <<BulkFrame("GET"), BulkFrame(key)>>]

\* Mutant: the value goes where the key belongs.
SetFrameSwapped(key, value) ==
  [type |-> "Array",
   items |-> <<BulkFrame("SET"), BulkFrame(value), BulkFrame(key)>>]

SetFrame(key, value) ==
  [type |-> "Array",
   items |-> <<BulkFrame("SET"), BulkFrame(key), BulkFrame(value)>>]

\* What the server makes of a request: too much of it is no frame at all.
RequestFor(command) ==
  CASE command.op = "GET"                              -> GetFrame(command.key)
    [] command.op = "SET" /\ command.value \in Huge    -> Malformed
    [] command.op = "SET" /\ command.value \notin Huge ->
         SetFrame(command.key, command.value)

\* Mutant: any answer to a SET is taken for success.
InterpretLoosely(command, answer) ==
  IF \/ command.op = "GET" /\ answer.type \in {"Bulk", "Null"}
     \/ command.op = "SET"
  THEN answer ELSE Failed

\* A value or the lack of one for a GET, exactly OK for a SET.
Interpret(command, answer) ==
  IF \/ command.op = "GET" /\ answer.type \in {"Bulk", "Null"}
     \/ command.op = "SET" /\ answer = OkFrame
  THEN answer ELSE Failed

Last(u)    == Len(calls[u])
Current(u) == calls[u][Last(u)]

\* The request is on the wire, as the at-th input of its connection.
Written(u) == places[u][Last(u)].at > 0

Put(u, m) ==
  LET c == conn[u]
  IN  /\ Send(c)
      /\ sent'[c] = Append(sent[c], m)
      /\ places' = [places EXCEPT ![u][Last(u)] =
                      [conn |-> c, at |-> Len(sent'[c])]]

Go(u, from, to) ==
  /\ phase[u] = from
  /\ phase' = [phase EXCEPT ![u] = to]

Return(u, result) == results' = [results EXCEPT ![u][Last(u)] = result]

OnWire == UNCHANGED <<acceptorVars, main>>

-----------------------------------------------------------------------------
(* The actions of a user and its requester                                 *)

\* A connection attempt that is given up is one that is dropped at once.
Open(u, c) ==
  /\ Go(u, "away", "idle")
  /\ Connect(c)
  /\ conn' = [conn EXCEPT ![u] = c]
  /\ UNCHANGED <<main, calls, results, places>>

Call(u) ==
  /\ Go(u, "idle", "writing")
  /\ Last(u) < MaxCalls
  /\ \E command \in Calls : calls' = [calls EXCEPT ![u] = Append(@, command)]
  /\ results' = [results EXCEPT ![u] = Append(@, Pending)]
  /\ places' = [places EXCEPT ![u] = Append(@, [conn |-> conn[u], at |-> 0])]
  /\ UNCHANGED <<vars, conn>>

\* Of a request that is too large the server sees too much before it is all
\* written.
Overrun(u) ==
  /\ phase[u] = "writing" /\ ~Written(u)
  /\ RequestFor(Current(u)) = Malformed
  /\ Put(u, Malformed)
  /\ OnWire /\ UNCHANGED <<conn, phase, calls, results>>

\* The request is written and flushed, in time.
WriteRequest(u) ==
  /\ Go(u, "writing", "reading")
  /\ ~Written(u)
  /\ RequestFor(Current(u)) # Malformed
  /\ Put(u, RequestFor(Current(u)))
  /\ OnWire /\ UNCHANGED <<conn, calls, results>>

\* The write ends, though nobody will read it or what is left of it.
WriteInVain(u) ==
  /\ Go(u, "writing", "reading")
  /\ Written(u) \/ ~Reachable(conn[u])
  /\ UNCHANGED <<vars, conn, calls, results, places>>

Severed(c) == peer[c] = "gone" \/ ~Reachable(c)

WriteError(u) ==
  /\ Go(u, "writing", "idle")
  /\ Severed(conn[u])
  /\ Return(u, Failed)
  /\ UNCHANGED <<vars, conn, calls, places>>

ReadResponse(u) ==
  LET c == conn[u]
  IN  /\ Go(u, "reading", "idle")
      /\ ReadReply(c)
      /\ Return(u, Interpret(Current(u), out[c][taken[c] + 1]))
      /\ OnWire /\ UNCHANGED <<conn, calls, places>>

\* The server has closed, or the connection is broken: what it wrote before
\* is read first, unless a reset has overtaken it.
ReadError(u) ==
  LET c == conn[u]
  IN  /\ Go(u, "reading", "idle")
      /\ Severed(c)
      /\ taken[c] = Len(out[c]) \/ Unread(c) \/ peer[c] = "gone" \/ ~Written(u)
      /\ Return(u, Failed)
      /\ UNCHANGED <<vars, conn, calls, places>>

\* The write timeout, or the call's future is dropped: a part of the request
\* may be on the wire, and the rest is not.
GiveUpWriting(u) ==
  /\ Go(u, "writing", "stale")
  /\ Return(u, Failed)
  /\ UNCHANGED <<conn, calls>>
  /\ \/ UNCHANGED <<vars, places>>
     \/ ~Written(u) /\ Put(u, Partial) /\ OnWire

\* Mutant: the caller goes on using a requester that timed out.
GiveUpLightly(u) ==
  /\ Go(u, "reading", "idle")
  /\ Return(u, Failed)
  /\ UNCHANGED <<vars, conn, calls, places>>

\* The read timeout, or the call's future is dropped: the response may still
\* come, and nobody will read it.
GiveUpReading(u) ==
  /\ Go(u, "reading", "stale")
  /\ Return(u, Failed)
  /\ UNCHANGED <<vars, conn, calls, places>>

\* Dropping the requester closes its socket: with a reset if something unread
\* is there, or when something comes later.
Drop(u) ==
  LET c == conn[u]
  IN  /\ phase[u] \in {"idle", "stale"}
      /\ phase' = [phase EXCEPT ![u] = "away"]
      /\ conn' = [conn EXCEPT ![u] = NoConn]
      /\ \/ CloseSend(c)
         \/ taken[c] < Len(out[c]) /\ Reset(c)
         \/ Severed(c) /\ UNCHANGED handlerVars
      /\ OnWire /\ UNCHANGED <<calls, results, places>>

\* The connection breaks, or a closed socket answers data with a reset.
Break(c) ==
  /\ stage[c] # "away"
  /\ Reset(c)
  /\ OnWire /\ UNCHANGED users

\* A call goes on as soon as it can.
Exchange(u) ==
  \/ Overrun(u) \/ WriteRequest(u) \/ WriteInVain(u) \/ WriteError(u)
  \/ ReadResponse(u) \/ ReadError(u)

User(u) ==
  \/ \E c \in Conns : Open(u, c)
  \/ Call(u)
  \/ Exchange(u)
  \/ GiveUpWriting(u) \/ GiveUpReading(u)
  \/ Drop(u)

ServerStep ==
  \/ CtrlC
  \/ Shutdown
  \/ AcceptLoop
  \/ AcceptError
  \/ \E c \in Conns : Task(c) \/ Timeout(c)
  \/ Exited

CallInit ==
  /\ Init
  /\ conn = [u \in Users |-> NoConn]
  /\ phase = [u \in Users |-> "away"]
  /\ calls = [u \in Users |-> <<>>]
  /\ results = [u \in Users |-> <<>>]
  /\ places = [u \in Users |-> <<>>]

CallNext ==
  \/ ServerStep /\ UNCHANGED users
  \/ \E u \in Users : User(u)
  \/ \E c \in Conns : Break(c)

CallSpec == CallInit /\ [][CallNext]_callVars

\* The server's fairness, with read timeouts that fire, and no call that waits
\* without need.  No user ever has to begin a call, or to give one up.
CallFairness ==
  /\ WF_callVars(Shutdown /\ UNCHANGED users)
  /\ WF_callVars(AcceptLoop /\ UNCHANGED users)
  /\ \A c \in Conns :
       /\ WF_callVars(Task(c) /\ UNCHANGED users)
       /\ WF_callVars(Timeout(c) /\ UNCHANGED users)
  /\ \A u \in Users : WF_callVars(Exchange(u))

FairCallSpec == CallSpec /\ CallFairness

-----------------------------------------------------------------------------
(* Properties                                                              *)

CallTypeOK ==
  /\ TypeOK
  /\ conn \in [Users -> Conns \cup {NoConn}]
  /\ phase \in [Users -> Phases]
  /\ calls \in [Users -> Seq(Calls)]
  /\ results \in [Users -> Seq(Reply \cup {Pending, Failed})]
  /\ places \in [Users -> Seq([conn : Conns, at : Nat])]
  /\ \A u \in Users : conn[u] = NoConn <=> phase[u] = "away"

\* What the server has made of a request so far, whatever became of its caller.
Outcome(place) ==
  IF place.at \in 1..parsed[place.conn]
  THEN Executed(place.conn)[place.at] ELSE Unanswered

\* Requesters and server together are a map with atomic calls: a call that
\* returns an answer took effect once, between its beginning and its return, and
\* gets its own answer; one that failed may still take effect, later and after
\* its caller has reconnected, but once (requester.rs:103-110).
CallsOnAMap == INSTANCE CallService WITH
  effects <- [u \in Users |-> [i \in DOMAIN places[u] |-> Outcome(places[u][i])]]

ImplementsCalls == CallsOnAMap!Spec

\* Why errors other than a timeout need no new requester (requester.rs:15-20): on
\* a connection that is free for the next call nothing of the calls before is left,
\* neither unread nor unanswered nor half executed, or nothing will come of the
\* next call.
IdleIsClean ==
  \A u \in Users : phase[u] = "idle" =>
    LET c == conn[u]
    IN  \/ peer[c] = "gone" \/ stage[c] \in {"unguarded", "released", "ended"}
        \/ /\ taken[c] = Len(out[c])
           /\ parsed[c] = Len(sent[c])
           /\ stage[c] # "writing"

\* The final report accounts for the calls (concurrency_test.rs:172-174): as many
\* requests as calls took effect, and no fewer responses than calls returned one.
AllCalls == UNION {{<<u, i>> : i \in DOMAIN calls[u]} : u \in Users}

ReportCountsCalls ==
  main = "done" =>
    LET executed == {p \in AllCalls : Outcome(places[p[1]][p[2]]) # Unanswered}
        returned == {p \in AllCalls : results[p[1]][p[2]] \notin {Pending, Failed}}
    IN  /\ metrics["requests_received"] = Cardinality(executed)
        /\ metrics["command_responses_written"]
             \in Cardinality(returned)..Cardinality(executed)

\* Every call returns, without its own timeouts: while all slots are taken, when the
\* server gives up on the connection, and across shutdown, which answers the call
\* or closes its connection, also in the listener's queue.
CallsReturn ==
  \A u \in Users : phase[u] \in {"writing", "reading"} ~>
                    phase[u] \notin {"writing", "reading"}
=============================================================================
