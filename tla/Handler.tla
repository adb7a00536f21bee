------------------------------ MODULE Handler ------------------------------
(***************************************************************************)
(* The connection tasks (handler.rs, and the task acceptor.rs spawns): one *)
(* per accepted connection, all sharing the database, the metrics, the     *)
(* slot semaphore and the shutdown channels, each facing its own client.   *)
(*                                                                         *)
(* A step is what a task does between two points where it can be suspended *)
(* or observed: an await, or the drop of something other tasks can see.    *)
(* Between two awaits a task touches the mutex at most once and otherwise  *)
(* only bumps counters, so nothing can tell where inside a step it is.     *)
(*                                                                         *)
(* The two byte streams of a connection are sequences that only grow, of   *)
(* the inputs the client wrote and of the frames the server wrote, with    *)
(* the positions up to which each side has read.                           *)
(***************************************************************************)
EXTENDS Command, FiniteSets

CONSTANTS
  Conns,       \* connections, each opened at most once
  Inputs,      \* what a client may write
  MaxInputs,   \* bound: inputs a client writes on one connection
  SendWindow   \* replies the sockets hold before a write blocks

\* Input the frame reader rejects: bad framing, or more than the buffer holds.
Malformed == [type |-> "Malformed"]
\* A frame whose last bytes the client never sends.
Partial   == [type |-> "Partial"]

ASSUME HandlerAssumption ==
  /\ IsFiniteSet(Conns)
  /\ Inputs \subseteq Frame \cup {Malformed, Partial}
  /\ MaxInputs \in Nat
  /\ SendWindow \in Nat \ {0}

VARIABLES
  store,       \* the database
  stage,       \* where each connection and its task are
  sent,        \* inputs the client wrote
  peer,        \* the client's end: "open", "eof" (write side shut), "gone" (reset)
  taken,       \* number of replies the client has read
  fetched,     \* number of inputs moved into the task's read buffer
  parsed,      \* number of inputs consumed from it as frames
  reply,       \* the response being written: <<>> or <<frame>>
  out,         \* replies written
  metrics,     \* the counters of metrics.rs
  permits,     \* free permits of the semaphore
  completion,  \* who holds a sender of the shutdown-completion channel
  notified     \* whose broadcast receiver has an unread shutdown message

client == <<sent, peer, taken>>
input  == <<fetched, parsed>>
output == <<reply, out>>
shared == <<permits, completion, notified>>
handlerVars == <<store, stage, client, input, output, metrics, shared>>

\* A task drops its guard, then its socket and its channel ends, then its permit.
Stages == {"away", "queued", "spawned", "reading", "writing", "reporting",
           "unguarded", "released", "ended"}

Running     == {c \in Conns : stage[c] \in {"reading", "writing", "reporting"}}
Subscribed  == Running \cup {c \in Conns : stage[c] \in {"spawned", "unguarded"}}
SlotHolders == Subscribed \cup {c \in Conns : stage[c] = "released"}

CounterNames == {"active_connections", "requests_received",
                 "command_responses_written", "cache_hits", "cache_misses",
                 "command_parse_errors", "accept_errors"}

-----------------------------------------------------------------------------
(* Metrics                                                                 *)

Count(names) ==
  metrics' = [n \in CounterNames |->
                IF n \in names THEN metrics[n] + 1 ELSE metrics[n]]

\* Mutant: every answered GET is taken for a hit.
TallyAnyGet(command, response) ==
  {"requests_received"}
    \cup (IF command.op = "Reject" THEN {"command_parse_errors"} ELSE {})
    \cup (IF command.op = "GET" THEN {"cache_hits"} ELSE {})

\* What executing a command counts before the response is written.
Tally(command, response) ==
  {"requests_received"}
    \cup (IF command.op = "Reject" THEN {"command_parse_errors"} ELSE {})
    \cup (IF command.op = "GET" /\ response.type = "Bulk" THEN {"cache_hits"} ELSE {})
    \cup (IF command.op = "GET" /\ response.type = "Null" THEN {"cache_misses"} ELSE {})

\* Mutant: the count is decremented by hand as well as by the guard.
DropGuardTwice == metrics' = [metrics EXCEPT !["active_connections"] = @ - 2]

DropGuard == metrics' = [metrics EXCEPT !["active_connections"] = @ - 1]

-----------------------------------------------------------------------------
(* Reading and writing                                                     *)

Unread(c)    == parsed[c] < Len(sent[c])
NextInput(c) == sent[c][parsed[c] + 1]

HeadIs(c, kinds) == Unread(c) /\ NextInput(c) \in kinds

\* read_frame answers from the buffer alone when it can, and only otherwise
\* waits for the socket, whose reads bring any part of what was written.
Settled(c) == parsed[c] < fetched[c] /\ NextInput(c) # Partial
Fetches(c) == IF Settled(c) THEN {fetched[c]} ELSE (parsed[c] + 1)..Len(sent[c])

Blocked(c) == peer[c] # "gone" /\ Len(out[c]) - taken[c] >= SendWindow
CanSend(c) == peer[c] # "gone" /\ ~Blocked(c)

-----------------------------------------------------------------------------
(* The task                                                                *)

MoveTo(c, from, to) ==
  /\ stage[c] = from
  /\ stage' = [stage EXCEPT ![c] = to]

\* run() starts: the guard counts the handler as active.
Start(c) ==
  /\ MoveTo(c, "spawned", "reading")
  /\ Count({"active_connections"})
  /\ UNCHANGED <<store, client, input, output, shared>>

\* Mutant: the count is decremented by every task that ends.
NodelayFailsCounted(c) ==
  /\ MoveTo(c, "spawned", "unguarded")
  /\ DropGuard
  /\ UNCHANGED <<store, client, input, output, shared>>

\* set_nodelay fails: the task ends before it has a handler.
NodelayFails(c) ==
  /\ MoveTo(c, "spawned", "unguarded")
  /\ UNCHANGED <<store, client, input, output, metrics, shared>>

\* A complete frame is read, counted, parsed as a command and executed.
Serve(c) ==
  LET command  == FromFrame(NextInput(c))
      response == Response(command, store)
  IN  /\ MoveTo(c, "reading", "writing")
      /\ HeadIs(c, Inputs \ {Malformed, Partial})
      /\ \E n \in Fetches(c) : fetched' = [fetched EXCEPT ![c] = n]
      /\ parsed' = [parsed EXCEPT ![c] = @ + 1]
      /\ store' = Effect(command, store)
      /\ reply' = [reply EXCEPT ![c] = <<response>>]
      /\ Count(Tally(command, response))
      /\ UNCHANGED <<client, out, shared>>

Respond(c) ==
  /\ MoveTo(c, "writing", "reading")
  /\ CanSend(c)
  /\ out' = [out EXCEPT ![c] = @ \o reply[c]]
  /\ reply' = [reply EXCEPT ![c] = <<>>]
  /\ Count({"command_responses_written"})
  /\ UNCHANGED <<store, client, input, shared>>

\* Mutant: a failed write is logged and the loop goes on.
WriteFailsIgnored(c) ==
  /\ MoveTo(c, "writing", "reading")
  /\ peer[c] = "gone"
  /\ UNCHANGED <<store, client, input, output, metrics, shared>>

\* The response cannot be written; the command stays executed.
WriteFails(c) ==
  /\ MoveTo(c, "writing", "unguarded")
  /\ peer[c] = "gone"
  /\ DropGuard
  /\ UNCHANGED <<store, client, input, output, shared>>

\* read_frame fails: bad input, end of input inside a frame, or a reset.
ReadFails(c) ==
  /\ MoveTo(c, "reading", "reporting")
  /\ \/ HeadIs(c, {Malformed})
     \/ HeadIs(c, {Partial}) /\ peer[c] = "eof"
     \/ peer[c] = "gone" /\ ~Settled(c)
  /\ reply' = [reply EXCEPT ![c] = <<ErrorFrame>>]
  /\ UNCHANGED <<store, client, input, out, metrics, shared>>

\* The read error is sent to the client or not; the task ends either way.
Report(c) ==
  /\ MoveTo(c, "reporting", "unguarded")
  /\ \/ CanSend(c) /\ out' = [out EXCEPT ![c] = @ \o reply[c]]
     \/ peer[c] = "gone" /\ UNCHANGED out
  /\ reply' = [reply EXCEPT ![c] = <<>>]
  /\ DropGuard
  /\ UNCHANGED <<store, client, input, shared>>

\* A reset that follows the client's end of input can still read as the latter.
EndOfInput(c) ==
  /\ MoveTo(c, "reading", "unguarded")
  /\ peer[c] # "open" /\ ~Unread(c)
  /\ DropGuard
  /\ UNCHANGED <<store, client, input, output, shared>>

\* Mutant: a timeout starts another read instead of ending the handler.
ReadTimeoutIgnored(c) ==
  /\ MoveTo(c, "reading", "reading")
  /\ ~Settled(c)
  /\ UNCHANGED <<store, client, input, output, metrics, shared>>

\* The read times out, though what it waits for may be on its way.
ReadTimeout(c) ==
  /\ MoveTo(c, "reading", "unguarded")
  /\ ~Settled(c)
  /\ DropGuard
  /\ UNCHANGED <<store, client, input, output, shared>>

\* select! has no priority: shutdown may win over a frame that is ready.
ShutdownSelected(c) ==
  /\ MoveTo(c, "reading", "unguarded")
  /\ c \in notified
  /\ notified' = notified \ {c}
  /\ DropGuard
  /\ UNCHANGED <<store, client, input, output, permits, completion>>

\* The handler's fields go in order: socket, receiver, completion sender ...
DropHandler(c) ==
  /\ MoveTo(c, "unguarded", "released")
  /\ notified' = notified \ {c}
  /\ completion' = completion \ {c}
  /\ UNCHANGED <<store, client, input, output, metrics, permits>>

\* ... and the permit last.
DropPermit(c) ==
  /\ MoveTo(c, "released", "ended")
  /\ permits' = permits + 1
  /\ UNCHANGED <<store, client, input, output, metrics, completion, notified>>

Ending(c) ==
  \/ NodelayFails(c) \/ WriteFails(c) \/ ReadFails(c) \/ Report(c)
  \/ EndOfInput(c) \/ ShutdownSelected(c) \/ DropHandler(c) \/ DropPermit(c)

\* Every step of the task but the timeout.
Progress(c) == Start(c) \/ Serve(c) \/ Respond(c) \/ Ending(c)

-----------------------------------------------------------------------------
(* The client's end of the connection.  Nothing obliges a client to act.   *)

Reachable(c) == stage[c] \notin {"away", "released", "ended"}

Send(c) ==
  /\ Reachable(c)
  /\ peer[c] = "open"
  /\ Len(sent[c]) < MaxInputs
  /\ \A i \in 1..Len(sent[c]) : sent[c][i] # Partial
  /\ \E m \in Inputs : sent' = [sent EXCEPT ![c] = Append(@, m)]
  /\ UNCHANGED <<store, stage, peer, taken, input, output, metrics, shared>>

CloseSend(c) ==
  /\ Reachable(c)
  /\ peer[c] = "open"
  /\ peer' = [peer EXCEPT ![c] = "eof"]
  /\ UNCHANGED <<store, stage, sent, taken, input, output, metrics, shared>>

Reset(c) ==
  /\ Reachable(c)
  /\ peer[c] # "gone"
  /\ peer' = [peer EXCEPT ![c] = "gone"]
  /\ UNCHANGED <<store, stage, sent, taken, input, output, metrics, shared>>

ReadReply(c) ==
  /\ peer[c] # "gone"
  /\ taken[c] < Len(out[c])
  /\ taken' = [taken EXCEPT ![c] = @ + 1]
  /\ UNCHANGED <<store, stage, sent, peer, input, output, metrics, shared>>

Client(c) == Send(c) \/ CloseSend(c) \/ Reset(c) \/ ReadReply(c)

-----------------------------------------------------------------------------

Fresh ==
  /\ store = EmptyDatabase
  /\ sent = [c \in Conns |-> <<>>]
  /\ peer = [c \in Conns |-> "open"]
  /\ taken = [c \in Conns |-> 0]
  /\ fetched = [c \in Conns |-> 0]
  /\ parsed = [c \in Conns |-> 0]
  /\ reply = [c \in Conns |-> <<>>]
  /\ out = [c \in Conns |-> <<>>]
  /\ metrics = [n \in CounterNames |-> 0]

\* The tasks on their own: every connection accepted, and shutdown requested,
\* which each task may notice at any of its reads or not at all.
TasksInit ==
  /\ Fresh
  /\ stage = [c \in Conns |-> "spawned"]
  /\ permits = 0
  /\ completion = Conns
  /\ notified = Conns

TasksNext == \E c \in Conns : Progress(c) \/ ReadTimeout(c) \/ Client(c)

TasksSpec == TasksInit /\ [][TasksNext]_handlerVars

-----------------------------------------------------------------------------
(* Properties                                                              *)

\* A write waits for the client to read.
WriteBlocked(c) == stage[c] \in {"writing", "reporting"} /\ Blocked(c)

\* Tasks are left, and each waits for its client to read.
HeldUp == Subscribed # {} /\ \A c \in Subscribed : WriteBlocked(c)

HandlerTypeOK ==
  /\ store \in Database
  /\ stage \in [Conns -> Stages]
  /\ sent \in [Conns -> Seq(Inputs)]
  /\ peer \in [Conns -> {"open", "eof", "gone"}]
  /\ taken \in [Conns -> Nat]
  /\ fetched \in [Conns -> Nat]
  /\ parsed \in [Conns -> Nat]
  /\ reply \in [Conns -> Seq(Reply)]
  /\ out \in [Conns -> Seq(Reply)]
  /\ metrics \in [CounterNames -> Nat]
  /\ permits \in Nat

\* The answers to executed commands: those written, then the one being written
\* (or that could not be).  The reply to a read error is not one of them.
Executed(c) == IF stage[c] = "reporting" THEN out[c] ELSE out[c] \o reply[c]

\* The tasks implement the service: a request is executed when Serve decides
\* its response, whether or not that response can be written afterwards.
Service == INSTANCE KVService WITH
  requests <- sent,
  answers  <- [c \in Conns |-> Executed(c)],
  over     <- {c \in Conns : stage[c] \in {"unguarded", "released", "ended"}}

ImplementsService == Service!Spec

\* The active gauge is the number of live guards (metrics.rs: "the number of
\* handlers with a live run() guard"), however a task leaves run() or fails
\* to enter it.
ActiveGauge == metrics["active_connections"] = Cardinality(Running)

\* The counters account for the traffic (metrics.rs:45-107): each is the number
\* of inputs, answers or written replies of its kind, over all connections.
\* The reply to a read error, written after the last consumed frame, is in none.
Pairs == Conns \X (1..MaxInputs)
Served == {p \in Pairs : p[2] <= parsed[p[1]]}
OpOf == [m \in Inputs \ {Malformed, Partial} |-> FromFrame(m).op]
Asked(op) == {p \in Served : OpOf[sent[p[1]][p[2]]] = op}
Answered(op, type) == {p \in Asked(op) : Executed(p[1])[p[2]].type = type}

MetricsMatchTraffic ==
  /\ metrics["requests_received"] = Cardinality(Served)
  /\ metrics["command_parse_errors"] = Cardinality(Asked("Reject"))
  /\ metrics["cache_hits"] = Cardinality(Answered("GET", "Bulk"))
  /\ metrics["cache_misses"] = Cardinality(Answered("GET", "Null"))
  /\ metrics["command_responses_written"]
       = Cardinality({p \in Served : p[2] <= Len(out[p[1]])})
=============================================================================
