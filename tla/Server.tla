------------------------------- MODULE Server -------------------------------
(***************************************************************************)
(* The server binary (bin/server.rs).  Its main task polls the accept loop *)
(* and the Ctrl+C listener in one select!, so the loop takes no step once  *)
(* Ctrl+C has won; then it shuts down in a fixed order.  The loop's own    *)
(* exits, its shutdown branch and a closed semaphore, cannot happen here:  *)
(* only main sends the message, after the select!, and nothing closes the  *)
(* semaphore.                                                              *)
(***************************************************************************)
EXTENDS Acceptor

VARIABLE main   \* where main is

vars == <<handlerVars, acceptorVars, main>>

MainStages == {"serving", "notify", "release", "detach", "await", "done"}

MoveMain(from, to) ==
  /\ main = from
  /\ main' = to

-----------------------------------------------------------------------------

\* The select! ends: the accept loop's future is dropped where it stands.
CtrlC ==
  /\ MoveMain("serving", "notify")
  /\ DropRun
  /\ UNCHANGED <<store, stage, client, input, output, metrics, completion, backlog>>

\* shutdown_tx.send: every receiver that exists now gets the message.
Notify ==
  /\ MoveMain("notify", "release")
  /\ notified' = Receivers
  /\ UNCHANGED <<store, stage, client, input, output, metrics, permits,
                 completion, acceptorVars>>

ReleaseAcceptor ==
  /\ MoveMain("release", "detach")
  /\ DropAcceptor

\* Mutant: main keeps its own completion sender while it waits.
KeepSender ==
  /\ MoveMain("detach", "await")
  /\ UNCHANGED <<handlerVars, acceptorVars>>

DetachSender ==
  /\ MoveMain("detach", "await")
  /\ completion' = completion \ {"main"}
  /\ UNCHANGED <<store, stage, client, input, output, metrics, permits,
                 notified, acceptorVars>>

\* Mutant: main does not wait for the tasks.
AwaitNothing ==
  /\ MoveMain("await", "done")
  /\ UNCHANGED <<handlerVars, acceptorVars>>

\* recv() returns when the last sender is gone; main then reads the metrics.
AwaitCompletion ==
  /\ MoveMain("await", "done")
  /\ completion = {}
  /\ UNCHANGED <<handlerVars, acceptorVars>>

Shutdown == Notify \/ ReleaseAcceptor \/ DetachSender \/ AwaitCompletion

AcceptLoop ==
  /\ main = "serving"
  /\ LoopProgress
  /\ UNCHANGED main

AcceptError ==
  /\ main = "serving"
  /\ AcceptFails
  /\ UNCHANGED main

Task(c)    == Progress(c) /\ UNCHANGED <<acceptorVars, main>>
Timeout(c) == ReadTimeout(c) /\ UNCHANGED <<acceptorVars, main>>

Peer(c) ==
  \/ Client(c) /\ UNCHANGED <<acceptorVars, main>>
  \/ Connect(c) /\ UNCHANGED main

Exited == main = "done" /\ UNCHANGED vars

Init == AcceptorInit({"main", "acceptor"}) /\ main = "serving"

Next ==
  \/ CtrlC
  \/ Shutdown
  \/ AcceptLoop
  \/ AcceptError
  \/ \E c \in Conns : Task(c) \/ Timeout(c) \/ Peer(c)
  \/ Exited

Spec == Init /\ [][Next]_vars

\* The runtime polls every task that can run.  Nothing makes a client act, a
\* signal arrive or an accept fail.
Fairness ==
  /\ WF_vars(Shutdown)
  /\ WF_vars(AcceptLoop)
  /\ \A c \in Conns : WF_vars(Task(c))

FairSpec == Spec /\ Fairness

\* Read timeouts do fire: assumed only where a property says so.
TimeoutsFire == \A c \in Conns : WF_vars(Timeout(c))

-----------------------------------------------------------------------------
(* Properties                                                              *)

TypeOK == AcceptorTypeOK /\ main \in MainStages

Past(stages) == main \in MainStages \ ({"serving"} \cup stages)

\* Once shutdown has been sent, every task that may still wait for a request
\* has the message waiting (server.rs:93, acceptor.rs:16): no connection slips
\* in between the send and its subscription and keeps main waiting.
HandlersHearShutdown ==
  Past({"notify"}) =>
    \A c \in Conns :
      stage[c] \in {"spawned", "reading", "writing"} => c \in notified

\* The completion channel closes exactly when the tasks are gone: every task
\* with a handler, and every owner that can still make one, holds a sender
\* (server.rs:100, handler.rs:38).
SendersTrackTasks ==
  completion = Subscribed
    \cup (IF acceptor # "dropped" THEN {"acceptor"} ELSE {})
    \cup (IF Past({"notify", "release", "detach"}) THEN {} ELSE {"main"})

\* What main reports is final (server.rs:103-115): no guard is alive, and the
\* gauge it reads is zero.
FinalReportQuiescent ==
  main = "done" => Subscribed = {} /\ metrics["active_connections"] = 0

\* ... and nothing is counted, stored or written after the report.
FinalReportStable == [][main = "done" => UNCHANGED <<metrics, store, out>>]_vars

\* The server implements the bounded pool of connections with its shutdown.
PoolPhase == IF main = "serving" THEN "open"
             ELSE IF main = "done" THEN "closed" ELSE "draining"

Pool == INSTANCE ConnectionPool WITH
  phase <- PoolPhase,
  live  <- Subscribed,
  left  <- {c \in Conns : stage[c] \in {"released", "ended"}}

ImplementsPool == Pool!Spec

\* Shutdown ends without help from clients or timeouts, unless from some point on
\* main waits for nothing but writes to clients that do not read (handler.rs:77,
\* server.rs:102).
ShutdownCompletes == main = "notify" ~> (main = "done" \/ []HeldUp)

\* Every slot is taken by a task that waits for its client to read.
AllSlotsHeldUp ==
  /\ Cardinality(SlotHolders) = MaxConnections
  /\ \A c \in SlotHolders : WriteBlocked(c)

\* A waiting connection is served or turned away: slots are given back by tasks
\* whose clients fall silent (handler.rs:42, acceptor.rs:58).  Nothing keeps it
\* waiting for ever but clients that do not read, one for every slot.
WaitingIsOver ==
  TimeoutsFire =>
    \A c \in Conns :
      stage[c] = "queued" ~> (stage[c] # "queued" \/ []AllSlotsHeldUp)
=============================================================================
