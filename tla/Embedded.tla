------------------------------ MODULE Embedded ------------------------------
(***************************************************************************)
(* A program that embeds the library as the integration tests do           *)
(* (spawn_test_server): the accept loop is a task of its own, so it runs   *)
(* while the host sends the shutdown message and waits for completion.     *)
(* The host keeps the broadcast sender while it waits.                     *)
(***************************************************************************)
EXTENDS Acceptor

VARIABLE host   \* where the host is: "serving", "await" or "done"

vars == <<handlerVars, acceptorVars, host>>

-----------------------------------------------------------------------------

\* The host sends the shutdown message, at a moment of its own choosing.
Broadcast ==
  /\ host = "serving"
  /\ host' = "await"
  /\ notified' = Receivers
  /\ UNCHANGED <<store, stage, client, input, output, metrics, permits,
                 completion, acceptorVars>>

\* The loop's task ends and drops the acceptor it owns.
EndTask == DropAcceptor /\ UNCHANGED host

Loop == (LoopProgress \/ StopAccepting) /\ UNCHANGED host

AcceptError == AcceptFails /\ UNCHANGED host

\* recv() on the completion channel returns None.
AwaitCompletion ==
  /\ host = "await"
  /\ completion = {}
  /\ host' = "done"
  /\ UNCHANGED <<handlerVars, acceptorVars>>

Task(c)    == Progress(c) /\ UNCHANGED <<acceptorVars, host>>
Timeout(c) == ReadTimeout(c) /\ UNCHANGED <<acceptorVars, host>>

Peer(c) ==
  \/ Client(c) /\ UNCHANGED <<acceptorVars, host>>
  \/ Connect(c) /\ UNCHANGED host

Exited == host = "done" /\ UNCHANGED vars

\* spawn_test_server drops its own completion sender when it returns.
Init ==
  /\ AcceptorInit({"acceptor"})
  /\ host = "serving"

Next ==
  \/ Broadcast
  \/ Loop
  \/ AcceptError
  \/ EndTask
  \/ AwaitCompletion
  \/ \E c \in Conns : Task(c) \/ Timeout(c) \/ Peer(c)
  \/ Exited

Spec == Init /\ [][Next]_vars

Fairness ==
  /\ WF_vars(Loop)
  /\ WF_vars(EndTask)
  /\ WF_vars(AwaitCompletion)
  /\ \A c \in Conns : WF_vars(Task(c)) /\ WF_vars(Timeout(c))

FairSpec == Spec /\ Fairness

-----------------------------------------------------------------------------
(* Properties                                                              *)

TypeOK == AcceptorTypeOK /\ host \in {"serving", "await", "done"}

\* Closing of the completion channel means the loop is gone and no task is
\* left, also when the two race (server_e2e_test.rs:213).
CompletionIsFinal ==
  host = "done" =>
    /\ Subscribed = {}
    /\ acceptor = "dropped"
    /\ metrics["active_connections"] = 0

\* The accept loop and the tasks still form a bounded pool, which drains from
\* the moment the loop stops, not from the moment shutdown is requested.
Pool == INSTANCE ConnectionPool WITH
  phase <- IF host = "done" THEN "closed"
           ELSE IF acceptor \in {"stopped", "dropped"} THEN "draining" ELSE "open",
  live  <- Subscribed,
  left  <- {c \in Conns : stage[c] \in {"released", "ended"}}

ImplementsPool == Pool!Spec

\* A loop that was polled before the message was sent hears of it, wherever it
\* stands (acceptor.rs:77), and shutdown completes, unless from some point on all
\* tasks that are left wait for clients that do not read.  A connection that is
\* accepted after the message was sent gets a receiver that will not see it
\* (acceptor.rs:116): it is the read timeout that ends such a task, which the
\* binary, where the loop has been dropped by then, does not need.
ShutdownCompletes ==
  [](host = "serving" /\ acceptor # "starting" =>
       (host = "await" ~> (host = "done" \/ []HeldUp)))
=============================================================================
