------------------------------ MODULE Acceptor ------------------------------
(***************************************************************************)
(* The accept loop (acceptor.rs): it reserves a permit, then waits for a   *)
(* connection or for shutdown, and hands the connection, the permit, a     *)
(* shutdown receiver and a completion sender to a task of its own.         *)
(*                                                                         *)
(* Who runs the loop, drops it and sends the shutdown message differs: see *)
(* Server for the binary and Embedded for a program that spawns the loop.  *)
(***************************************************************************)
EXTENDS Handler

CONSTANTS
  MaxConnections,   \* permits of the semaphore
  MaxAcceptErrors   \* bound: accept errors counted

ASSUME AcceptorAssumption ==
  /\ MaxConnections \in Nat
  /\ MaxAcceptErrors \in Nat
  /\ {"main", "acceptor"} \cap Conns = {}

VARIABLES
  acceptor,  \* where the accept loop is
  backlog    \* connections the listener holds, oldest first

acceptorVars == <<acceptor, backlog>>

AcceptorStages ==
  {"starting", "acquire", "select", "backoff", "stopped", "dropped"}

HoldsPermit  == acceptor \in {"select", "backoff"}
ListenerOpen == acceptor # "dropped"

\* Mutant: a task subscribes when it starts to run, not before it is spawned.
ReceiversRunning == Running

\* Mutant: the loop subscribes anew whenever it has a permit.
ReceiversLate == Subscribed \cup (IF HoldsPermit THEN {"acceptor"} ELSE {})

\* The broadcast channel's receivers that live in the library's own tasks.
Receivers == Subscribed \cup
  (IF HoldsPermit \/ acceptor = "acquire" THEN {"acceptor"} ELSE {})

MoveAcceptor(from, to) ==
  /\ acceptor = from
  /\ acceptor' = to

KeepPermit    == UNCHANGED permits   \* mutant: a failed attempt leaks its permit
ReleasePermit == permits' = permits + 1

-----------------------------------------------------------------------------

\* The operating system completes the handshake and queues the connection.
Connect(c) ==
  /\ MoveTo(c, "away", "queued")
  /\ ListenerOpen
  /\ backlog' = Append(backlog, c)
  /\ UNCHANGED <<store, client, input, output, metrics, shared, acceptor>>

\* The first poll of run(): only now does the loop have a receiver.
Subscribe ==
  /\ MoveAcceptor("starting", "acquire")
  /\ UNCHANGED <<handlerVars, backlog>>

AcquirePermit ==
  /\ MoveAcceptor("acquire", "select")
  /\ permits > 0
  /\ permits' = permits - 1
  /\ UNCHANGED <<store, stage, client, input, output, metrics, completion,
                 notified, backlog>>

\* Mutant: the task is spawned without a clone of the completion sender.
AcceptUntracked ==
  /\ MoveAcceptor("select", "acquire")
  /\ backlog # <<>>
  /\ stage' = [stage EXCEPT ![Head(backlog)] = "spawned"]
  /\ backlog' = Tail(backlog)
  /\ UNCHANGED <<store, client, input, output, metrics, shared>>

\* Mutant: the permit ends with the loop's iteration instead of moving along.
AcceptDropsPermit ==
  /\ MoveAcceptor("select", "acquire")
  /\ backlog # <<>>
  /\ stage' = [stage EXCEPT ![Head(backlog)] = "spawned"]
  /\ completion' = completion \cup {Head(backlog)}
  /\ backlog' = Tail(backlog)
  /\ ReleasePermit
  /\ UNCHANGED <<store, client, input, output, metrics, notified>>

\* The task gets a receiver that sees the messages sent from now on.
Accept ==
  /\ MoveAcceptor("select", "acquire")
  /\ backlog # <<>>
  /\ stage' = [stage EXCEPT ![Head(backlog)] = "spawned"]
  /\ completion' = completion \cup {Head(backlog)}
  /\ backlog' = Tail(backlog)
  /\ UNCHANGED <<store, client, input, output, metrics, permits, notified>>

\* The connection was reset while it waited: counted and retried at once.
AcceptAborted ==
  /\ MoveAcceptor("select", "acquire")
  /\ backlog # <<>>
  /\ peer[Head(backlog)] = "gone"
  /\ metrics["accept_errors"] < MaxAcceptErrors
  /\ stage' = [stage EXCEPT ![Head(backlog)] = "ended"]
  /\ backlog' = Tail(backlog)
  /\ Count({"accept_errors"})
  /\ ReleasePermit
  /\ UNCHANGED <<store, client, input, output, completion, notified>>

\* Any other error: counted, and retried after a pause that keeps the permit.
AcceptFails ==
  /\ MoveAcceptor("select", "backoff")
  /\ metrics["accept_errors"] < MaxAcceptErrors
  /\ Count({"accept_errors"})
  /\ UNCHANGED <<store, stage, client, input, output, shared, backlog>>

RetryAccept ==
  /\ MoveAcceptor("backoff", "acquire")
  /\ ReleasePermit
  /\ UNCHANGED <<store, stage, client, input, output, metrics, completion,
                 notified, backlog>>

\* The loop receives the shutdown message; select! gives it no priority.
StopAccepting ==
  /\ MoveAcceptor("select", "stopped")
  /\ "acceptor" \in notified
  /\ notified' = notified \ {"acceptor"}
  /\ ReleasePermit
  /\ UNCHANGED <<store, stage, client, input, output, metrics, completion, backlog>>

\* Every step of the loop but the errors the environment may or may not raise.
LoopProgress == Subscribe \/ AcquirePermit \/ Accept \/ AcceptAborted \/ RetryAccept

-----------------------------------------------------------------------------
(* For the owner of the loop: it drops the future of run(), and with it    *)
(* the permit held and the receiver, or the acceptor itself, and with it   *)
(* the listener and its connections, and a completion sender.              *)

DropRun ==
  /\ acceptor \notin {"stopped", "dropped"}
  /\ acceptor' = "stopped"
  /\ permits' = IF HoldsPermit THEN permits + 1 ELSE permits
  /\ notified' = notified \ {"acceptor"}

DropAcceptor ==
  /\ MoveAcceptor("stopped", "dropped")
  /\ stage' = [c \in Conns |-> IF stage[c] = "queued" THEN "ended" ELSE stage[c]]
  /\ backlog' = <<>>
  /\ completion' = completion \ {"acceptor"}
  /\ UNCHANGED <<store, client, input, output, metrics, permits, notified>>

\* The channel's other senders depend on who runs the loop.
AcceptorInit(senders) ==
  /\ Fresh
  /\ stage = [c \in Conns |-> "away"]
  /\ permits = MaxConnections
  /\ completion = senders
  /\ notified = {}
  /\ acceptor = "starting"
  /\ backlog = <<>>

-----------------------------------------------------------------------------
(* Properties                                                              *)

AcceptorTypeOK ==
  /\ HandlerTypeOK
  /\ completion \subseteq Conns \cup {"main", "acceptor"}
  /\ notified \subseteq Conns \cup {"acceptor"}
  /\ acceptor \in AcceptorStages
  /\ backlog \in Seq(Conns)

\* Permits are neither leaked nor minted (acceptor.rs:81, "Keep the permit
\* until it is moved into a handler or dropped"): the free ones, the one the
\* loop holds and one per task make up the connection limit at all times.
PermitsConserved ==
  permits + (IF HoldsPermit THEN 1 ELSE 0) + Cardinality(SlotHolders)
    = MaxConnections
=============================================================================
