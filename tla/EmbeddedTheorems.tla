-------------------------- MODULE EmbeddedTheorems --------------------------
(***************************************************************************)
(* The safety properties of a program that runs the accept loop in a task  *)
(* of its own, for any connections, any connection limit and any inputs.   *)
(* Here the loop hears of shutdown by itself, at any point of its          *)
(* iteration, so what ended the binary's loop, main, ends nothing.         *)
(***************************************************************************)
EXTENDS Embedded, AcceptorTheorems

-----------------------------------------------------------------------------
(* Types, gauge, listener queue and permits                                *)

\* What the proofs below stand on.
Sound == TypeOK /\ ActiveGauge /\ BacklogIsQueued

\* Types, gauge and queue hold in every state the program reaches.
THEOREM SoundInvariant == Spec => []Sound
<1>1. Init => Sound
  BY AcceptorFresh DEF Init, Sound, TypeOK
<1>2. ASSUME Sound, [Next]_vars PROVE Sound'
  <2> USE <1>2 DEF Sound, TypeOK
  <2>1. CASE Broadcast
    <3>1. Receivers \subseteq Conns \cup {"acceptor"}
      BY DEF Receivers, Subscribed, Running
    <3>2. TypeOK'
      BY <2>1, <3>1 DEF Broadcast, client, input, output, acceptorVars,
                        AcceptorTypeOK, HandlerTypeOK
    <3>3. ActiveGauge' /\ BacklogIsQueued'
      BY <2>1 DEF Broadcast, acceptorVars, ActiveGauge, Running, BacklogIsQueued
    <3> QED BY <3>2, <3>3
  <2>2. CASE Loop
    BY <2>2, LoopStep, StopStep DEF Loop
  <2>3. CASE AcceptError
    BY <2>3, LoopStep DEF AcceptError
  <2>4. CASE EndTask
    BY <2>4, DropAcceptorStep DEF EndTask
  <2>5. CASE AwaitCompletion \/ UNCHANGED vars
    <3>1. UNCHANGED <<handlerVars, acceptorVars>>
          /\ host' \in {"serving", "await", "done"}
      BY <2>5 DEF AwaitCompletion, vars
    <3>2. HandlerTypeOK'
      BY <3>1 DEF handlerVars, client, input, output, shared, AcceptorTypeOK, HandlerTypeOK
    <3>3. AcceptorTypeOK'
      BY <3>1, <3>2 DEF handlerVars, acceptorVars, shared, AcceptorTypeOK
    <3>4. ActiveGauge' /\ BacklogIsQueued'
      BY <3>1 DEF handlerVars, acceptorVars, ActiveGauge, Running, BacklogIsQueued
    <3> QED BY <3>1, <3>3, <3>4
  <2>6. ASSUME NEW c \in Conns, Task(c) \/ Timeout(c)
        PROVE  Sound'
    BY <2>6, TaskKeeps DEF Task, Timeout, acceptorVars
  <2>7. ASSUME NEW c \in Conns, Peer(c)
        PROVE  Sound'
    BY <2>7, ConnectStep, ClientKeeps DEF Peer, acceptorVars
  <2> QED BY <2>1, <2>2, <2>3, <2>4, <2>5, <2>6, <2>7 DEF Next, Exited
<1> QED BY <1>1, <1>2, PTL DEF Spec

\* Every variable keeps its type.
THEOREM TypeCorrect == Spec => []TypeOK
<1>1. Sound => TypeOK
  BY DEF Sound
<1> QED BY <1>1, SoundInvariant, PTL

\* The gauge is the number of running handlers.
THEOREM GaugeCorrect == Spec => []ActiveGauge
<1>1. Sound => ActiveGauge
  BY DEF Sound
<1> QED BY <1>1, SoundInvariant, PTL

\* The loop that stops by itself gives back the permit it had reserved: none is
\* lost between the loop and the tasks it leaves behind.
THEOREM PermitsInvariant == Spec => []PermitsConserved
<1>1. Init => PermitsConserved
  BY PermitsFresh DEF Init
<1>2. ASSUME Sound, PermitsConserved, [Next]_vars PROVE PermitsConserved'
  <2> USE <1>2 DEF Sound, TypeOK
  <2>1. CASE Broadcast \/ AwaitCompletion \/ UNCHANGED vars
    <3>1. UNCHANGED <<stage, permits, acceptor>>
      BY <2>1 DEF Broadcast, AwaitCompletion, vars, handlerVars, shared, acceptorVars
    <3> QED BY <3>1, PermitsSame DEF HoldsPermit, SlotHolders, Subscribed, Running
  <2>2. CASE Loop \/ AcceptError
    BY <2>2, LoopPermits, StopPermits DEF Loop, AcceptError
  <2>3. CASE EndTask
    BY <2>3, ReleaseSets, PermitsSame DEF EndTask, DropAcceptor, MoveAcceptor, HoldsPermit
  <2>4. ASSUME NEW c \in Conns, Task(c) \/ Timeout(c)
        PROVE  PermitsConserved'
    BY <2>4, TaskPermits DEF Task, Timeout, AcceptorTypeOK, acceptorVars
  <2>5. ASSUME NEW c \in Conns, Peer(c)
        PROVE  PermitsConserved'
    <3>1. CASE Connect(c)
      BY <3>1, ConnectSets, PermitsSame DEF Connect, HoldsPermit, shared
    <3>2. CASE Client(c) /\ UNCHANGED acceptorVars
      BY <3>2, ClientShape, PermitsSame
      DEF HoldsPermit, SlotHolders, Subscribed, Running, shared, acceptorVars
    <3> QED BY <2>5, <3>1, <3>2 DEF Peer
  <2> QED BY <2>1, <2>2, <2>3, <2>4, <2>5 DEF Next, Exited
<1> QED BY <1>1, <1>2, SoundInvariant, PTL DEF Spec

-----------------------------------------------------------------------------
(* Completion                                                              *)

\* The senders left are those of the tasks with a handler and of the acceptor.
Senders ==
  completion = Subscribed \cup (IF acceptor # "dropped" THEN {"acceptor"} ELSE {})

\* Nothing makes a sender once the host has seen the channel closed.
StaysClosed == host = "done" => completion = {}

\* With no sender left the loop is gone, no task is left, and the gauge is zero.
LEMMA ChannelClosed ==
  ASSUME ActiveGauge, Senders, completion = {}
  PROVE  /\ Subscribed = {} /\ acceptor = "dropped"
         /\ metrics["active_connections"] = 0
<1>1. Subscribed = {} /\ Running = {} /\ acceptor = "dropped"
  BY DEF Senders, Subscribed
<1> QED BY <1>1, FS_EmptySet DEF ActiveGauge

\* A step of the loop's: it may hand out a sender while it holds one itself.
LEMMA LoopSenders ==
  ASSUME Sound, Senders, LoopProgress \/ AcceptFails \/ StopAccepting
  PROVE  Senders' /\ acceptor \notin {"stopped", "dropped"}
<1> USE DEF Sound, TypeOK, MoveAcceptor
<1>1. CASE Accept
  <2>1. Subscribed' = Subscribed \cup {Head(backlog)}
    BY <1>1, AcceptSets
  <2>2. /\ completion' = completion \cup {Head(backlog)}
        /\ acceptor = "select" /\ acceptor' = "acquire"
    BY <1>1 DEF Accept
  <2> QED BY <2>1, <2>2 DEF Senders
<1>2. CASE AcceptAborted
  <2>1. Subscribed' = Subscribed
    BY <1>2, AbortedSets
  <2>2. completion' = completion /\ acceptor = "select" /\ acceptor' = "acquire"
    BY <1>2 DEF AcceptAborted
  <2> QED BY <2>1, <2>2 DEF Senders
<1>3. CASE Subscribe \/ AcquirePermit \/ RetryAccept \/ AcceptFails \/ StopAccepting
  <2>1. /\ UNCHANGED <<stage, completion>>
        /\ acceptor \notin {"stopped", "dropped"} /\ acceptor' # "dropped"
    BY <1>3 DEF Subscribe, AcquirePermit, RetryAccept, AcceptFails, StopAccepting,
       handlerVars, shared
  <2>2. Subscribed' = Subscribed
    BY <2>1 DEF Subscribed, Running
  <2> QED BY <2>1, <2>2 DEF Senders
<1> QED BY <1>1, <1>2, <1>3 DEF LoopProgress

\* The completion channel closes exactly when nothing is left that could need it,
\* and stays so.
THEOREM SendersInvariant == Spec => [](Senders /\ StaysClosed)
<1>1. Init => Senders /\ StaysClosed
  <2> SUFFICES ASSUME Init PROVE Senders /\ StaysClosed
    OBVIOUS
  <2>1. Subscribed = {}
    BY DEF Init, AcceptorInit, Subscribed, Running
  <2> QED BY <2>1 DEF Init, AcceptorInit, Senders, StaysClosed
<1>2. ASSUME Sound, Senders, StaysClosed, [Next]_vars
      PROVE  Senders' /\ StaysClosed'
  <2> USE <1>2 DEF Sound, TypeOK
  <2>1. CASE Broadcast \/ AwaitCompletion \/ UNCHANGED vars
    <3>1. /\ UNCHANGED <<stage, completion, acceptor>>
          /\ (host' = "done" => host = "done" \/ completion = {})
      BY <2>1 DEF Broadcast, AwaitCompletion, vars, handlerVars, shared, acceptorVars
    <3> QED BY <3>1 DEF Senders, StaysClosed, Subscribed, Running
  <2>2. CASE Loop \/ AcceptError
    <3>1. Senders' /\ acceptor \notin {"stopped", "dropped"} /\ host' = host
      BY <2>2, LoopSenders DEF Loop, AcceptError
    <3> QED BY <3>1, ChannelClosed DEF StaysClosed
  <2>3. CASE EndTask
    <3>1. Subscribed' = Subscribed
      BY <2>3, ReleaseSets DEF EndTask
    <3>2. "acceptor" \notin Subscribed
      BY AcceptorAssumption DEF Subscribed, Running
    <3>3. /\ acceptor = "stopped" /\ acceptor' = "dropped"
          /\ completion' = completion \ {"acceptor"} /\ host' = host
      BY <2>3 DEF EndTask, DropAcceptor, MoveAcceptor
    <3> QED BY <3>1, <3>2, <3>3 DEF Senders, StaysClosed
  <2>4. ASSUME NEW c \in Conns, Task(c) \/ Timeout(c)
        PROVE  Senders' /\ StaysClosed'
    <3>1. (Progress(c) \/ ReadTimeout(c)) /\ UNCHANGED <<acceptor, host>>
      BY <2>4 DEF Task, Timeout, acceptorVars
    <3>2. c # "acceptor"
      BY AcceptorAssumption
    <3>3. \/ Subscribed' = Subscribed /\ completion' = completion
          \/ Subscribed' = Subscribed \ {c} /\ completion' = completion \ {c}
      BY <3>1, TaskSets DEF AcceptorTypeOK
    <3> QED BY <3>1, <3>2, <3>3 DEF Senders, StaysClosed
  <2>5. ASSUME NEW c \in Conns, Peer(c)
        PROVE  Senders' /\ StaysClosed'
    <3>1. UNCHANGED <<completion, acceptor, host>>
      BY <2>5, ClientShape DEF Peer, Connect, shared, acceptorVars
    <3>2. Subscribed' = Subscribed
      BY <2>5, PeerLeavesAll DEF Peer, AcceptorTypeOK
    <3> QED BY <3>1, <3>2 DEF Senders, StaysClosed
  <2> QED BY <2>1, <2>2, <2>3, <2>4, <2>5 DEF Next, Exited
<1> QED BY <1>1, <1>2, SoundInvariant, PTL DEF Spec

\* When the host's wait ends, the listener is closed, no task is left, also none
\* that was accepted after the host had sent the message, and the gauge is zero.
THEOREM CompletionFinal == Spec => []CompletionIsFinal
<1>1. Sound /\ Senders /\ StaysClosed => CompletionIsFinal
  BY ChannelClosed DEF Sound, StaysClosed, CompletionIsFinal
<1> QED BY <1>1, SoundInvariant, SendersInvariant, PTL

-----------------------------------------------------------------------------
(* The bounded pool of connections                                         *)

\* The pool counts as the program does.
LEMMA SameCardinality == \A S : Pool!Cardinality(S) = Cardinality(S)
BY Zenon DEF Pool!Cardinality, Cardinality

\* The phase of the pool, as Pool substitutes it.
PoolPhase ==
  IF host = "done" THEN "closed"
  ELSE IF acceptor \in {"stopped", "dropped"} THEN "draining" ELSE "open"

\* Steps the pool does not see.
LEMMA PoolStutter ==
  ASSUME Subscribed' = Subscribed, Left' = Left, PoolPhase' = PoolPhase
  PROVE  UNCHANGED Pool!vars
BY DEF Pool!vars, Left, PoolPhase

\* Turning waiting connections away, one or all of them.
LEMMA PoolTurnAway ==
  ASSUME AcceptorTypeOK, BacklogIsQueued, AcceptAborted \/ DropAcceptor,
         PoolPhase' = PoolPhase
  PROVE  Pool!Next
<1>1. PICK cs \in SUBSET Conns : /\ cs \cap (Subscribed \cup Left) = {}
                                /\ Left' = Left \cup cs
                                /\ Subscribed' = Subscribed
  BY TurnedAway
<1>2. Pool!TurnAway(cs)
  BY <1>1 DEF Pool!TurnAway, Left, PoolPhase
<1> QED BY <1>2 DEF Pool!Next

\* The program admits a connection only into a free slot and only until its loop
\* stops, and its wait for completion ends only when the last one has left.
THEOREM PoolImplemented == Spec => ImplementsPool
<1>1. Init => Pool!Init
  BY DEF Init, AcceptorInit, Pool!Init, Subscribed, Running
<1>2. ASSUME Sound, PermitsConserved, Senders, StaysClosed, [Next]_vars
      PROVE  [Pool!Next]_(Pool!vars)
  <2> USE <1>2 DEF Sound, TypeOK
  <2>0. HandlerTypeOK
    BY DEF AcceptorTypeOK
  <2>1. CASE Broadcast \/ UNCHANGED vars
    <3>1. stage' = stage /\ PoolPhase' = PoolPhase
      BY <2>1 DEF Broadcast, vars, handlerVars, acceptorVars, PoolPhase
    <3> QED BY <3>1, PoolStutter DEF Subscribed, Running, Left
  <2>2. CASE AwaitCompletion
    <3>1. Subscribed = {} /\ acceptor = "dropped" /\ host = "await" /\ host' = "done"
      BY <2>2, ChannelClosed DEF AwaitCompletion
    <3>2. stage' = stage
      BY <2>2 DEF AwaitCompletion, handlerVars
    <3>3. Pool!Close
      BY <3>1, <3>2 DEF Pool!Close, Subscribed, Running
    <3> QED BY <3>3 DEF Pool!Next
  <2>3. CASE EndTask
    <3>1. PoolPhase' = PoolPhase
      BY <2>3 DEF EndTask, DropAcceptor, MoveAcceptor, PoolPhase
    <3> QED BY <2>3, <3>1, PoolTurnAway DEF EndTask
  <2>4. CASE Loop \/ AcceptError
    <3>1. acceptor \notin {"stopped", "dropped"} /\ host' = host /\ host # "done"
      <4>1. acceptor \notin {"stopped", "dropped"} /\ host' = host
        BY <2>4, LoopSenders DEF Loop, AcceptError
      <4> QED BY <4>1, ChannelClosed DEF StaysClosed
    <3>2. PoolPhase = "open"
      BY <3>1 DEF PoolPhase
    <3>3. CASE Accept
      <4>1. PICK c \in Conns : /\ c \notin Subscribed \cup Left
                               /\ Cardinality(Subscribed) < MaxConnections
                               /\ Subscribed' = Subscribed \cup {c}
                               /\ Left' = Left
        BY <3>3, AcceptAdmits
      <4>2. PoolPhase' = PoolPhase
        BY <3>1, <3>3 DEF Accept, MoveAcceptor, PoolPhase
      <4>3. Pool!Admit(c)
        BY <3>2, <4>1, <4>2, SameCardinality DEF Pool!Admit, Left, PoolPhase
      <4> QED BY <4>3 DEF Pool!Next
    <3>4. CASE AcceptAborted
      <4>1. PoolPhase' = PoolPhase
        BY <3>1, <3>4 DEF AcceptAborted, MoveAcceptor, PoolPhase
      <4> QED BY <3>4, <4>1, PoolTurnAway
    <3>5. CASE Subscribe \/ AcquirePermit \/ RetryAccept \/ AcceptFails
      <4>1. stage' = stage /\ PoolPhase' = PoolPhase
        BY <3>1, <3>5 DEF Subscribe, AcquirePermit, RetryAccept, AcceptFails,
           MoveAcceptor, handlerVars, PoolPhase
      <4> QED BY <4>1, PoolStutter DEF Subscribed, Running, Left
    <3>6. CASE StopAccepting
      <4>1. stage' = stage /\ PoolPhase' = "draining"
        BY <3>1, <3>6 DEF StopAccepting, MoveAcceptor, PoolPhase
      <4>2. Pool!Drain
        BY <3>2, <4>1 DEF Pool!Drain, PoolPhase, Subscribed, Running
      <4> QED BY <4>2 DEF Pool!Next
    <3> QED BY <2>4, <3>3, <3>4, <3>5, <3>6 DEF Loop, AcceptError, LoopProgress
  <2>5. ASSUME NEW c \in Conns, Task(c) \/ Timeout(c)
        PROVE  [Pool!Next]_(Pool!vars)
    <3>1. (Progress(c) \/ ReadTimeout(c)) /\ PoolPhase' = PoolPhase
      BY <2>5 DEF Task, Timeout, acceptorVars, PoolPhase
    <3>2. CASE Subscribed' = Subscribed /\ Left' = Left
      BY <3>1, <3>2, PoolStutter
    <3>3. CASE /\ c \in Subscribed
               /\ Subscribed' = Subscribed \ {c}
               /\ Left' = Left \cup {c}
      <4>1. Pool!Leave(c)
        BY <3>1, <3>3 DEF Pool!Leave, Left, PoolPhase
      <4> QED BY <4>1 DEF Pool!Next
    <3> QED BY <2>0, <3>1, <3>2, <3>3, TaskLeaves
  <2>6. ASSUME NEW c \in Conns, Peer(c)
        PROVE  [Pool!Next]_(Pool!vars)
    <3>1. (Connect(c) \/ Client(c)) /\ PoolPhase' = PoolPhase
      BY <2>6 DEF Peer, Connect, acceptorVars, PoolPhase
    <3> QED BY <2>0, <3>1, PeerLeavesAll, PoolStutter
  <2> QED BY <2>1, <2>2, <2>3, <2>4, <2>5, <2>6 DEF Next, Exited
<1> QED BY <1>1, <1>2, SoundInvariant, PermitsInvariant, SendersInvariant, PTL
        DEF Spec, ImplementsPool, Pool!Spec
=============================================================================
