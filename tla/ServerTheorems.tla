--------------------------- MODULE ServerTheorems ---------------------------
(***************************************************************************)
(* The server's safety properties, for any connections, any connection     *)
(* limit and any inputs.                                                   *)
(*                                                                         *)
(* Each layer uses the ones before it: types, gauge and listener queue     *)
(* first, then the permits, then the shutdown protocol, and the            *)
(* implementation of the connection pool.  Then what is served: the tasks, *)
(* alone and as part of the server, implement the atomic key-value         *)
(* service, and the counters account for what it executed.                 *)
(***************************************************************************)
EXTENDS Server, AcceptorTheorems

-----------------------------------------------------------------------------
(* Types, gauge and listener queue                                         *)

Layer1 == TypeOK /\ ActiveGauge /\ BacklogIsQueued

\* Types, gauge and queue hold in every state the server reaches.
THEOREM Layer1Invariant == Spec => []Layer1
<1> USE DEF handlerVars, acceptorVars
<1>1. Init => Layer1
  BY AcceptorFresh DEF Init, Layer1, TypeOK, MainStages
<1>2. ASSUME Layer1, [Next]_vars PROVE Layer1'
  <2> USE <1>2 DEF Layer1, TypeOK
  <2> USE DEF client, input, output, shared
  <2>1. CASE CtrlC
    <3>1. permits' \in Nat
      BY <2>1 DEF CtrlC, DropRun, AcceptorTypeOK, HandlerTypeOK
    <3>2. TypeOK'
      BY <2>1, <3>1 DEF CtrlC, DropRun, MoveMain, AcceptorTypeOK, HandlerTypeOK,
                        AcceptorStages, MainStages
    <3>3. ActiveGauge' /\ BacklogIsQueued'
      BY <2>1 DEF CtrlC, DropRun, ActiveGauge, Running, BacklogIsQueued
    <3> QED BY <3>2, <3>3
  <2>2. CASE Notify
    <3>1. Receivers \subseteq Conns \cup {"acceptor"}
      BY DEF Receivers, Subscribed, Running
    <3>2. TypeOK'
      BY <2>2, <3>1 DEF Notify, MoveMain, AcceptorTypeOK, HandlerTypeOK, MainStages
    <3>3. ActiveGauge' /\ BacklogIsQueued'
      BY <2>2 DEF Notify, ActiveGauge, Running, BacklogIsQueued
    <3> QED BY <3>2, <3>3
  <2>3. CASE ReleaseAcceptor
    BY <2>3, DropAcceptorStep DEF ReleaseAcceptor, MoveMain, MainStages
  <2>4. CASE DetachSender
    <3>1. TypeOK'
      BY <2>4 DEF DetachSender, MoveMain, AcceptorTypeOK, HandlerTypeOK, MainStages
    <3>2. ActiveGauge' /\ BacklogIsQueued'
      BY <2>4 DEF DetachSender, ActiveGauge, Running, BacklogIsQueued
    <3> QED BY <3>1, <3>2
  <2>5. CASE AwaitCompletion
    <3>1. TypeOK'
      BY <2>5 DEF AwaitCompletion, MoveMain, AcceptorTypeOK, HandlerTypeOK, MainStages
    <3>2. ActiveGauge' /\ BacklogIsQueued'
      BY <2>5 DEF AwaitCompletion, ActiveGauge, Running, BacklogIsQueued
    <3> QED BY <3>1, <3>2
  <2>6. CASE AcceptLoop
    BY <2>6, LoopStep DEF AcceptLoop
  <2>7. CASE AcceptError
    BY <2>7, LoopStep DEF AcceptError
  <2>8. ASSUME NEW c \in Conns, Task(c) \/ Timeout(c)
        PROVE  Layer1'
    BY <2>8, TaskKeeps DEF Task, Timeout, acceptorVars
  <2>9. ASSUME NEW c \in Conns, Peer(c)
        PROVE  Layer1'
    BY <2>9, ConnectStep, ClientKeeps DEF Peer, acceptorVars
  <2>10. CASE UNCHANGED vars
    <3>1. UNCHANGED <<handlerVars, acceptor, backlog, main>>
      BY <2>10 DEF vars
    <3>2. HandlerTypeOK'
      BY <3>1 DEF AcceptorTypeOK, HandlerTypeOK
    <3>3. ActiveGauge' /\ BacklogIsQueued'
      BY <3>1 DEF ActiveGauge, Running, BacklogIsQueued
    <3> QED BY <3>1, <3>2, <3>3 DEF AcceptorTypeOK
  <2> QED
    BY <2>1, <2>2, <2>3, <2>4, <2>5, <2>6, <2>7, <2>8, <2>9, <2>10
    DEF Next, Shutdown, Exited
<1> QED BY <1>1, <1>2, PTL DEF Spec

\* Every variable keeps its type.
THEOREM TypeCorrect == Spec => []TypeOK
<1>1. Layer1 => TypeOK
  BY DEF Layer1
<1> QED BY <1>1, Layer1Invariant, PTL

\* The gauge of metrics.rs is the number of running handlers in every state of
\* the server, so it is never decremented below zero.
THEOREM GaugeCorrect == Spec => []ActiveGauge
<1>1. Layer1 => ActiveGauge
  BY DEF Layer1
<1> QED BY <1>1, Layer1Invariant, PTL

-----------------------------------------------------------------------------
(* The permits                                                             *)

\* However a connection ends and wherever the loop is dropped, the free
\* permits, the loop's and the tasks' make up the connection limit.
THEOREM PermitsInvariant == Spec => []PermitsConserved
<1>1. Init => PermitsConserved
  BY PermitsFresh DEF Init
<1>2. ASSUME Layer1, PermitsConserved, [Next]_vars PROVE PermitsConserved'
  <2> USE <1>2 DEF Layer1, TypeOK
  <2> USE DEF acceptorVars, MoveMain
  <2>1. CASE CtrlC
    <3>1. SlotHolders' = SlotHolders
      BY <2>1 DEF CtrlC, SlotHolders, Subscribed, Running
    <3> QED BY <2>1, <3>1, SlotHoldersFinite DEF CtrlC, DropRun, HoldsPermit,
               PermitsConserved, AcceptorTypeOK, HandlerTypeOK
  <2>2. CASE Notify \/ DetachSender \/ AwaitCompletion \/ UNCHANGED vars
    <3>1. UNCHANGED <<stage, permits, acceptor>>
      BY <2>2 DEF Notify, DetachSender, AwaitCompletion, vars, handlerVars, shared
    <3> QED BY <3>1, PermitsSame DEF HoldsPermit, SlotHolders, Subscribed, Running
  <2>3. CASE ReleaseAcceptor
    BY <2>3, ReleaseSets, PermitsSame DEF ReleaseAcceptor, DropAcceptor, MoveAcceptor,
       HoldsPermit
  <2>4. CASE AcceptLoop \/ AcceptError
    BY <2>4, LoopPermits DEF AcceptLoop, AcceptError
  <2>5. ASSUME NEW c \in Conns, Task(c) \/ Timeout(c)
        PROVE  PermitsConserved'
    BY <2>5, TaskPermits DEF Task, Timeout, AcceptorTypeOK
  <2>6. ASSUME NEW c \in Conns, Peer(c)
        PROVE  PermitsConserved'
    <3>1. CASE Connect(c)
      BY <3>1, ConnectSets, PermitsSame DEF Connect, HoldsPermit, shared
    <3>2. CASE Client(c) /\ UNCHANGED acceptorVars
      BY <3>2, ClientShape, PermitsSame
      DEF HoldsPermit, SlotHolders, Subscribed, Running, shared
    <3> QED BY <2>6, <3>1, <3>2 DEF Peer
  <2> QED BY <2>1, <2>2, <2>3, <2>4, <2>5, <2>6 DEF Next, Shutdown, Exited
<1> QED BY <1>1, <1>2, Layer1Invariant, PTL DEF Spec

-----------------------------------------------------------------------------
(* The shutdown protocol                                                   *)

\* Once main is done the channel stays closed: only the loop makes senders.
Closed == main = "done" => completion = {}

Layer2 == SendersTrackTasks /\ HandlersHearShutdown /\ Closed /\ FinalReportQuiescent

\* With no sender left there is no task, and the gauge is zero.
LEMMA NoSenders ==
  ASSUME ActiveGauge, SendersTrackTasks, completion = {}
  PROVE  Subscribed = {} /\ metrics["active_connections"] = 0
<1>1. Subscribed = {} /\ Running = {}
  BY DEF SendersTrackTasks, Subscribed
<1> QED BY <1>1, FS_EmptySet DEF ActiveGauge

\* No step of a task breaks the shutdown protocol: it keeps its sender until its
\* handler is gone, and does not lose a message it has yet to hear.
LEMMA TaskShutdown ==
  ASSUME Layer1, Layer2, NEW c \in Conns, Task(c) \/ Timeout(c)
  PROVE  SendersTrackTasks' /\ HandlersHearShutdown' /\ Closed'
<1> USE DEF Layer1, Layer2, TypeOK, AcceptorTypeOK, acceptorVars
<1>1. HandlerTypeOK /\ (Progress(c) \/ ReadTimeout(c)) /\ UNCHANGED <<acceptor, main>>
  BY DEF Task, Timeout
<1>2. SendersTrackTasks'
  <2>1. c # "main" /\ c # "acceptor"
    BY AcceptorAssumption
  <2>2. CASE Subscribed' = Subscribed /\ completion' = completion
    BY <1>1, <2>2 DEF SendersTrackTasks, Past
  <2>3. CASE Subscribed' = Subscribed \ {c} /\ completion' = completion \ {c}
    BY <1>1, <2>1, <2>3 DEF SendersTrackTasks, Past
  <2> QED BY <1>1, <2>2, <2>3, TaskSets
<1>3. HandlersHearShutdown'
  <2>1. CASE DropHandler(c)
    BY <1>1, <2>1 DEF DropHandler, MoveTo, HandlersHearShutdown, Past, HandlerTypeOK
  <2>2. CASE DropPermit(c)
    BY <1>1, <2>2 DEF DropPermit, MoveTo, HandlersHearShutdown, Past, HandlerTypeOK
  <2>3. ASSUME NEW to \in {"reading", "writing", "reporting", "unguarded"},
               stage' = [stage EXCEPT ![c] = to],
               to \in {"reading", "writing"} =>
                 /\ stage[c] \in {"spawned", "reading", "writing"}
                 /\ notified' = notified,
               notified' = notified \/ notified' = notified \ {c}
        PROVE  HandlersHearShutdown'
    BY <1>1, <2>3 DEF HandlersHearShutdown, Past, HandlerTypeOK
  <2> QED BY <1>1, <2>1, <2>2, <2>3, TaskShape
<1>4. Closed'
  BY <1>1, TaskSets DEF Closed
<1> QED BY <1>2, <1>3, <1>4

\* The shutdown protocol keeps its promises in every state the server reaches.
THEOREM Layer2Invariant == Spec => []Layer2
<1> USE DEF acceptorVars, MoveMain, MainStages
<1>1. Init => Layer2
  <2> SUFFICES ASSUME Init PROVE Layer2
    OBVIOUS
  <2>1. Subscribed = {}
    BY DEF Init, AcceptorInit, Subscribed, Running
  <2> QED BY <2>1 DEF Init, AcceptorInit, Layer2, SendersTrackTasks,
             HandlersHearShutdown, Closed, FinalReportQuiescent, Past
<1>2. ASSUME Layer1, Layer1', Layer2, [Next]_vars
      PROVE  SendersTrackTasks' /\ HandlersHearShutdown' /\ Closed'
  <2> USE <1>2 DEF Layer1, Layer2, TypeOK
  <2>1. CASE CtrlC
    BY <2>1 DEF CtrlC, DropRun, SendersTrackTasks, HandlersHearShutdown, Closed, Past,
       Subscribed, Running
  <2>2. CASE Notify
    <3>1. Subscribed' = Subscribed
      BY <2>2 DEF Notify, Subscribed, Running
    <3>2. SendersTrackTasks' /\ Closed'
      BY <2>2, <3>1 DEF Notify, SendersTrackTasks, Closed, Past
    <3>3. HandlersHearShutdown'
      BY <2>2 DEF Notify, HandlersHearShutdown, Receivers, Subscribed, Running
    <3> QED BY <3>2, <3>3
  <2>3. CASE ReleaseAcceptor
    <3>1. Subscribed' = Subscribed
      BY <2>3, ReleaseSets DEF ReleaseAcceptor
    <3>2. SendersTrackTasks' /\ Closed'
      BY <2>3, <3>1, AcceptorAssumption DEF ReleaseAcceptor, DropAcceptor, MoveAcceptor,
         SendersTrackTasks, Closed, Past, Subscribed, Running
    <3>3. HandlersHearShutdown'
      BY <2>3 DEF ReleaseAcceptor, DropAcceptor, HandlersHearShutdown, Past
    <3> QED BY <3>2, <3>3
  <2>4. CASE DetachSender
    <3>1. Subscribed' = Subscribed /\ "main" \notin Subscribed
      BY <2>4, AcceptorAssumption DEF DetachSender, Subscribed, Running
    <3>2. SendersTrackTasks' /\ Closed'
      BY <2>4, <3>1 DEF DetachSender, SendersTrackTasks, Closed, Past
    <3>3. HandlersHearShutdown'
      BY <2>4 DEF DetachSender, HandlersHearShutdown, Past
    <3> QED BY <3>2, <3>3
  <2>5. CASE AwaitCompletion
    <3>1. UNCHANGED <<stage, completion, notified, acceptor>>
      BY <2>5 DEF AwaitCompletion, handlerVars, shared
    <3> QED BY <2>5, <3>1 DEF AwaitCompletion, SendersTrackTasks, HandlersHearShutdown,
               Closed, Past, Subscribed, Running
  <2>6. CASE AcceptLoop \/ AcceptError
    <3>1. main = "serving" /\ main' = main
      BY <2>6 DEF AcceptLoop, AcceptError
    <3>2. HandlersHearShutdown' /\ Closed'
      BY <3>1 DEF HandlersHearShutdown, Closed, Past
    <3>3. CASE Accept
      <4>1. Subscribed' = Subscribed \cup {Head(backlog)}
        BY <3>3, AcceptSets
      <4>2. /\ completion' = completion \cup {Head(backlog)}
            /\ acceptor # "dropped" /\ acceptor' # "dropped"
        BY <3>3 DEF Accept, MoveAcceptor
      <4> QED BY <3>1, <3>2, <4>1, <4>2 DEF SendersTrackTasks, Past
    <3>4. CASE AcceptAborted
      <4>1. Subscribed' = Subscribed
        BY <3>4, AbortedSets
      <4>2. /\ completion' = completion
            /\ acceptor # "dropped" /\ acceptor' # "dropped"
        BY <3>4 DEF AcceptAborted, MoveAcceptor
      <4> QED BY <3>1, <3>2, <4>1, <4>2 DEF SendersTrackTasks, Past
    <3>5. CASE Subscribe \/ AcquirePermit \/ AcceptFails \/ RetryAccept
      <4>1. UNCHANGED <<stage, completion>> /\ acceptor # "dropped" /\ acceptor' # "dropped"
        BY <3>5 DEF Subscribe, AcquirePermit, AcceptFails, RetryAccept, MoveAcceptor,
           handlerVars, shared
      <4>2. Subscribed' = Subscribed
        BY <4>1 DEF Subscribed, Running
      <4> QED BY <3>1, <3>2, <4>1, <4>2 DEF SendersTrackTasks, Past
    <3> QED BY <2>6, <3>2, <3>3, <3>4, <3>5 DEF AcceptLoop, AcceptError, LoopProgress
  <2>7. ASSUME NEW c \in Conns, Task(c) \/ Timeout(c)
        PROVE  SendersTrackTasks' /\ HandlersHearShutdown' /\ Closed'
    BY <2>7, TaskShutdown
  <2>8. ASSUME NEW c \in Conns, Peer(c)
        PROVE  SendersTrackTasks' /\ HandlersHearShutdown' /\ Closed'
    <3>1. CASE Connect(c) /\ UNCHANGED main
      <4>1. stage' = [stage EXCEPT ![c] = "queued"] /\ UNCHANGED <<completion, notified, acceptor>>
        BY <3>1 DEF Connect, MoveTo, shared
      <4> QED BY <3>1, <4>1, ConnectSets DEF SendersTrackTasks, HandlersHearShutdown,
                 Closed, Past, AcceptorTypeOK, HandlerTypeOK
    <3>2. CASE Client(c) /\ UNCHANGED <<acceptorVars, main>>
      <4>1. UNCHANGED <<stage, completion, notified>>
        BY <3>2, ClientShape DEF shared
      <4> QED BY <3>2, <4>1 DEF SendersTrackTasks, HandlersHearShutdown, Closed, Past,
                 Subscribed, Running
    <3> QED BY <2>8, <3>1, <3>2 DEF Peer
  <2>9. CASE UNCHANGED vars
    <3>1. UNCHANGED <<stage, completion, notified, acceptor, main>>
      BY <2>9 DEF vars, handlerVars, shared
    <3> QED BY <3>1 DEF SendersTrackTasks, HandlersHearShutdown, Closed, Past,
               Subscribed, Running
  <2> QED
    BY <2>1, <2>2, <2>3, <2>4, <2>5, <2>6, <2>7, <2>8, <2>9 DEF Next, Shutdown, Exited
<1>3. Layer1 /\ SendersTrackTasks /\ Closed => FinalReportQuiescent
  BY NoSenders DEF Layer1, Closed, FinalReportQuiescent
<1>4. Layer1 /\ Layer1' /\ Layer2 /\ [Next]_vars => Layer2'
  <2>1. Layer1' /\ SendersTrackTasks' /\ Closed' => FinalReportQuiescent'
    BY <1>3, PTL
  <2> QED BY <1>2, <2>1 DEF Layer2
<1> QED BY <1>1, <1>4, Layer1Invariant, PTL DEF Spec

\* A connection accepted at any moment before shutdown hears of it.
THEOREM ShutdownHeard == Spec => []HandlersHearShutdown
<1>1. Layer2 => HandlersHearShutdown
  BY DEF Layer2
<1> QED BY <1>1, Layer2Invariant, PTL

\* The completion channel is open exactly as long as somebody can still need it.
THEOREM SendersCorrect == Spec => []SendersTrackTasks
<1>1. Layer2 => SendersTrackTasks
  BY DEF Layer2
<1> QED BY <1>1, Layer2Invariant, PTL

\* main never reports while a handler is alive.
THEOREM ReportQuiescent == Spec => []FinalReportQuiescent
<1>1. Layer2 => FinalReportQuiescent
  BY DEF Layer2
<1> QED BY <1>1, Layer2Invariant, PTL

\* After main is done nothing is counted, stored or written any more.
THEOREM ReportStable == Spec => FinalReportStable
<1>1. ASSUME Layer1, Layer2, [Next]_vars, main = "done"
      PROVE  UNCHANGED <<metrics, store, out>>
  <2> USE <1>1 DEF MoveMain
  <2>1. Subscribed = {}
    BY DEF Layer2, FinalReportQuiescent
  <2>2. ASSUME NEW c \in Conns, Task(c) \/ Timeout(c)
        PROVE  UNCHANGED <<metrics, store, out>>
    <3>1. Progress(c) \/ ReadTimeout(c)
      BY <2>2 DEF Task, Timeout
    <3>2. DropPermit(c)
      <4>1. ~DropHandler(c)
        BY <2>1 DEF DropHandler, MoveTo, Subscribed
      <4> QED BY <2>1, <3>1, <4>1, TaskShape DEF Layer1, TypeOK, AcceptorTypeOK
    <3> QED BY <3>2 DEF DropPermit, output
  <2>3. ASSUME NEW c \in Conns, Peer(c)
        PROVE  UNCHANGED <<metrics, store, out>>
    BY <2>3, ClientShape DEF Peer, Connect, output
  <2>4. CASE UNCHANGED vars
    BY <2>4 DEF vars, handlerVars, output
  <2>5. ~CtrlC /\ ~Notify /\ ~ReleaseAcceptor /\ ~DetachSender /\ ~AwaitCompletion
        /\ ~AcceptLoop /\ ~AcceptError
    BY DEF CtrlC, Notify, ReleaseAcceptor, DetachSender, AwaitCompletion, AcceptLoop,
       AcceptError
  <2> QED BY <2>2, <2>3, <2>4, <2>5 DEF Next, Shutdown, Exited
<1> QED BY <1>1, Layer1Invariant, Layer2Invariant, PTL DEF Spec, FinalReportStable

-----------------------------------------------------------------------------
(* The bounded pool of connections                                         *)

\* The pool counts as the server does.
LEMMA SameCardinality == \A S : Pool!Cardinality(S) = Cardinality(S)
BY Zenon DEF Pool!Cardinality, Cardinality

\* Steps the pool does not see.
LEMMA PoolStutter ==
  ASSUME Subscribed' = Subscribed, Left' = Left, PoolPhase' = PoolPhase
  PROVE  UNCHANGED Pool!vars
BY DEF Pool!vars, Left

\* Turning waiting connections away, one or all of them.
LEMMA PoolTurnAway ==
  ASSUME AcceptorTypeOK, BacklogIsQueued, AcceptAborted \/ DropAcceptor,
         PoolPhase' = PoolPhase
  PROVE  Pool!Next
<1>1. PICK cs \in SUBSET Conns : /\ cs \cap (Subscribed \cup Left) = {}
                                /\ Left' = Left \cup cs
                                /\ Subscribed' = Subscribed
  BY TurnedAway
<1>2. Pool!TurnAway(cs)
  BY <1>1 DEF Pool!TurnAway, Left
<1> QED BY <1>2 DEF Pool!Next

\* The server admits a connection only into a free slot and only while it
\* serves, and is done only when every connection it admitted has left.
THEOREM PoolImplemented == Spec => ImplementsPool
<1>1. Init => Pool!Init
  BY DEF Init, AcceptorInit, Pool!Init, PoolPhase, Subscribed, Running
<1>2. ASSUME Layer1, Layer2, PermitsConserved, [Next]_vars
      PROVE  [Pool!Next]_(Pool!vars)
  <2> USE <1>2 DEF MoveMain
  <2>0. AcceptorTypeOK /\ HandlerTypeOK /\ BacklogIsQueued
    BY DEF Layer1, TypeOK, AcceptorTypeOK
  <2>1. CASE CtrlC
    <3>1. stage' = stage /\ main = "serving" /\ main' = "notify"
      BY <2>1 DEF CtrlC
    <3>2. Pool!Drain
      BY <3>1 DEF Pool!Drain, PoolPhase, Subscribed, Running
    <3> QED BY <3>2 DEF Pool!Next
  <2>2. CASE Notify \/ DetachSender
    <3>1. stage' = stage /\ PoolPhase' = PoolPhase
      BY <2>2 DEF Notify, DetachSender, PoolPhase
    <3> QED BY <3>1, PoolStutter DEF Subscribed, Running, Left
  <2>3. CASE ReleaseAcceptor
    BY <2>0, <2>3, PoolTurnAway DEF ReleaseAcceptor, PoolPhase
  <2>4. CASE AwaitCompletion
    <3>1. Subscribed = {}
      BY <2>4, NoSenders DEF AwaitCompletion, Layer1, Layer2
    <3>2. stage' = stage /\ main = "await" /\ main' = "done"
      BY <2>4 DEF AwaitCompletion, handlerVars
    <3>3. Pool!Close
      BY <3>1, <3>2 DEF Pool!Close, PoolPhase, Subscribed, Running
    <3> QED BY <3>3 DEF Pool!Next
  <2>5. CASE AcceptLoop \/ AcceptError
    <3>1. main = "serving" /\ PoolPhase' = PoolPhase /\ PoolPhase = "open"
      BY <2>5 DEF AcceptLoop, AcceptError, PoolPhase
    <3>2. CASE Accept
      <4>1. PICK c \in Conns : /\ c \notin Subscribed \cup Left
                               /\ Cardinality(Subscribed) < MaxConnections
                               /\ Subscribed' = Subscribed \cup {c}
                               /\ Left' = Left
        BY <2>0, <3>2, AcceptAdmits
      <4>2. Pool!Admit(c)
        BY <3>1, <4>1, SameCardinality DEF Pool!Admit, Left
      <4> QED BY <4>2 DEF Pool!Next
    <3>3. CASE AcceptAborted
      BY <2>0, <3>1, <3>3, PoolTurnAway
    <3>4. CASE Subscribe \/ AcquirePermit \/ AcceptFails \/ RetryAccept
      <4>1. stage' = stage
        BY <3>4 DEF Subscribe, AcquirePermit, AcceptFails, RetryAccept, handlerVars
      <4> QED BY <3>1, <4>1, PoolStutter DEF Subscribed, Running, Left
    <3> QED BY <2>5, <3>2, <3>3, <3>4 DEF AcceptLoop, AcceptError, LoopProgress
  <2>6. ASSUME NEW c \in Conns, Task(c) \/ Timeout(c)
        PROVE  [Pool!Next]_(Pool!vars)
    <3>1. (Progress(c) \/ ReadTimeout(c)) /\ PoolPhase' = PoolPhase
      BY <2>6 DEF Task, Timeout, PoolPhase
    <3>2. CASE Subscribed' = Subscribed /\ Left' = Left
      BY <3>1, <3>2, PoolStutter
    <3>3. CASE /\ c \in Subscribed
               /\ Subscribed' = Subscribed \ {c}
               /\ Left' = Left \cup {c}
      <4>1. Pool!Leave(c)
        BY <3>1, <3>3 DEF Pool!Leave, Left
      <4> QED BY <4>1 DEF Pool!Next
    <3> QED BY <2>0, <3>1, <3>2, <3>3, TaskLeaves
  <2>7. ASSUME NEW c \in Conns, Peer(c)
        PROVE  [Pool!Next]_(Pool!vars)
    <3>1. (Connect(c) \/ Client(c)) /\ PoolPhase' = PoolPhase
      BY <2>7 DEF Peer, PoolPhase
    <3> QED BY <2>0, <3>1, PeerLeavesAll, PoolStutter
  <2>8. CASE UNCHANGED vars
    <3>1. stage' = stage /\ PoolPhase' = PoolPhase
      BY <2>8 DEF vars, handlerVars, PoolPhase
    <3> QED BY <3>1, PoolStutter DEF Subscribed, Running, Left
  <2> QED BY <2>1, <2>2, <2>3, <2>4, <2>5, <2>6, <2>7, <2>8 DEF Next, Shutdown, Exited
<1> QED BY <1>1, <1>2, Layer1Invariant, Layer2Invariant, PermitsInvariant, PTL
        DEF Spec, ImplementsPool, Pool!Spec

-----------------------------------------------------------------------------
(* The service parses and executes as the server does                      *)

\* KVService has its own instance of Command, with the same constants.
LEMMA SameCommands ==
  /\ \A frame : Service!FromFrame(frame) = FromFrame(frame)
  /\ \A command, db : Service!Response(command, db) = Response(command, db)
  /\ \A command, db : Service!Effect(command, db) = Effect(command, db)
  /\ Service!Frame = Frame
  /\ Service!ErrorFrame = ErrorFrame
  /\ Service!EmptyDatabase = EmptyDatabase
<1>1. \A items, i : Service!NextBytes(items, i) = NextBytes(items, i)
  BY Zenon DEF Service!NextBytes, NextBytes
<1>2. \A items, i : Service!NextString(items, i) = NextString(items, i)
  BY <1>1, Zenon DEF Service!NextString, NextString
<1>3. \A items, i : Service!Finish(items, i) = Finish(items, i)
  BY Zenon DEF Service!Finish, Finish
<1>4. \A outcome, next : Service!Try(outcome, next) = Try(outcome, next)
  BY Zenon DEF Service!Try, Try, Service!Reject, Reject
<1>5. \A items : Service!GetFromParse(items) = GetFromParse(items)
  BY <1>2, <1>3, <1>4, Zenon DEF Service!GetFromParse, GetFromParse
<1>6. \A items : Service!SetFromParse(items) = SetFromParse(items)
  BY <1>1, <1>2, <1>3, <1>4, Zenon DEF Service!SetFromParse, SetFromParse
<1>7. ASSUME NEW frame
      PROVE  Service!FromFrame(frame) = FromFrame(frame)
  <2>1. ASSUME NEW items
        PROVE  (CASE items[1].data \in GetNames -> Service!GetFromParse(items)
                  [] items[1].data \in SetNames -> Service!SetFromParse(items)
                  [] OTHER                      -> Service!Reject("Other"))
             = (CASE items[1].data \in GetNames -> GetFromParse(items)
                  [] items[1].data \in SetNames -> SetFromParse(items)
                  [] OTHER                      -> Reject("Other"))
    BY <1>5, <1>6 DEF Service!Reject, Reject
  <2>2. Service!Reject("Other") = Reject("Other")
    BY DEF Service!Reject, Reject
  <2> QED BY <1>2, <1>4, <2>1, <2>2 DEF Service!FromFrame, FromFrame
<1>8. /\ \A command, db : Service!Response(command, db) = Response(command, db)
      /\ \A command, db : Service!Effect(command, db) = Effect(command, db)
  BY Zenon DEF Service!Response, Response, Service!Effect, Effect, Service!Lookup, Lookup,
               Service!OkFrame, OkFrame, Service!ErrorFrame, ErrorFrame,
               Service!NullFrame, NullFrame
<1>9. /\ Service!Frame = Frame
      /\ Service!ErrorFrame = ErrorFrame
      /\ Service!EmptyDatabase = EmptyDatabase
  BY Zenon DEF Service!Frame, Frame, Service!Argument, Argument,
               Service!ErrorFrame, ErrorFrame, Service!EmptyDatabase, EmptyDatabase
<1> QED BY <1>7, <1>8, <1>9

\* What the frame reader rejects is no frame, and everything else is.
LEMMA FramesAreServed ==
  /\ Malformed \notin Frame /\ Partial \notin Frame
  /\ Inputs \ {Malformed, Partial} \subseteq Frame
BY HandlerAssumption DEF Malformed, Partial, Frame

-----------------------------------------------------------------------------
(* Positions and stages                                                    *)

Over    == {c \in Conns : stage[c] \in {"unguarded", "released", "ended"}}
Answers == [c \in Conns |-> Executed(c)]

\* How far a connection has got, in each of its stages.
Progressed(c) ==
  /\ parsed[c] <= Len(sent[c])
  /\ stage[c] \in {"away", "queued", "spawned", "reading"} =>
       reply[c] = <<>> /\ Len(out[c]) = parsed[c]
  /\ stage[c] = "writing" => Len(reply[c]) = 1 /\ Len(out[c]) + 1 = parsed[c]
  /\ stage[c] = "reporting" =>
       /\ reply[c] = <<ErrorFrame>> /\ Len(out[c]) = parsed[c]
       /\ peer[c] = "gone" \/ HeadIs(c, {Malformed, Partial})
  /\ stage[c] \in {"unguarded", "released", "ended"} =>
       parsed[c] <= Len(Executed(c))

\* Everything about a connection that the service or its progress depends on.
Idle(c) ==
  /\ stage'[c] = stage[c] /\ parsed'[c] = parsed[c] /\ reply'[c] = reply[c]
  /\ out'[c] = out[c] /\ sent'[c] = sent[c] /\ peer'[c] = peer[c]

\* A connection nothing happens on stays as far as it is.
LEMMA IdleKeeps ==
  ASSUME NEW c \in Conns, Idle(c)
  PROVE  /\ Executed(c)' = Executed(c)
         /\ Progressed(c) => Progressed(c)'
         /\ c \in Over' <=> c \in Over
BY DEF Idle, Executed, Progressed, HeadIs, Unread, NextInput, Over

\* What one step does to the service: nothing, or one of its steps.
LEMMA Unseen ==
  ASSUME \A c \in Conns : Executed(c)' = Executed(c),
         Over' = Over, UNCHANGED <<store, sent>>
  PROVE  UNCHANGED Service!vars
<1>1. Answers' = Answers
  BY DEF Answers
<1> QED BY <1>1 DEF Service!vars, Answers, Over

\* Connections end.
LEMMA HangsUp ==
  ASSUME NEW cs \in SUBSET Conns, cs \cap Over = {}, Over' = Over \cup cs,
         \A c \in Conns : Executed(c)' = Executed(c), UNCHANGED <<store, sent>>
  PROVE  Service!Next
<1>1. Answers' = Answers
  BY DEF Answers
<1>2. Service!Hangup(cs)
  BY <1>1 DEF Service!Hangup, Answers, Over
<1> QED BY <1>2 DEF Service!Next

\* The oldest outstanding request is executed.
LEMMA Executes ==
  ASSUME NEW c \in Conns, c \notin Over, Over' = Over, sent' = sent,
         parsed[c] < Len(sent[c]), Len(Executed(c)) = parsed[c],
         NextInput(c) \in Frame,
         store' = Effect(FromFrame(NextInput(c)), store),
         Executed(c)' = Append(Executed(c), Response(FromFrame(NextInput(c)), store)),
         \A d \in Conns \ {c} : Executed(d)' = Executed(d)
  PROVE  Service!Next
<1> DEFINE response == Response(FromFrame(NextInput(c)), store)
<1>1. Answers' = [Answers EXCEPT ![c] = Append(@, response)]
  <2>1. Answers[c] = Executed(c)
    BY DEF Answers
  <2> QED BY <2>1 DEF Answers
<1>2. Service!Oldest(c) = NextInput(c) /\ Service!Outstanding(c)
  BY DEF Service!Oldest, Service!Outstanding, NextInput
<1>3. Service!Execute(c)
  <2> HIDE DEF NextInput
  <2> QED BY <1>1, <1>2, SameCommands DEF Service!Execute, Answers, Over
<1> QED BY <1>3 DEF Service!Next

\* Input that is no frame is answered with an error.
LEMMA Complains ==
  ASSUME NEW c \in Conns, c \notin Over, Over' = Over \cup {c},
         UNCHANGED <<sent, store>>,
         parsed[c] < Len(sent[c]), Len(Executed(c)) = parsed[c],
         NextInput(c) \notin Frame,
         Executed(c)' = Append(Executed(c), ErrorFrame),
         \A d \in Conns \ {c} : Executed(d)' = Executed(d)
  PROVE  Service!Next
<1>1. Answers' = [Answers EXCEPT ![c] = Append(@, ErrorFrame)]
  <2>1. Answers[c] = Executed(c)
    BY DEF Answers
  <2> QED BY <2>1 DEF Answers
<1>2. Service!Oldest(c) = NextInput(c) /\ Service!Outstanding(c)
  BY DEF Service!Oldest, Service!Outstanding, NextInput
<1>3. Service!Complain(c)
  <2> HIDE DEF NextInput
  <2> QED BY <1>1, <1>2, SameCommands DEF Service!Complain, Answers, Over
<1> QED BY <1>3 DEF Service!Next

\* A request is written.
LEMMA Requests ==
  ASSUME NEW c \in Conns, NEW m \in Inputs, Len(sent[c]) < MaxInputs,
         sent' = [sent EXCEPT ![c] = Append(@, m)], store' = store, Over' = Over,
         \A d \in Conns : Executed(d)' = Executed(d)
  PROVE  Service!Next
<1>1. Answers' = Answers
  BY DEF Answers
<1>2. Service!Request(c)
  BY <1>1 DEF Service!Request, Answers, Over
<1> QED BY <1>2 DEF Service!Next

-----------------------------------------------------------------------------
(* The steps                                                               *)

\* A task touches its own connection only, and no client's end.
LEMMA TaskAlone ==
  ASSUME HandlerTypeOK, NEW c \in Conns, Progress(c) \/ ReadTimeout(c)
  PROVE  UNCHANGED <<sent, peer>> /\ \A d \in Conns \ {c} : Idle(d)
<1> USE DEF HandlerTypeOK, MoveTo, Idle, client, input, output
<1>1. CASE Start(c) \/ NodelayFails(c)
  BY <1>1 DEF Start, NodelayFails
<1>2. CASE Serve(c)
  BY <1>2 DEF Serve
<1>3. CASE Respond(c) \/ WriteFails(c)
  BY <1>3 DEF Respond, WriteFails
<1>4. CASE ReadFails(c) \/ Report(c)
  BY <1>4 DEF ReadFails, Report
<1>5. CASE EndOfInput(c) \/ ReadTimeout(c) \/ ShutdownSelected(c)
  BY <1>5 DEF EndOfInput, ReadTimeout, ShutdownSelected
<1>6. CASE DropHandler(c) \/ DropPermit(c)
  BY <1>6 DEF DropHandler, DropPermit
<1> QED BY <1>1, <1>2, <1>3, <1>4, <1>5, <1>6 DEF Progress, Ending

\* Joining replies.
LEMMA Replies ==
  ASSUME HandlerTypeOK, NEW c \in Conns
  PROVE  /\ out[c] \in Seq(Reply) /\ reply[c] \in Seq(Reply)
         /\ Len(out[c]) \in Nat /\ Len(reply[c]) \in Nat
         /\ Len(out[c] \o reply[c]) = Len(out[c]) + Len(reply[c])
         /\ out[c] \o <<>> = out[c] /\ (out[c] \o reply[c]) \o <<>> = out[c] \o reply[c]
         /\ \A response : out[c] \o <<response>> = Append(out[c], response)
<1>1. out[c] \in Seq(Reply) /\ reply[c] \in Seq(Reply)
  BY DEF HandlerTypeOK
<1>2. /\ Len(out[c] \o reply[c]) = Len(out[c]) + Len(reply[c])
      /\ out[c] \o reply[c] \in Seq(Reply)
  BY <1>1, ConcatProperties
<1> QED BY <1>1, <1>2, LenProperties, ConcatEmptySeq

\* A task's step is a step of the service, or nothing to it.
LEMMA TaskServes ==
  ASSUME HandlerTypeOK, NEW c \in Conns, Progress(c) \/ ReadTimeout(c), Progressed(c)
  PROVE  [Service!Next]_(Service!vars) /\ Progressed(c)'
<1>1. /\ UNCHANGED <<sent, peer>>
      /\ \A d \in Conns \ {c} : Executed(d)' = Executed(d) /\ (d \in Over' <=> d \in Over)
  BY TaskAlone, IdleKeeps
<1>2. Over \subseteq Conns /\ Over' \subseteq Conns
  BY DEF Over
<1>3. /\ stage \in [Conns -> Stages] /\ parsed[c] \in Nat /\ sent[c] \in Seq(Inputs)
      /\ Len(sent[c]) \in Nat
  BY LenProperties DEF HandlerTypeOK
<1>4. ASSUME Executed(c)' = Executed(c), c \in Over' <=> c \in Over, store' = store
      PROVE  UNCHANGED Service!vars
  BY <1>1, <1>2, <1>4, Unseen
<1>5. ASSUME Executed(c)' = Executed(c), c \in Over', c \notin Over, store' = store
      PROVE  Service!Next
  <2>1. Over' = Over \cup {c} /\ {c} \cap Over = {}
    BY <1>1, <1>2, <1>5
  <2> QED BY <1>1, <1>5, <2>1, HangsUp
<1> USE Replies
<1>6. CASE Start(c)
  <2>1. /\ stage[c] = "spawned" /\ stage'[c] = "reading" /\ UNCHANGED <<store, parsed, reply, out>>
    BY <1>3, <1>6 DEF Start, MoveTo, input, output
  <2>2. Executed(c)' = Executed(c) /\ (c \in Over' <=> c \in Over)
    BY <2>1 DEF Executed, Over
  <2> QED BY <1>1, <1>4, <2>1, <2>2 DEF Progressed
<1>7. CASE NodelayFails(c) \/ EndOfInput(c) \/ ReadTimeout(c) \/ ShutdownSelected(c)
           \/ WriteFails(c)
  <2>1. /\ stage[c] \in {"spawned", "reading", "writing"} /\ stage'[c] = "unguarded"
        /\ UNCHANGED <<store, parsed, reply, out>>
    BY <1>3, <1>7 DEF NodelayFails, EndOfInput, ReadTimeout, ShutdownSelected, WriteFails,
                      MoveTo, input, output
  <2>2. Executed(c)' = Executed(c) /\ c \in Over' /\ c \notin Over
    BY <2>1 DEF Executed, Over
  <2>3. parsed[c] <= Len(Executed(c))
    <3>1. Executed(c) = out[c] \o reply[c]
      BY <2>1 DEF Executed
    <3>2. Len(Executed(c)) = Len(out[c]) + Len(reply[c])
      BY <3>1
    <3>3. Len(out[c]) = parsed[c] \/ (Len(out[c]) + 1 = parsed[c] /\ Len(reply[c]) = 1)
      BY <2>1 DEF Progressed
    <3>4. Len(out[c]) \in Nat /\ Len(reply[c]) \in Nat
      OBVIOUS
    <3>5. CASE Len(out[c]) = parsed[c]
      BY <3>2, <3>4, <3>5
    <3>6. CASE Len(out[c]) + 1 = parsed[c] /\ Len(reply[c]) = 1
      BY <3>2, <3>4, <3>6
    <3> QED BY <3>3, <3>5, <3>6
  <2>4. Progressed(c)'
    BY <1>1, <2>1, <2>2, <2>3 DEF Progressed
  <2> QED BY <1>5, <2>1, <2>2, <2>4
<1>8. CASE DropHandler(c) \/ DropPermit(c)
  <2>1. /\ stage[c] \in {"unguarded", "released"} /\ stage'[c] \in {"released", "ended"}
        /\ UNCHANGED <<store, parsed, reply, out>>
    BY <1>3, <1>8 DEF DropHandler, DropPermit, MoveTo, input, output
  <2>2. Executed(c)' = Executed(c) /\ (c \in Over' <=> c \in Over)
    BY <2>1 DEF Executed, Over
  <2> QED BY <1>1, <1>4, <2>1, <2>2 DEF Progressed
<1>9. CASE Serve(c)
  <2> DEFINE response == Response(FromFrame(NextInput(c)), store)
  <2>1. /\ stage[c] = "reading" /\ stage'[c] = "writing" /\ out' = out
        /\ parsed[c] < Len(sent[c]) /\ NextInput(c) \in Inputs \ {Malformed, Partial}
        /\ parsed'[c] = parsed[c] + 1
        /\ store' = Effect(FromFrame(NextInput(c)), store)
        /\ reply'[c] = <<response>>
    BY <1>3, <1>9 DEF Serve, MoveTo, HeadIs, Unread, HandlerTypeOK
  <2> HIDE DEF response
  <2>2. Executed(c) = out[c] /\ Executed(c)' = Append(out[c], response)
    BY <2>1 DEF Executed, Progressed
  <2>3. NextInput(c) \in Frame
    BY <2>1, FramesAreServed
  <2>4. Over' = Over /\ c \notin Over
    BY <1>1, <1>2, <2>1 DEF Over
  <2>5. Len(Executed(c)) = parsed[c]
    BY <2>1, <2>2 DEF Progressed
  <2>6. Service!Next
    BY <1>1, <2>1, <2>2, <2>3, <2>4, <2>5, Executes DEF response
  <2>7. Len(reply'[c]) = 1
    BY <2>1
  <2>8. Progressed(c)'
    BY <1>1, <1>3, <2>1, <2>7 DEF Progressed
  <2> QED BY <2>6, <2>8
<1>10. CASE Respond(c)
  <2>1. /\ stage[c] = "writing" /\ stage'[c] = "reading" /\ UNCHANGED <<store, parsed>>
        /\ out'[c] = out[c] \o reply[c] /\ reply'[c] = <<>>
    BY <1>3, <1>10 DEF Respond, MoveTo, HandlerTypeOK, input
  <2>2. Executed(c)' = Executed(c) /\ (c \in Over' <=> c \in Over)
    BY <2>1 DEF Executed, Over
  <2>3. Progressed(c)'
    BY <1>1, <2>1 DEF Progressed
  <2> QED BY <1>4, <2>1, <2>2, <2>3
<1>11. CASE ReadFails(c)
  <2>1. /\ stage[c] = "reading" /\ stage'[c] = "reporting" /\ UNCHANGED <<store, parsed, out>>
        /\ reply'[c] = <<ErrorFrame>>
        /\ peer[c] = "gone" \/ HeadIs(c, {Malformed, Partial})
    BY <1>3, <1>11 DEF ReadFails, MoveTo, HeadIs, HandlerTypeOK, input
  <2>2. Executed(c)' = Executed(c) /\ (c \in Over' <=> c \in Over)
    BY <2>1 DEF Executed, Progressed, Over
  <2>3. Progressed(c)'
    BY <1>1, <2>1 DEF Progressed, HeadIs, Unread, NextInput
  <2> QED BY <1>4, <2>1, <2>2, <2>3
<1>12. CASE Report(c)
  <2>1. /\ stage[c] = "reporting" /\ stage'[c] = "unguarded" /\ UNCHANGED <<store, parsed>>
        /\ reply'[c] = <<>>
        /\ \/ CanSend(c) /\ out'[c] = out[c] \o reply[c]
           \/ out'[c] = out[c]
    BY <1>3, <1>12 DEF Report, MoveTo, HandlerTypeOK, input
  <2>2. /\ Executed(c) = out[c] /\ Len(out[c]) = parsed[c] /\ reply[c] = <<ErrorFrame>>
        /\ c \in Over' /\ c \notin Over
    BY <2>1 DEF Executed, Progressed, Over
  <2>3. CASE out'[c] = out[c]
    <3>1. Executed(c)' = Executed(c)
      BY <2>1, <2>2, <2>3 DEF Executed
    <3>2. Progressed(c)'
      BY <1>1, <1>3, <2>1, <2>2, <3>1 DEF Progressed
    <3> QED BY <1>5, <2>1, <2>2, <3>1, <3>2
  <2>4. CASE CanSend(c) /\ out'[c] = out[c] \o reply[c]
    <3>1. Executed(c)' = Append(Executed(c), ErrorFrame)
      BY <2>1, <2>2, <2>4 DEF Executed
    <3>2. parsed[c] < Len(sent[c]) /\ NextInput(c) \notin Frame
      BY <2>1, <2>4, FramesAreServed DEF Progressed, CanSend, HeadIs, Unread
    <3>3. Over' = Over \cup {c}
      BY <1>1, <1>2, <2>2
    <3>4. Service!Next
      BY <1>1, <2>1, <2>2, <3>1, <3>2, <3>3, Complains
    <3>5. Len(Executed(c)') = parsed[c] + 1
      BY <2>2, <3>1, AppendProperties
    <3>6. Progressed(c)'
      BY <1>1, <1>3, <2>1, <3>5 DEF Progressed
    <3> QED BY <3>4, <3>6
  <2> QED BY <2>1, <2>3, <2>4
<1> QED
  BY <1>6, <1>7, <1>8, <1>9, <1>10, <1>11, <1>12 DEF Progress, Ending

\* A client writes a request, or does nothing the service knows of.
LEMMA ClientServes ==
  ASSUME HandlerTypeOK, NEW c \in Conns, Client(c)
  PROVE  /\ [Service!Next]_(Service!vars)
         /\ \A d \in Conns : Progressed(d) => Progressed(d)'
<1>1. /\ UNCHANGED <<store, stage, parsed, reply, out>>
      /\ \A d \in Conns : peer[d] = "gone" => peer'[d] = "gone"
  BY DEF Client, Send, CloseSend, Reset, ReadReply, input, output, HandlerTypeOK
<1>2. Over' = Over /\ \A d \in Conns : Executed(d)' = Executed(d)
  BY <1>1 DEF Over, Executed
<1>3. CASE Send(c)
  <2>1. PICK m \in Inputs : sent' = [sent EXCEPT ![c] = Append(@, m)]
    BY <1>3 DEF Send
  <2>2. Service!Next
    BY <1>1, <1>2, <1>3, <2>1, Requests DEF Send
  <2>3. ASSUME NEW d \in Conns, Progressed(d)
        PROVE  Progressed(d)'
    <3>1. /\ sent[d] \in Seq(Inputs) /\ Len(sent[d]) \in Nat /\ parsed[d] \in Nat
          /\ sent'[d] = sent[d] \/ sent'[d] = Append(sent[d], m)
      BY <2>1, LenProperties DEF HandlerTypeOK
    <3>2. /\ Len(sent[d]) <= Len(sent'[d])
          /\ \A n \in 1..Len(sent[d]) : sent'[d][n] = sent[d][n]
      BY <3>1, AppendProperties
    <3>3. Len(sent'[d]) \in Nat
      BY <3>1, AppendProperties
    <3>4. HeadIs(d, {Malformed, Partial}) => HeadIs(d, {Malformed, Partial})'
      <4>1. ASSUME parsed[d] < Len(sent[d])
            PROVE  parsed[d] < Len(sent'[d]) /\ sent'[d][parsed[d] + 1] = sent[d][parsed[d] + 1]
        BY <3>1, <3>2, <3>3, <4>1, parsed[d] + 1 \in 1..Len(sent[d])
      <4> QED BY <1>1, <4>1 DEF HeadIs, Unread, NextInput
    <3>5. parsed[d] <= Len(sent'[d])
      BY <2>3, <3>1, <3>2, <3>3 DEF Progressed
    <3> HIDE DEF HeadIs
    <3> QED BY <1>1, <1>2, <2>3, <3>4, <3>5 DEF Progressed
  <2> QED BY <2>2, <2>3
<1>4. CASE CloseSend(c) \/ Reset(c) \/ ReadReply(c)
  <2>1. sent' = sent
    BY <1>4 DEF CloseSend, Reset, ReadReply
  <2>2. ASSUME NEW d \in Conns, Progressed(d)
        PROVE  Progressed(d)'
    BY <1>1, <1>2, <2>1, <2>2 DEF Progressed, HeadIs, Unread, NextInput
  <2> QED BY <1>1, <1>2, <2>1, <2>2, Unseen
<1> QED BY <1>3, <1>4 DEF Client

\* Only connections that wait are moved, to their tasks or away.
LEMMA Admission ==
  ASSUME HandlerTypeOK, UNCHANGED <<store, sent, peer, parsed, reply, out>>,
         \A d \in Conns : \/ stage'[d] = stage[d]
                          \/ /\ stage[d] \in {"away", "queued"}
                             /\ stage'[d] \in {"queued", "spawned", "ended"}
  PROVE  /\ [Service!Next]_(Service!vars)
         /\ \A d \in Conns : Progressed(d) => Progressed(d)'
<1>1. \A d \in Conns : Executed(d)' = Executed(d)
  BY DEF Executed
<1>2. PICK cs \in SUBSET Conns :
        cs = {d \in Conns : stage[d] \in {"away", "queued"} /\ stage'[d] = "ended"}
  OBVIOUS
<1>3. Over' = Over \cup cs /\ cs \cap Over = {}
  BY <1>2 DEF Over
<1>4. Service!Next
  BY <1>1, <1>3, HangsUp
<1>5. ASSUME NEW d \in Conns, Progressed(d)
      PROVE  Progressed(d)'
  <2>1. CASE stage'[d] = stage[d]
    BY <2>1, <1>1, <1>5 DEF Progressed, HeadIs, Unread, NextInput
  <2>2. CASE stage[d] \in {"away", "queued"} /\ stage'[d] \in {"queued", "spawned"}
    BY <1>5, <2>2 DEF Progressed
  <2>3. CASE stage[d] \in {"away", "queued"} /\ stage'[d] = "ended"
    <3>1. Executed(d) = out[d] /\ Len(out[d]) = parsed[d] /\ parsed[d] \in Nat
      BY <1>5, <2>3, Replies DEF Executed, Progressed, HandlerTypeOK
    <3>2. parsed[d] <= Len(Executed(d)')
      BY <1>1, <3>1
    <3> QED BY <1>5, <2>3, <3>2 DEF Progressed
  <2> QED BY <2>1, <2>2, <2>3
<1> QED BY <1>4, <1>5

\* main, the accept loop and new connections move only what waits.
LEMMA LoopMoves ==
  ASSUME AcceptorTypeOK, BacklogIsQueued,
         \/ CtrlC \/ Shutdown \/ AcceptLoop \/ AcceptError
         \/ \E c \in Conns : Connect(c),
         NEW d \in Conns
  PROVE  \/ stage'[d] = stage[d]
         \/ /\ stage[d] \in {"away", "queued"}
            /\ stage'[d] \in {"queued", "spawned", "ended"}
<1> USE DEF AcceptorTypeOK, HandlerTypeOK
<1>1. CASE Accept \/ AcceptAborted
  <2>1. Head(backlog) \in Conns /\ stage[Head(backlog)] = "queued"
    BY <1>1, BacklogHead DEF Accept, AcceptAborted
  <2>2. PICK to \in {"spawned", "ended"} :
          stage' = [stage EXCEPT ![Head(backlog)] = to]
    BY <1>1 DEF Accept, AcceptAborted
  <2> QED BY <2>1, <2>2
<1>2. CASE ReleaseAcceptor
  BY <1>2 DEF ReleaseAcceptor, DropAcceptor
<1>3. CASE \E c \in Conns : Connect(c)
  BY <1>3 DEF Connect, MoveTo
<1>4. CASE CtrlC \/ Notify \/ DetachSender \/ AwaitCompletion \/ AcceptError
           \/ Subscribe \/ AcquirePermit \/ RetryAccept
  BY <1>4 DEF CtrlC, Notify, DetachSender, AwaitCompletion, AcceptError, AcceptFails,
              Subscribe, AcquirePermit, RetryAccept, handlerVars
<1> QED BY <1>1, <1>2, <1>3, <1>4 DEF Shutdown, AcceptLoop, LoopProgress

\* The service sees of them connections that end.
LEMMA LoopServes ==
  ASSUME AcceptorTypeOK, BacklogIsQueued,
         \/ CtrlC \/ Shutdown \/ AcceptLoop \/ AcceptError
         \/ \E c \in Conns : Connect(c)
  PROVE  /\ [Service!Next]_(Service!vars)
         /\ \A d \in Conns : Progressed(d) => Progressed(d)'
<1>1. UNCHANGED <<store, sent, peer, parsed, reply, out>>
  BY DEF CtrlC, Shutdown, Notify, ReleaseAcceptor, DropAcceptor, DetachSender,
         AwaitCompletion, AcceptLoop, LoopProgress, Subscribe, AcquirePermit, Accept,
         AcceptAborted, RetryAccept, AcceptError, AcceptFails, Connect,
         handlerVars, client, input, output
<1> QED BY <1>1, LoopMoves, Admission DEF AcceptorTypeOK

-----------------------------------------------------------------------------

\* Every connection is as far as its stage says.
AllProgressed == \A c \in Conns : Progressed(c)

\* A fresh server is a fresh service.
LEMMA FreshService ==
  ASSUME Fresh, stage \in [Conns -> {"away", "spawned"}]
  PROVE  Service!Init /\ AllProgressed
<1>1. \A c \in Conns : out[c] \o reply[c] = <<>> /\ Len(<<>>) = 0
  BY EmptySeq, ConcatEmptySeq DEF Fresh
<1>2. \A c \in Conns : Executed(c) = <<>>
  BY <1>1 DEF Executed
<1>3. Service!Init
  BY <1>2, SameCommands DEF Service!Init, Fresh
<1>4. AllProgressed
  BY EmptySeq DEF Fresh, AllProgressed, Progressed
<1> QED BY <1>3, <1>4

\* The steps of tasks and clients.
LEMMA TasksServe ==
  ASSUME HandlerTypeOK, AllProgressed, NEW c \in Conns,
         Progress(c) \/ ReadTimeout(c) \/ Client(c)
  PROVE  [Service!Next]_(Service!vars) /\ AllProgressed'
<1>1. CASE Progress(c) \/ ReadTimeout(c)
  BY <1>1, TaskServes, TaskAlone, IdleKeeps DEF AllProgressed
<1>2. CASE Client(c)
  BY <1>2, ClientServes DEF AllProgressed
<1> QED BY <1>1, <1>2

\* Nothing happens to any connection.
LEMMA NothingServed ==
  ASSUME UNCHANGED handlerVars, AllProgressed
  PROVE  UNCHANGED Service!vars /\ AllProgressed'
<1>1. \A c \in Conns : Idle(c)
  BY DEF handlerVars, client, input, output, Idle
<1>2. AllProgressed' /\ Over' = Over /\ \A c \in Conns : Executed(c)' = Executed(c)
  BY <1>1, IdleKeeps DEF AllProgressed, Over
<1> QED BY <1>2, Unseen DEF handlerVars, client

\* Every step of the tasks.
LEMMA TasksNextServes ==
  HandlerTypeOK /\ AllProgressed /\ [TasksNext]_handlerVars
    => [Service!Next]_(Service!vars) /\ AllProgressed'
BY TasksServe, NothingServed DEF TasksNext

\* Every step of the server.
LEMMA NextServes ==
  ASSUME Layer1, AllProgressed, [Next]_vars
  PROVE  [Service!Next]_(Service!vars) /\ AllProgressed'
<1>0. AcceptorTypeOK /\ HandlerTypeOK /\ BacklogIsQueued
  BY DEF Layer1, TypeOK, AcceptorTypeOK
<1>1. CASE UNCHANGED vars
  BY <1>1, NothingServed DEF vars
<1>2. ASSUME NEW c \in Conns, Task(c) \/ Timeout(c) \/ Peer(c)
      PROVE  [Service!Next]_(Service!vars) /\ AllProgressed'
  BY <1>0, <1>2, TasksServe, LoopServes DEF Task, Timeout, Peer, AllProgressed
<1>3. CASE CtrlC \/ Shutdown \/ AcceptLoop \/ AcceptError
  BY <1>0, <1>3, LoopServes DEF AllProgressed
<1> QED BY <1>1, <1>2, <1>3 DEF Next, Exited

\* Every connection is as far as its stage says, in the tasks ...
THEOREM TasksProgress == TasksSpec => []AllProgressed
<1>1. TasksInit => AllProgressed
  BY FreshService DEF TasksInit
<1>2. TasksSpec => []HandlerTypeOK
  BY TasksInvariant, PTL
<1> QED BY <1>1, <1>2, TasksNextServes, PTL DEF TasksSpec

\* ... and in the server.
THEOREM ServerProgress == Spec => []AllProgressed
<1>1. Init => AllProgressed
  BY FreshService DEF Init, AcceptorInit
<1>2. Layer1 /\ AllProgressed /\ [Next]_vars => AllProgressed'
  BY NextServes
<1> QED BY <1>1, <1>2, Layer1Invariant, PTL DEF Spec

\* The connection tasks on their own, sharing one map, execute the requests of
\* each connection once each, in order and one at a time, and answer in order.
THEOREM TasksImplementService == TasksSpec => ImplementsService
<1>1. TasksInit => Service!Init
  BY FreshService DEF TasksInit
<1>2. TasksSpec => []HandlerTypeOK
  BY TasksInvariant, PTL
<1> QED
  BY <1>1, <1>2, TasksNextServes, TasksProgress, PTL
  DEF TasksSpec, ImplementsService, Service!Spec

\* So does the whole server, with its listener, its limit and its shutdown.
THEOREM ServerImplementsService == Spec => ImplementsService
<1>1. Init => Service!Init
  BY FreshService DEF Init, AcceptorInit
<1>2. Layer1 /\ AllProgressed /\ [Next]_vars => [Service!Next]_(Service!vars)
  BY NextServes
<1> QED
  BY <1>1, <1>2, Layer1Invariant, ServerProgress, PTL
  DEF Spec, ImplementsService, Service!Spec

-----------------------------------------------------------------------------
(* The counters account for the traffic                                    *)

\* Requests whose answers are written.
Delivered == {p \in Served : p[2] <= Len(out[p[1]])}

\* Among finitely many requests these sets have sizes.
LEMMA CountedFinite ==
  /\ IsFiniteSet(Served) /\ Cardinality(Served) \in Nat
  /\ \A op : IsFiniteSet(Asked(op)) /\ Cardinality(Asked(op)) \in Nat
  /\ \A op, type : /\ IsFiniteSet(Answered(op, type))
                   /\ Cardinality(Answered(op, type)) \in Nat
  /\ IsFiniteSet(Delivered) /\ Cardinality(Delivered) \in Nat
<1>1. IsFiniteSet(Pairs)
  BY HandlerAssumption, FS_Interval, FS_Product, 1 \in Int, MaxInputs \in Int DEF Pairs
<1>2. \A S \in SUBSET Pairs : IsFiniteSet(S) /\ Cardinality(S) \in Nat
  BY <1>1, FS_Subset, FS_CardinalityType
<1>3. Served \in SUBSET Pairs /\ Delivered \in SUBSET Pairs
  BY DEF Served, Delivered
<1>4. \A op : Asked(op) \in SUBSET Pairs
  BY <1>3 DEF Asked
<1>5. \A op, type : Answered(op, type) \in SUBSET Pairs
  BY <1>4 DEF Answered
<1> QED BY <1>2, <1>3, <1>4, <1>5

\* Requests that were served stay what they are, and so do their answers.
Settles(c) ==
  \A n \in 1..parsed[c] : /\ sent'[c][n] = sent[c][n]
                          /\ Executed(c)'[n] = Executed(c)[n]

\* Steps that serve no request.
LEMMA Uncounted ==
  ASSUME \A c \in Conns : Settles(c) /\ parsed'[c] = parsed[c]
  PROVE  /\ Served' = Served
         /\ \A op : Asked(op)' = Asked(op)
         /\ \A op, type : Answered(op, type)' = Answered(op, type)
<1>1. \A p \in Pairs : p[1] \in Conns /\ p[2] \in 1..MaxInputs
  BY DEF Pairs
<1>2. Served' = Served
  BY <1>1 DEF Served, Pairs
<1>3. \A p \in Served : p[1] \in Conns /\ p[2] \in 1..parsed[p[1]]
  BY <1>1 DEF Served
<1>5. ASSUME NEW op
      PROVE  Asked(op)' = Asked(op)
  BY <1>2, <1>3 DEF Asked, Settles
<1>6. ASSUME NEW op, NEW type
      PROVE  Answered(op, type)' = Answered(op, type)
  <2>1. \A p \in Asked(op) : Executed(p[1])'[p[2]] = Executed(p[1])[p[2]]
    BY <1>3 DEF Asked, Settles
  <2> QED BY <1>5, <2>1 DEF Answered
<1> QED BY <1>2, <1>5, <1>6

\* The counters of requests and answers.
Tracked == {"requests_received", "command_responses_written",
            "cache_hits", "cache_misses", "command_parse_errors"}

\* The bound on a client's inputs, which makes the requests finitely many.
WithinBound == \A c \in Conns : Len(sent[c]) <= MaxInputs

\* Steps that count nothing of it keep the account.
LEMMA AccountKept ==
  ASSUME MetricsMatchTraffic, \A n \in Tracked : metrics'[n] = metrics[n],
         \A c \in Conns : Settles(c) /\ parsed'[c] = parsed[c],
         \A c \in Conns : \A n \in 1..parsed[c] : n <= Len(out'[c]) <=> n <= Len(out[c])
  PROVE  MetricsMatchTraffic'
<1>1. /\ Served' = Served
      /\ \A op : Asked(op)' = Asked(op)
      /\ \A op, type : Answered(op, type)' = Answered(op, type)
  BY Uncounted
<1>2. Delivered' = Delivered
  BY <1>1 DEF Delivered, Served, Pairs
<1> QED BY <1>1, <1>2 DEF MetricsMatchTraffic, Tracked, Delivered

\* A connection on which nothing happens keeps its part of the account.
LEMMA IdleSettles ==
  ASSUME NEW c \in Conns, Idle(c)
  PROVE  Settles(c) /\ parsed'[c] = parsed[c] /\ Len(out'[c]) = Len(out[c])
BY IdleKeeps DEF Idle, Settles

\* Serving answers the next request, and changes no answer given before.
LEMMA ServeSettles ==
  ASSUME HandlerTypeOK, NEW c \in Conns, Serve(c), Progressed(c),
         NEW k \in Nat, k = parsed[c] + 1
  PROVE  /\ k \in 1..Len(sent[c]) /\ sent[c][k] \in Inputs \ {Malformed, Partial}
         /\ UNCHANGED <<sent, out>> /\ parsed' = [parsed EXCEPT ![c] = k]
         /\ store' = Effect(FromFrame(sent[c][k]), store)
         /\ Executed(c)'[k] = Response(FromFrame(sent[c][k]), store)
         /\ \A d \in Conns : Settles(d)
<1> DEFINE response == Response(FromFrame(sent[c][k]), store)
<1>1. /\ stage[c] = "reading" /\ stage'[c] = "writing"
      /\ UNCHANGED <<sent, out>> /\ parsed' = [parsed EXCEPT ![c] = k]
      /\ store' = Effect(FromFrame(sent[c][k]), store)
      /\ reply' = [reply EXCEPT ![c] = <<response>>]
      /\ k <= Len(sent[c]) /\ sent[c][k] \in Inputs \ {Malformed, Partial}
  <2>1. parsed[c] \in Nat /\ parsed \in [Conns -> Nat] /\ stage \in [Conns -> Stages]
        /\ sent[c] \in Seq(Inputs) /\ Len(sent[c]) \in Nat
    BY LenProperties DEF HandlerTypeOK
  <2> QED BY <2>1 DEF Serve, MoveTo, HeadIs, Unread, NextInput, client
<1>2. reply'[c] = <<response>>
  BY <1>1 DEF HandlerTypeOK
<1> HIDE DEF response
<1>3. /\ Executed(c) = out[c] /\ Executed(c)' = Append(out[c], response)
      /\ Len(out[c]) = parsed[c] /\ out[c] \in Seq(Reply) /\ parsed[c] \in Nat
  BY <1>1, <1>2, Replies DEF Executed, Progressed, HandlerTypeOK
<1>4. Executed(c)'[k] = response /\ Settles(c)
  BY <1>1, <1>3, AppendProperties DEF Settles
<1>5. \A d \in Conns \ {c} : Settles(d)
  BY TaskAlone, IdleSettles DEF Progress
<1>6. k \in 1..Len(sent[c])
  BY <1>1, LenProperties DEF HandlerTypeOK
<1> QED BY <1>1, <1>4, <1>5, <1>6 DEF response

\* Responding writes the last answer that was given, and changes none.
LEMMA RespondSettles ==
  ASSUME HandlerTypeOK, NEW c \in Conns, Respond(c), Progressed(c)
  PROVE  /\ UNCHANGED <<store, sent, parsed>>
         /\ out'[c] = out[c] \o reply[c] /\ Len(out[c]) + 1 = parsed[c] /\ Len(out'[c]) = parsed[c]
         /\ \A d \in Conns \ {c} : Idle(d)
         /\ \A d \in Conns : Settles(d)
<1>1. /\ stage[c] = "writing" /\ stage'[c] = "reading"
      /\ UNCHANGED <<store, sent, parsed>>
      /\ out'[c] = out[c] \o reply[c] /\ reply'[c] = <<>>
  BY DEF Respond, MoveTo, HandlerTypeOK, client, input
<1>2. \A d \in Conns \ {c} : Idle(d)
  BY TaskAlone DEF Progress
<1>3. parsed[c] \in Nat /\ Len(out[c]) + 1 = parsed[c] /\ Len(out'[c]) = parsed[c]
  BY <1>1, Replies DEF Progressed, HandlerTypeOK
<1>4. Executed(c)' = Executed(c)
  BY <1>1, Replies DEF Executed
<1>5. \A d \in Conns : Settles(d)
  BY <1>1, <1>2, <1>4, IdleSettles DEF Settles
<1> QED BY <1>1, <1>2, <1>3, <1>5

\* A request that is served is counted once, by its kind and by its answer.
LEMMA ServeCounted ==
  ASSUME HandlerTypeOK, WithinBound, MetricsMatchTraffic,
         NEW c \in Conns, Serve(c), Progressed(c)
  PROVE  MetricsMatchTraffic'
<1> DEFINE command  == FromFrame(NextInput(c))
           response == Response(command, store)
<1>1. PICK k \in Nat : k = parsed[c] + 1
  BY DEF HandlerTypeOK
<1>2. /\ stage[c] = "reading" /\ stage'[c] = "writing"
      /\ UNCHANGED <<sent, out>> /\ parsed'[c] = k
      /\ reply' = [reply EXCEPT ![c] = <<response>>]
      /\ parsed[c] < Len(sent[c]) /\ NextInput(c) \in Inputs \ {Malformed, Partial}
      /\ Count(Tally(command, response))
  BY <1>1 DEF Serve, MoveTo, HeadIs, Unread, HandlerTypeOK, client
<1>3. \A d \in Conns \ {c} : Idle(d)
  BY TaskAlone DEF Progress
<1>4. k \in 1..MaxInputs
  <2>1. Len(sent[c]) \in Nat /\ Len(sent[c]) <= MaxInputs /\ parsed[c] \in Nat
    BY LenProperties DEF HandlerTypeOK, WithinBound
  <2> QED BY <1>1, <1>2, <2>1, HandlerAssumption
<1>5. Executed(c) = out[c] /\ Executed(c)' = Append(out[c], response)
      /\ Len(out[c]) = parsed[c] /\ out[c] \in Seq(Reply)
  <2>1. reply'[c] = <<response>>
    BY <1>2 DEF HandlerTypeOK
  <2> HIDE DEF response
  <2> QED BY <1>2, <2>1, Replies DEF Executed, Progressed
<1>6. Executed(c)'[k] = response
  <2> HIDE DEF response
  <2> QED BY <1>1, <1>5, AppendProperties
<1>7. \A d \in Conns : Settles(d)
  BY <1>1, ServeSettles
<1>8. PICK new : new = <<c, k>>
  OBVIOUS
<1>9. new \in Pairs /\ new \notin Served /\ new[1] = c /\ new[2] = k
  BY <1>1, <1>4, <1>8 DEF Pairs, Served, HandlerTypeOK
<1>10. Served' = Served \cup {new}
  <2>1. \A d \in Conns \ {c} : parsed'[d] = parsed[d]
    BY <1>3 DEF Idle
  <2>2. parsed[c] \in Nat
    BY DEF HandlerTypeOK
  <2>3. ASSUME NEW p \in Pairs
        PROVE  p[2] <= parsed'[p[1]] <=> p[2] <= parsed[p[1]] \/ p = new
    <3>1. p = <<p[1], p[2]>> /\ p[1] \in Conns /\ p[2] \in 1..MaxInputs
      BY DEF Pairs
    <3>2. CASE p[1] = c
      BY <1>1, <1>2, <1>8, <2>2, <3>1, <3>2
    <3>3. CASE p[1] # c
      BY <1>9, <2>1, <3>1, <3>3
    <3> QED BY <3>2, <3>3
  <2> QED BY <1>9, <2>3 DEF Served, Pairs
<1>11. \A p \in Served : p[1] \in Conns /\ p[2] \in 1..parsed[p[1]]
  BY DEF Served, Pairs
<1>12. OpOf[sent'[c][k]] = command.op
  BY <1>1, <1>2 DEF OpOf, NextInput
<1> HIDE DEF command, response
<1>13. ASSUME NEW op
       PROVE  /\ command.op = op => Asked(op)' = Asked(op) \cup {new}
              /\ command.op # op => Asked(op)' = Asked(op)
              /\ new \notin Asked(op)
  <2>1. \A p \in Served : OpOf[sent'[p[1]][p[2]]] = OpOf[sent[p[1]][p[2]]]
    BY <1>7, <1>11 DEF Settles
  <2> HIDE DEF OpOf
  <2>2. Asked(op)' = {p \in Served \cup {new} : OpOf[sent'[p[1]][p[2]]] = op}
    BY <1>10 DEF Asked
  <2> QED BY <1>9, <1>12, <2>1, <2>2 DEF Asked
<1>14. ASSUME NEW op, NEW type
       PROVE  /\ command.op = op /\ response.type = type =>
                   Answered(op, type)' = Answered(op, type) \cup {new}
              /\ ~(command.op = op /\ response.type = type) =>
                   Answered(op, type)' = Answered(op, type)
              /\ new \notin Answered(op, type)
  <2>1. \A p \in Asked(op) : Executed(p[1])'[p[2]] = Executed(p[1])[p[2]]
    BY <1>7, <1>11 DEF Asked, Settles
  <2>2. Executed(new[1])'[new[2]] = response
    BY <1>6, <1>9
  <2>3. Answered(op, type)' = {p \in Asked(op)' : Executed(p[1])'[p[2]].type = type}
    BY DEF Answered
  <2> QED BY <1>13, <2>1, <2>2, <2>3 DEF Answered
<1>15. Delivered' = Delivered
  <2>1. ~(new[2] <= Len(out[new[1]]))
    BY <1>1, <1>5, <1>9, LenProperties
  <2> QED BY <1>2, <1>10, <2>1 DEF Delivered
<1>16. /\ Cardinality(Served') = Cardinality(Served) + 1
       /\ \A op : Cardinality(Asked(op)') =
            IF command.op = op THEN Cardinality(Asked(op)) + 1 ELSE Cardinality(Asked(op))
       /\ \A op, type : Cardinality(Answered(op, type)') =
            IF command.op = op /\ response.type = type
            THEN Cardinality(Answered(op, type)) + 1 ELSE Cardinality(Answered(op, type))
  <2>1. Cardinality(Served') = Cardinality(Served) + 1
    BY <1>9, <1>10, CountedFinite, FS_AddElement
  <2>2. ASSUME NEW op
        PROVE  Cardinality(Asked(op)') =
            IF command.op = op THEN Cardinality(Asked(op)) + 1 ELSE Cardinality(Asked(op))
    BY <1>13, CountedFinite, FS_AddElement
  <2>3. ASSUME NEW op, NEW type
        PROVE  Cardinality(Answered(op, type)') =
            IF command.op = op /\ response.type = type
            THEN Cardinality(Answered(op, type)) + 1 ELSE Cardinality(Answered(op, type))
    <3>1. CASE command.op = op /\ response.type = type
      BY <1>14, <3>1, CountedFinite, FS_AddElement
    <3>2. CASE ~(command.op = op /\ response.type = type)
      BY <1>14, <3>2
    <3> QED BY <3>1, <3>2
  <2> QED BY <2>1, <2>2, <2>3
<1>17. \A n \in Tracked : metrics'[n] = IF n \in Tally(command, response)
                                        THEN metrics[n] + 1 ELSE metrics[n]
  BY <1>2 DEF Count, Tracked, CounterNames
<1>18. /\ metrics'["requests_received"] = metrics["requests_received"] + 1
       /\ metrics'["command_parse_errors"] =
            IF command.op = "Reject" THEN metrics["command_parse_errors"] + 1
            ELSE metrics["command_parse_errors"]
       /\ metrics'["cache_hits"] =
            IF command.op = "GET" /\ response.type = "Bulk"
            THEN metrics["cache_hits"] + 1 ELSE metrics["cache_hits"]
       /\ metrics'["cache_misses"] =
            IF command.op = "GET" /\ response.type = "Null"
            THEN metrics["cache_misses"] + 1 ELSE metrics["cache_misses"]
       /\ metrics'["command_responses_written"] = metrics["command_responses_written"]
  BY <1>17 DEF Tracked, Tally
<1>19. /\ metrics'["requests_received"] = Cardinality(Served')
       /\ metrics'["command_parse_errors"] = Cardinality(Asked("Reject")')
  BY <1>16, <1>18 DEF MetricsMatchTraffic
<1>20. metrics'["cache_hits"] = Cardinality(Answered("GET", "Bulk")')
  BY <1>16, <1>18 DEF MetricsMatchTraffic
<1>21. metrics'["cache_misses"] = Cardinality(Answered("GET", "Null")')
  BY <1>16, <1>18 DEF MetricsMatchTraffic
<1>22. metrics'["command_responses_written"] = Cardinality(Delivered')
  BY <1>15, <1>18 DEF MetricsMatchTraffic, Delivered
<1> QED BY <1>19, <1>20, <1>21, <1>22 DEF MetricsMatchTraffic, Delivered

\* An answer that is written is counted once, and it is the last request's.
LEMMA RespondCounted ==
  ASSUME HandlerTypeOK, WithinBound, MetricsMatchTraffic,
         NEW c \in Conns, Respond(c), Progressed(c)
  PROVE  MetricsMatchTraffic'
<1>1. UNCHANGED <<sent, parsed>> /\ Count({"command_responses_written"})
  BY RespondSettles DEF Respond
<1>2. \A d \in Conns \ {c} : Idle(d)
  BY RespondSettles
<1>3. PICK k \in Nat : k = parsed[c]
  BY DEF HandlerTypeOK
<1>4. Len(out[c]) \in Nat /\ Len(out[c]) + 1 = k /\ Len(out'[c]) = k
  BY <1>3, Replies, RespondSettles
<1>6. \A d \in Conns : Settles(d) /\ parsed'[d] = parsed[d]
  BY <1>1, RespondSettles
<1>7. /\ Served' = Served
      /\ \A op : Asked(op)' = Asked(op)
      /\ \A op, type : Answered(op, type)' = Answered(op, type)
  BY <1>6, Uncounted
<1>8. PICK new : new = <<c, k>>
  OBVIOUS
<1>9. k \in 1..MaxInputs
  <2>1. Len(sent[c]) \in Nat /\ Len(sent[c]) <= MaxInputs /\ k <= Len(sent[c])
    BY <1>3, LenProperties DEF HandlerTypeOK, WithinBound, Progressed
  <2> QED BY <1>4, <2>1, HandlerAssumption
<1>10. new \in Served /\ new \notin Delivered /\ new[1] = c /\ new[2] = k
  BY <1>3, <1>4, <1>8, <1>9 DEF Served, Pairs, Delivered
<1>11. Delivered' = Delivered \cup {new}
  <2>1. ASSUME NEW p \in Served
        PROVE  p[2] <= Len(out'[p[1]]) <=> (p[2] <= Len(out[p[1]]) \/ p = new)
    <3>1. p = <<p[1], p[2]>> /\ p[1] \in Conns /\ p[2] \in 1..parsed[p[1]]
      BY DEF Served, Pairs
    <3>2. CASE p[1] = c
      BY <1>3, <1>4, <1>8, <3>1, <3>2
    <3>3. CASE p[1] # c
      <4>1. Len(out'[p[1]]) = Len(out[p[1]])
        BY <1>2, <3>1, <3>3, IdleSettles
      <4> QED BY <1>10, <3>3, <4>1
    <3> QED BY <3>2, <3>3
  <2> QED BY <1>7, <1>10, <2>1 DEF Delivered
<1>12. Cardinality(Delivered') = Cardinality(Delivered) + 1
  BY <1>10, <1>11, CountedFinite, FS_AddElement
<1>13. /\ \A n \in Tracked \ {"command_responses_written"} : metrics'[n] = metrics[n]
       /\ metrics'["command_responses_written"] = metrics["command_responses_written"] + 1
  BY <1>1 DEF Count, Tracked, CounterNames
<1>14. /\ metrics'["requests_received"] = Cardinality(Served')
       /\ metrics'["command_parse_errors"] = Cardinality(Asked("Reject")')
       /\ metrics'["cache_hits"] = Cardinality(Answered("GET", "Bulk")')
       /\ metrics'["cache_misses"] = Cardinality(Answered("GET", "Null")')
  BY <1>7, <1>13 DEF MetricsMatchTraffic, Tracked
<1>15. metrics'["command_responses_written"] = Cardinality(Delivered')
  BY <1>12, <1>13 DEF MetricsMatchTraffic, Delivered
<1> QED BY <1>14, <1>15 DEF MetricsMatchTraffic, Delivered

\* A reply added at the end leaves the earlier ones in place.
LEMMA Longer ==
  ASSUME NEW s \in Seq(Reply), NEW t \in Seq(Reply)
  PROVE  /\ Len(s \o t) = Len(s) + Len(t)
         /\ \A n \in 1..Len(s) : (s \o t)[n] = s[n]
<1>1. Len(s) \in Nat /\ Len(t) \in Nat
  BY LenProperties
<1>2. Len(s \o t) = Len(s) + Len(t)
  BY ONLY s \in Seq(Reply), t \in Seq(Reply), ConcatProperties
<1>3. ASSUME NEW n \in 1..Len(s)
      PROVE  (s \o t)[n] = s[n]
  BY ONLY <1>1, <1>3, s \in Seq(Reply), t \in Seq(Reply), ConcatProperties
<1> QED BY <1>2, <1>3

\* A task that serves no request leaves what was served before, and what is on
\* its way of it, as it is.
LEMMA TaskSettles ==
  ASSUME HandlerTypeOK, NEW c \in Conns, Progressed(c),
         Progress(c) \/ ReadTimeout(c), ~Serve(c), ~Respond(c)
  PROVE  /\ store' = store
         /\ \A d \in Conns : Settles(d) /\ parsed'[d] = parsed[d]
         /\ \A d \in Conns : \A n \in 1..parsed[d] : n <= Len(out'[d]) <=> n <= Len(out[d])
<1>1. \A d \in Conns \ {c} : Idle(d)
  BY TaskAlone
<1>2. store' = store
  BY DEF Progress, Ending, Start, NodelayFails, WriteFails, ReadFails, Report, EndOfInput,
         ReadTimeout, ShutdownSelected, DropHandler, DropPermit
<1>3. UNCHANGED <<sent, parsed>>
  BY DEF Progress, Ending, Start, NodelayFails, WriteFails, ReadFails, Report, EndOfInput,
         ReadTimeout, ShutdownSelected, DropHandler, DropPermit, client, input
<1>4. /\ \A n \in 1..parsed[c] : Executed(c)'[n] = Executed(c)[n]
      /\ \A n \in 1..parsed[c] : n <= Len(out'[c]) <=> n <= Len(out[c])
  <2>0. stage \in [Conns -> Stages] /\ parsed[c] \in Nat
    BY DEF HandlerTypeOK
  <2>1. CASE Start(c) \/ NodelayFails(c) \/ WriteFails(c) \/ EndOfInput(c) \/ ReadTimeout(c)
             \/ ShutdownSelected(c) \/ DropHandler(c) \/ DropPermit(c)
    <3>1. UNCHANGED <<reply, out>> /\ stage[c] # "reporting" /\ stage'[c] # "reporting"
      BY <2>0, <2>1 DEF Start, NodelayFails, WriteFails, EndOfInput, ReadTimeout,
           ShutdownSelected, DropHandler, DropPermit, MoveTo, output
    <3> QED BY <3>1 DEF Executed
  <2>2. CASE ReadFails(c)
    <3>1. stage[c] = "reading" /\ stage'[c] = "reporting" /\ out' = out
      BY <2>0, <2>2 DEF ReadFails, MoveTo
    <3>2. Executed(c)' = Executed(c)
      BY <3>1, Replies DEF Executed, Progressed
    <3> QED BY <3>1, <3>2
  <2>3. CASE Report(c)
    <3>1. /\ stage[c] = "reporting" /\ stage'[c] = "unguarded" /\ reply'[c] = <<>>
          /\ out'[c] = out[c] \/ out'[c] = out[c] \o reply[c]
      BY <2>0, <2>3 DEF Report, MoveTo, HandlerTypeOK
    <3>2. Executed(c) = out[c] /\ Executed(c)' = out'[c] /\ Len(out[c]) = parsed[c]
      BY <3>1, Replies DEF Executed, Progressed
    <3>3. CASE out'[c] = out[c]
      BY <3>2, <3>3
    <3>4. CASE out'[c] = out[c] \o reply[c]
      <4>0. /\ out[c] \in Seq(Reply) /\ reply[c] \in Seq(Reply)
            /\ Len(out[c]) \in Nat /\ Len(reply[c]) \in Nat
        BY Replies
      <4>1. /\ Len(out'[c]) = Len(out[c]) + Len(reply[c])
            /\ \A n \in 1..Len(out[c]) : out'[c][n] = out[c][n]
        <5>1. /\ Len(out[c] \o reply[c]) = Len(out[c]) + Len(reply[c])
              /\ \A n \in 1..Len(out[c]) : (out[c] \o reply[c])[n] = out[c][n]
          BY ONLY <4>0, Longer
        <5> QED BY <3>4, <5>1, Zenon
      <4>2. \A n \in 1..parsed[c] : n <= Len(out'[c]) /\ n <= Len(out[c])
        BY <2>0, <3>2, <4>0, <4>1
      <4> QED BY <3>2, <4>0, <4>1, <4>2
    <3> QED BY <3>1, <3>3, <3>4
  <2> QED BY <2>1, <2>2, <2>3 DEF Progress, Ending
<1>5. \A d \in Conns : Settles(d) /\ parsed'[d] = parsed[d]
  BY <1>1, <1>3, <1>4, IdleSettles DEF Settles
<1>6. \A d \in Conns : \A n \in 1..parsed[d] : n <= Len(out'[d]) <=> n <= Len(out[d])
  BY <1>1, <1>4, IdleSettles
<1> QED BY <1>2, <1>5, <1>6

\* The other steps of a task count only guards.
LEMMA TaskUncounted ==
  ASSUME HandlerTypeOK, MetricsMatchTraffic, NEW c \in Conns, Progressed(c),
         Progress(c) \/ ReadTimeout(c), ~Serve(c), ~Respond(c)
  PROVE  MetricsMatchTraffic'
<1>1. \A n \in Tracked : metrics'[n] = metrics[n]
  <2>1. CASE Start(c)
    BY <2>1 DEF Start, Count, Tracked, CounterNames
  <2>2. CASE DropGuard
    BY <2>2 DEF DropGuard, Tracked, CounterNames, HandlerTypeOK
  <2>3. CASE NodelayFails(c) \/ ReadFails(c) \/ DropHandler(c) \/ DropPermit(c)
    BY <2>3 DEF NodelayFails, ReadFails, DropHandler, DropPermit
  <2>4. CASE WriteFails(c) \/ Report(c) \/ EndOfInput(c) \/ ReadTimeout(c) \/ ShutdownSelected(c)
    BY <2>2, <2>4 DEF WriteFails, Report, EndOfInput, ReadTimeout, ShutdownSelected
  <2> QED BY <2>1, <2>3, <2>4 DEF Progress, Ending
<1> QED BY <1>1, TaskSettles, AccountKept

\* Clients, main and the accept loop neither serve nor answer.
LEMMA OthersSettle ==
  ASSUME HandlerTypeOK, AllProgressed,
         UNCHANGED <<parsed, reply, out>>,
         \A d \in Conns : stage'[d] = "reporting" <=> stage[d] = "reporting",
         \A d \in Conns : \A n \in 1..Len(sent[d]) : sent'[d][n] = sent[d][n]
  PROVE  \A d \in Conns : Settles(d)
<1>1. \A d \in Conns : Executed(d)' = Executed(d)
  BY DEF Executed
<1>2. ASSUME NEW d \in Conns
      PROVE  Settles(d)
  <2>1. parsed[d] \in Nat /\ Len(sent[d]) \in Nat /\ parsed[d] <= Len(sent[d])
    BY LenProperties DEF HandlerTypeOK, AllProgressed, Progressed
  <2>2. \A n \in 1..parsed[d] : n \in 1..Len(sent[d])
    BY <2>1
  <2> QED BY <1>1, <2>2 DEF Settles
<1> QED BY <1>2

\* So they count nothing of it.
LEMMA OthersUncounted ==
  ASSUME HandlerTypeOK, MetricsMatchTraffic, AllProgressed,
         UNCHANGED <<parsed, reply, out>>,
         \A d \in Conns : stage'[d] = "reporting" <=> stage[d] = "reporting",
         \A d \in Conns : \A n \in 1..Len(sent[d]) : sent'[d][n] = sent[d][n],
         \A n \in Tracked : metrics'[n] = metrics[n]
  PROVE  MetricsMatchTraffic'
<1>1. \A d \in Conns : Settles(d)
  BY OthersSettle
<1> QED BY <1>1, AccountKept

\* What a client has written stays.
LEMMA InputsStay ==
  ASSUME HandlerTypeOK, NEW c \in Conns, Client(c), NEW d \in Conns
  PROVE  /\ \A n \in 1..Len(sent[d]) : sent'[d][n] = sent[d][n]
         /\ \/ sent'[d] = sent[d]
            \/ Len(sent[d]) < MaxInputs /\ Len(sent'[d]) = Len(sent[d]) + 1
<1>1. sent[d] \in Seq(Inputs)
  BY DEF HandlerTypeOK
<1>2. CASE Send(c)
  <2>1. PICK m \in Inputs : sent' = [sent EXCEPT ![c] = Append(@, m)]
    BY <1>2 DEF Send
  <2>2. \/ sent'[d] = sent[d]
        \/ sent'[d] = Append(sent[d], m) /\ Len(sent[d]) < MaxInputs
    BY <1>2, <2>1 DEF Send, HandlerTypeOK
  <2> QED BY <1>1, <2>2, AppendProperties
<1>3. CASE CloseSend(c) \/ Reset(c) \/ ReadReply(c)
  BY <1>3 DEF CloseSend, Reset, ReadReply
<1> QED BY <1>2, <1>3 DEF Client

\* A client's step.
LEMMA ClientUncounted ==
  ASSUME HandlerTypeOK, WithinBound, MetricsMatchTraffic, AllProgressed,
         NEW c \in Conns, Client(c)
  PROVE  WithinBound' /\ MetricsMatchTraffic'
<1>1. UNCHANGED <<stage, metrics, parsed, reply, out>>
  BY DEF Client, Send, CloseSend, Reset, ReadReply, input, output
<1>2. WithinBound'
  <2>1. \A d \in Conns : Len(sent[d]) \in Nat
    BY LenProperties DEF HandlerTypeOK
  <2> QED BY <2>1, InputsStay, HandlerAssumption DEF WithinBound
<1> QED BY <1>1, <1>2, InputsStay, OthersUncounted

\* The steps of main and of the accept loop, and new connections.
LEMMA LoopUncounted ==
  ASSUME AcceptorTypeOK, BacklogIsQueued, MetricsMatchTraffic, AllProgressed,
         \/ CtrlC \/ Shutdown \/ AcceptLoop \/ AcceptError
         \/ \E c \in Conns : Connect(c)
  PROVE  MetricsMatchTraffic'
<1>1. HandlerTypeOK /\ UNCHANGED <<sent, parsed, reply, out>>
  BY DEF CtrlC, Shutdown, Notify, ReleaseAcceptor, DropAcceptor, DetachSender,
         AwaitCompletion, AcceptLoop, LoopProgress, Subscribe, AcquirePermit, Accept,
         AcceptAborted, RetryAccept, AcceptError, AcceptFails, Connect, AcceptorTypeOK,
         handlerVars, client, input, output
<1>2. \A d \in Conns : stage'[d] = "reporting" <=> stage[d] = "reporting"
  BY LoopMoves
<1>3. \A n \in Tracked : metrics'[n] = metrics[n]
  <2>1. CASE AcceptAborted \/ AcceptError
    BY <2>1 DEF AcceptAborted, AcceptError, AcceptFails, Count, Tracked, CounterNames
  <2>2. CASE UNCHANGED metrics
    BY <2>2
  <2> QED BY <2>1, <2>2 DEF CtrlC, Shutdown, Notify, ReleaseAcceptor, DropAcceptor,
             DetachSender, AwaitCompletion, AcceptLoop, LoopProgress, Subscribe,
             AcquirePermit, Accept, RetryAccept, Connect, handlerVars
<1> QED BY <1>1, <1>2, <1>3, OthersUncounted

-----------------------------------------------------------------------------

\* A server that has seen no traffic has counted none.
LEMMA FreshAccount ==
  ASSUME Fresh
  PROVE  WithinBound /\ MetricsMatchTraffic
<1>1. Served = {} /\ Delivered = {}
  BY DEF Fresh, Served, Pairs, Delivered
<1>2. \A op : Asked(op) = {}
  BY <1>1 DEF Asked
<1>3. \A op, type : Answered(op, type) = {}
  BY <1>2 DEF Answered
<1>4. \A n \in Tracked : metrics[n] = 0
  BY DEF Fresh, Tracked, CounterNames
<1>5. MetricsMatchTraffic
  BY <1>1, <1>2, <1>3, <1>4, FS_EmptySet DEF MetricsMatchTraffic, Tracked, Delivered
<1>6. WithinBound
  BY EmptySeq, HandlerAssumption DEF Fresh, WithinBound
<1> QED BY <1>5, <1>6

\* The steps of tasks and clients.
LEMMA TasksAccount ==
  ASSUME HandlerTypeOK, WithinBound, MetricsMatchTraffic, AllProgressed, NEW c \in Conns,
         Progress(c) \/ ReadTimeout(c) \/ Client(c)
  PROVE  WithinBound' /\ MetricsMatchTraffic'
<1>1. CASE Client(c)
  BY <1>1, ClientUncounted
<1>2. CASE Progress(c) \/ ReadTimeout(c)
  <2>1. WithinBound'
    BY <1>2, TaskAlone DEF WithinBound
  <2>2. MetricsMatchTraffic'
    BY <1>2, ServeCounted, RespondCounted, TaskUncounted DEF AllProgressed
  <2> QED BY <2>1, <2>2
<1> QED BY <1>1, <1>2

\* The counters of metrics.rs account for the requests and answers of all
\* connections, in every state of the tasks ...
THEOREM TasksAreCounted == TasksSpec => []MetricsMatchTraffic
<1>1. TasksInit => WithinBound /\ MetricsMatchTraffic
  BY FreshAccount DEF TasksInit
<1>2. HandlerTypeOK /\ AllProgressed /\ WithinBound /\ MetricsMatchTraffic
        /\ [TasksNext]_handlerVars
        => WithinBound' /\ MetricsMatchTraffic'
  <2> SUFFICES ASSUME HandlerTypeOK, AllProgressed, WithinBound, MetricsMatchTraffic,
                      [TasksNext]_handlerVars
               PROVE  WithinBound' /\ MetricsMatchTraffic'
    OBVIOUS
  <2>1. CASE UNCHANGED handlerVars
    BY <2>1, OthersUncounted DEF handlerVars, client, input, output, WithinBound
  <2> QED BY <2>1, TasksAccount DEF TasksNext
<1>3. TasksSpec => []HandlerTypeOK /\ []AllProgressed
  BY TasksInvariant, TasksProgress, PTL
<1> QED BY <1>1, <1>2, <1>3, PTL DEF TasksSpec

\* The account of the server's requests, which its clients' bound keeps finite.
LEMMA ServerAccount == Spec => []WithinBound /\ []MetricsMatchTraffic
<1>1. Init => WithinBound /\ MetricsMatchTraffic
  BY FreshAccount DEF Init, AcceptorInit
<1>2. Layer1 /\ AllProgressed /\ WithinBound /\ MetricsMatchTraffic /\ [Next]_vars
        => WithinBound' /\ MetricsMatchTraffic'
  <2> SUFFICES ASSUME Layer1, AllProgressed, WithinBound, MetricsMatchTraffic, [Next]_vars
               PROVE  WithinBound' /\ MetricsMatchTraffic'
    OBVIOUS
  <2>0. AcceptorTypeOK /\ HandlerTypeOK /\ BacklogIsQueued
    BY DEF Layer1, TypeOK, AcceptorTypeOK
  <2>1. CASE UNCHANGED vars
    BY <2>0, <2>1, OthersUncounted DEF vars, handlerVars, client, input, output, WithinBound
  <2>2. CASE \/ CtrlC \/ Shutdown \/ AcceptLoop \/ AcceptError
             \/ \E c \in Conns : Connect(c)
    <3>1. sent' = sent
      BY <2>2 DEF CtrlC, Shutdown, Notify, ReleaseAcceptor, DropAcceptor, DetachSender,
         AwaitCompletion, AcceptLoop, LoopProgress, Subscribe, AcquirePermit, Accept,
         AcceptAborted, RetryAccept, AcceptError, AcceptFails, Connect,
         handlerVars, client
    <3> QED BY <2>0, <2>2, <3>1, LoopUncounted DEF WithinBound
  <2>3. ASSUME NEW c \in Conns, Task(c) \/ Timeout(c) \/ Peer(c)
        PROVE  WithinBound' /\ MetricsMatchTraffic'
    BY <2>0, <2>2, <2>3, TasksAccount DEF Task, Timeout, Peer
  <2> QED BY <2>1, <2>2, <2>3 DEF Next, Exited
<1>3. Spec => []Layer1 /\ []AllProgressed
  BY Layer1Invariant, ServerProgress, PTL
<1> QED BY <1>1, <1>2, <1>3, PTL DEF Spec

\* ... and of the server, so the final report is exact.
THEOREM ServerIsCounted == Spec => []MetricsMatchTraffic
BY ServerAccount, PTL

-----------------------------------------------------------------------------
(* Answers stay what they are                                              *)

\* What was served before, and what of it was written, stays; nothing is added
\* to what was served.
Rests(c) ==
  /\ Settles(c) /\ parsed'[c] = parsed[c]
  /\ \A n \in 1..parsed[c] : n <= Len(out[c]) => n <= Len(out'[c])

\* Whatever happens but a request being served leaves all answers as they are,
\* and adds none.
LEMMA NextSettles ==
  ASSUME Layer1, AllProgressed, [Next]_vars, \A c \in Conns : ~Serve(c)
  PROVE  store' = store /\ \A d \in Conns : Rests(d)
<1>0. AcceptorTypeOK /\ HandlerTypeOK /\ BacklogIsQueued
  BY DEF Layer1, TypeOK, AcceptorTypeOK
<1>1. ASSUME NEW c \in Conns, Progress(c) \/ ReadTimeout(c)
      PROVE  store' = store /\ \A d \in Conns : Rests(d)
  <2>1. CASE Respond(c)
    <3>1. \A d \in Conns : /\ Len(out[d]) \in Nat /\ parsed[d] \in Nat
                           /\ Len(out'[d]) = Len(out[d]) \/ Len(out'[d]) = parsed[d]
      BY <1>0, <2>1, RespondSettles, Replies DEF AllProgressed, Idle, HandlerTypeOK
    <3>2. store' = store /\ \A d \in Conns : Settles(d) /\ parsed'[d] = parsed[d]
      BY <1>0, <2>1, RespondSettles DEF AllProgressed
    <3>3. ASSUME NEW d \in Conns, NEW n \in 1..parsed[d], n <= Len(out[d])
          PROVE  n <= Len(out'[d])
      BY <3>1, <3>3
    <3> QED BY <3>2, <3>3 DEF Rests
  <2>2. CASE ~Respond(c)
    BY <1>0, <1>1, <2>2, TaskSettles DEF AllProgressed, Rests
  <2> QED BY <2>1, <2>2
<1>2. ASSUME UNCHANGED <<store, parsed, reply, out>>,
             \A d \in Conns : stage'[d] = "reporting" <=> stage[d] = "reporting",
             \A d \in Conns : \A n \in 1..Len(sent[d]) : sent'[d][n] = sent[d][n]
      PROVE  store' = store /\ \A d \in Conns : Rests(d)
  BY <1>0, <1>2, OthersSettle DEF Rests
<1>3. ASSUME NEW c \in Conns, Client(c)
      PROVE  store' = store /\ \A d \in Conns : Rests(d)
  <2>1. UNCHANGED <<store, stage, parsed, reply, out>>
    BY <1>3 DEF Client, Send, CloseSend, Reset, ReadReply, input, output
  <2>2. \A d \in Conns : \A n \in 1..Len(sent[d]) : sent'[d][n] = sent[d][n]
    BY <1>0, <1>3, InputsStay
  <2> QED BY <1>2, <2>1, <2>2
<1>4. CASE \/ CtrlC \/ Shutdown \/ AcceptLoop \/ AcceptError
           \/ \E c \in Conns : Connect(c)
  <2>1. UNCHANGED <<store, sent, parsed, reply, out>>
    BY <1>4 DEF CtrlC, Shutdown, Notify, ReleaseAcceptor, DropAcceptor, DetachSender,
         AwaitCompletion, AcceptLoop, LoopProgress, Subscribe, AcquirePermit, Accept,
         AcceptAborted, RetryAccept, AcceptError, AcceptFails, Connect,
         handlerVars, client, input, output
  <2>2. \A d \in Conns : stage'[d] = "reporting" <=> stage[d] = "reporting"
    BY <1>0, <1>4, LoopMoves
  <2> QED BY <1>2, <2>1, <2>2
<1>5. CASE UNCHANGED vars
  BY <1>2, <1>5 DEF vars, handlerVars, client, input, output
<1> QED BY <1>1, <1>3, <1>4, <1>5 DEF Next, Task, Timeout, Peer, Exited
=============================================================================
