------------------------- MODULE RequesterTheorems -------------------------
(***************************************************************************)
(* Callers and server together, for any users, calls and connections: the  *)
(* server behaves as on its own, so what is proved of it still holds; a    *)
(* requester that may be used again is on a clean connection; together     *)
(* they implement a map with atomic calls; and the counters account for    *)
(* the calls.                                                              *)
(***************************************************************************)
EXTENDS Requester, ServerTheorems

-----------------------------------------------------------------------------
(* The callers are clients of the server                                   *)

\* Who has a requester has a connection.
ConnType ==
  /\ conn \in [Users -> Conns \cup {NoConn}]
  /\ phase \in [Users -> Phases]
  /\ \A u \in Users : conn[u] = NoConn <=> phase[u] = "away"

\* The requester of a user that is not away has a connection.
LEMMA HasConn ==
  ASSUME ConnType, NEW u \in Users, phase[u] # "away"
  PROVE  conn[u] \in Conns
BY DEF ConnType

\* A phase that changes while the connection stays.
LEMMA GoType ==
  ASSUME ConnType, NEW u \in Users,
         NEW from \in Phases \ {"away"}, NEW to \in Phases \ {"away"},
         Go(u, from, to), conn' = conn
  PROVE  ConnType'
BY DEF ConnType, Go

\* A requester is made with a connection, keeps it, and is dropped with it.
LEMMA ConnTypeStep ==
  ASSUME ConnType, [CallNext]_callVars
  PROVE  ConnType'
<1>1. CASE UNCHANGED <<conn, phase>>
  BY <1>1 DEF ConnType
<1>2. ASSUME NEW u \in Users, NEW c \in Conns, Open(u, c)
      PROVE  ConnType'
  BY <1>2, RequesterAssumption DEF Open, Go, ConnType, Phases
<1>3. ASSUME NEW u \in Users, Drop(u)
      PROVE  ConnType'
  BY <1>3 DEF Drop, ConnType, Phases
<1>4. ASSUME NEW u \in Users,
             \/ Call(u) \/ WriteRequest(u) \/ WriteInVain(u) \/ WriteError(u)
             \/ ReadResponse(u) \/ ReadError(u) \/ GiveUpWriting(u) \/ GiveUpReading(u)
      PROVE  ConnType'
  <2>1. PICK from \in Phases \ {"away"}, to \in Phases \ {"away"} : Go(u, from, to)
    BY <1>4 DEF Call, WriteRequest, WriteInVain, WriteError, ReadResponse, ReadError,
                GiveUpWriting, GiveUpReading, Phases
  <2>2. conn' = conn
    BY <1>4 DEF Call, WriteRequest, WriteInVain, WriteError, ReadResponse, ReadError,
                GiveUpWriting, GiveUpReading
  <2> QED BY <2>1, <2>2, GoType
<1>5. ASSUME NEW u \in Users, Overrun(u)
      PROVE  UNCHANGED <<conn, phase>>
  BY <1>5 DEF Overrun
<1>6. ASSUME NEW c \in Conns, Break(c)
      PROVE  UNCHANGED <<conn, phase>>
  BY <1>6 DEF Break, users
<1>7. ASSUME UNCHANGED users \/ UNCHANGED callVars
      PROVE  UNCHANGED <<conn, phase>>
  BY <1>7 DEF users, callVars
<1> QED
  BY <1>1, <1>2, <1>3, <1>4, <1>5, <1>6, <1>7 DEF CallNext, User, Exchange

\* Whatever the callers do is something the server's clients may do.
LEMMA StepOfServer ==
  ASSUME ConnType, [CallNext]_callVars
  PROVE  [Next]_vars
<1>1. CASE ServerStep
  BY <1>1 DEF ServerStep, Next
<1>2. ASSUME NEW c \in Conns, Client(c), OnWire
      PROVE  Next
  BY <1>2 DEF OnWire, Next, Peer
<1>3. ASSUME NEW c \in Conns, Break(c)
      PROVE  Next
  BY <1>2, <1>3 DEF Break, Client
<1>4. ASSUME NEW u \in Users, User(u)
      PROVE  [Next]_vars
  <2>1. ASSUME NEW c \in Conns, Open(u, c)
        PROVE  Next
    BY <2>1 DEF Open, Next, Peer
  <2>2. ASSUME NEW m, Put(u, m), OnWire, phase[u] # "away"
        PROVE  Next
    BY <1>2, <2>2, HasConn DEF Put, Client
  <2>3. CASE Overrun(u)
    BY <2>2, <2>3 DEF Overrun
  <2>4. CASE WriteRequest(u)
    BY <2>2, <2>4 DEF WriteRequest, Go
  <2>5. CASE ReadResponse(u)
    <3>1. conn[u] \in Conns
      BY <2>5, HasConn DEF ReadResponse, Go
    <3> QED BY <1>2, <2>5, <3>1 DEF ReadResponse, Client
  <2>6. CASE GiveUpWriting(u)
    BY <2>2, <2>6 DEF GiveUpWriting, Go
  <2>7. CASE Drop(u)
    <3>1. conn[u] \in Conns /\ OnWire
      BY <2>7, HasConn DEF Drop
    <3>2. CASE CloseSend(conn[u]) \/ Reset(conn[u])
      BY <1>2, <3>1, <3>2 DEF Client
    <3>3. CASE UNCHANGED handlerVars
      BY <3>1, <3>3 DEF OnWire, vars
    <3> QED BY <2>7, <3>2, <3>3 DEF Drop
  <2>8. CASE \/ Call(u) \/ WriteInVain(u) \/ WriteError(u) \/ ReadError(u)
             \/ GiveUpReading(u)
    BY <2>8 DEF Call, WriteInVain, WriteError, ReadError, GiveUpReading
  <2> QED BY <1>4, <2>1, <2>3, <2>4, <2>5, <2>6, <2>7, <2>8 DEF User, Exchange
<1>5. CASE UNCHANGED callVars
  BY <1>5 DEF callVars
<1> QED BY <1>1, <1>3, <1>4, <1>5 DEF CallNext

\* The server cannot tell the callers from other clients: all that is proved of
\* Server holds with them.
THEOREM CallersAreClients == CallSpec => Spec /\ []ConnType
<1>1. CallInit => Init /\ ConnType
  BY DEF CallInit, ConnType, Phases
<1>2. ConnType /\ [CallNext]_callVars => ConnType' /\ [Next]_vars
  BY ConnTypeStep, StepOfServer
<1> QED BY <1>1, <1>2, PTL DEF CallSpec, Spec

-----------------------------------------------------------------------------
(* What the server does to a connection                                    *)

\* The server will never write on this connection again, or nobody reads it.
Dead(c) == peer[c] = "gone" \/ stage[c] \in {"unguarded", "released", "ended"}

Same(c) ==
  /\ stage'[c] = stage[c]
  /\ parsed'[c] = parsed[c]
  /\ out'[c] = out[c]
  /\ reply'[c] = reply[c]

\* The connection is over, waits or is read, is served, or is answered.
Moved(c) ==
  /\ stage[c] # "away"
  /\ \/ /\ stage'[c] \in {"unguarded", "released", "ended"}
        /\ parsed'[c] = parsed[c]
        /\ \/ out'[c] = out[c]
           \/ stage[c] = "reporting" /\ CanSend(c) /\ out'[c] = out[c] \o reply[c]
     \/ /\ stage[c] \in {"queued", "spawned", "reading"}
        /\ stage'[c] \in {"spawned", "reading", "reporting"}
        /\ parsed'[c] = parsed[c]
        /\ out'[c] = out[c]
     \/ /\ stage[c] = "reading" /\ stage'[c] = "writing"
        /\ HeadIs(c, Inputs \ {Malformed, Partial})
        /\ parsed'[c] = parsed[c] + 1
        /\ out'[c] = out[c]
        /\ Len(reply'[c]) = 1
     \/ /\ stage[c] = "writing" /\ stage'[c] = "reading"
        /\ parsed'[c] = parsed[c]
        /\ out'[c] = out[c] \o reply[c]
  /\ stage[c] \in {"unguarded", "released", "ended"} =>
       stage'[c] \in {"unguarded", "released", "ended"}

\* A task's step, on its own connection and on the others.
LEMMA TaskEffect ==
  ASSUME HandlerTypeOK, NEW c \in Conns, Progress(c) \/ ReadTimeout(c)
  PROVE  UNCHANGED client /\ Moved(c) /\ \A d \in Conns \ {c} : Same(d)
<1> USE DEF HandlerTypeOK, MoveTo, Moved, Same, client, input, output
<1>1. CASE Start(c)
  BY <1>1 DEF Start
<1>2. CASE NodelayFails(c)
  BY <1>2 DEF NodelayFails
<1>3. CASE Serve(c)
  <2>1. PICK response : reply' = [reply EXCEPT ![c] = <<response>>]
    BY <1>3 DEF Serve
  <2>2. reply'[c] = <<response>>
    BY <2>1
  <2> QED BY <1>3, <2>1, <2>2 DEF Serve
<1>4. CASE Respond(c)
  BY <1>4 DEF Respond
<1>5. CASE WriteFails(c)
  BY <1>5 DEF WriteFails
<1>6. CASE ReadFails(c)
  BY <1>6 DEF ReadFails
<1>7. CASE Report(c)
  BY <1>7 DEF Report
<1>8. CASE EndOfInput(c)
  BY <1>8 DEF EndOfInput
<1>9. CASE ReadTimeout(c)
  BY <1>9 DEF ReadTimeout
<1>10. CASE ShutdownSelected(c)
  BY <1>10 DEF ShutdownSelected
<1>11. CASE DropHandler(c)
  BY <1>11 DEF DropHandler
<1>12. CASE DropPermit(c)
  BY <1>12 DEF DropPermit
<1> QED
  BY <1>1, <1>2, <1>3, <1>4, <1>5, <1>6, <1>7, <1>8, <1>9, <1>10, <1>11, <1>12
  DEF Progress, Ending

\* A step of main or of the accept loop only moves connections that wait.
LEMMA LoopEffect ==
  ASSUME AcceptorTypeOK, BacklogIsQueued, NEW d \in Conns,
         CtrlC \/ Shutdown \/ AcceptLoop \/ AcceptError \/ Exited
  PROVE  UNCHANGED client /\ (Same(d) \/ Moved(d))
<1> USE DEF AcceptorTypeOK, HandlerTypeOK, Same, Moved, client, input, output
<1>1. CASE CtrlC
  BY <1>1 DEF CtrlC
<1>2. CASE Notify \/ DetachSender \/ AwaitCompletion
  BY <1>2 DEF Notify, DetachSender, AwaitCompletion, handlerVars
<1>3. CASE ReleaseAcceptor
  BY <1>3 DEF ReleaseAcceptor, DropAcceptor
<1>4. CASE Accept \/ AcceptAborted
  <2>1. /\ Head(backlog) \in Conns /\ stage[Head(backlog)] = "queued"
        /\ UNCHANGED <<client, parsed, out, reply>>
    BY <1>4, BacklogHead DEF Accept, AcceptAborted
  <2>2. PICK to \in {"spawned", "ended"} :
          stage' = [stage EXCEPT ![Head(backlog)] = to]
    BY <1>4 DEF Accept, AcceptAborted
  <2> QED BY <2>1, <2>2
<1>5. CASE Subscribe \/ AcquirePermit \/ RetryAccept \/ AcceptFails
  BY <1>5 DEF Subscribe, AcquirePermit, RetryAccept, AcceptFails, handlerVars
<1>6. CASE Exited
  BY <1>6 DEF Exited, vars, handlerVars
<1> QED
  BY <1>1, <1>2, <1>3, <1>4, <1>5, <1>6
  DEF Shutdown, AcceptLoop, AcceptError, LoopProgress

\* A step of the server, seen from one connection.
LEMMA ServerEffect ==
  ASSUME AcceptorTypeOK, BacklogIsQueued, ServerStep, NEW d \in Conns
  PROVE  UNCHANGED client /\ (Same(d) \/ Moved(d))
<1>1. ASSUME NEW c \in Conns, Task(c) \/ Timeout(c)
      PROVE  UNCHANGED client /\ (Same(d) \/ Moved(d))
  BY <1>1, TaskEffect DEF Task, Timeout, AcceptorTypeOK
<1> QED BY <1>1, LoopEffect DEF ServerStep

\* Nothing is on a connection before it is made, and what is being written is
\* one response.
ConnState(c) ==
  /\ stage[c] = "away" =>
       sent[c] = <<>> /\ out[c] = <<>> /\ taken[c] = 0 /\ parsed[c] = 0
  /\ stage[c] = "writing" => Len(reply[c]) = 1

\* A client's step, seen from one connection.
LEMMA ClientEffect ==
  ASSUME HandlerTypeOK, NEW c \in Conns, Client(c), NEW d \in Conns
  PROVE  /\ Same(d)
         /\ \/ UNCHANGED <<sent[d], taken[d]>>
            \/ c = d /\ stage[d] # "away"
            \/ c = d /\ taken[d] < Len(out[d])
<1> USE DEF HandlerTypeOK, Same, Reachable, input, output
<1>1. CASE Send(c)
  BY <1>1 DEF Send
<1>2. CASE CloseSend(c)
  BY <1>2 DEF CloseSend
<1>3. CASE Reset(c)
  BY <1>3 DEF Reset
<1>4. CASE ReadReply(c)
  BY <1>4 DEF ReadReply
<1> QED BY <1>1, <1>2, <1>3, <1>4 DEF Client

\* The state of every connection, as long as the server runs.
THEOREM ConnStates == Spec => [](\A c \in Conns : ConnState(c))
<1>1. Init => \A c \in Conns : ConnState(c)
  BY DEF Init, AcceptorInit, Fresh, ConnState
<1>2. ASSUME Layer1, [Next]_vars, NEW d \in Conns, ConnState(d)
      PROVE  ConnState(d)'
  <2>0. AcceptorTypeOK /\ HandlerTypeOK /\ BacklogIsQueued
    BY <1>2 DEF Layer1, TypeOK, AcceptorTypeOK
  <2>1. CASE ServerStep
    <3>1. UNCHANGED <<sent, taken>> /\ (Same(d) \/ Moved(d))
      BY <2>0, <2>1, ServerEffect DEF client
    <3>2. CASE Same(d)
      BY <1>2, <3>1, <3>2 DEF Same, ConnState
    <3>3. CASE Moved(d)
      BY <1>2, <3>1, <3>3 DEF Moved, ConnState
    <3> QED BY <3>1, <3>2, <3>3
  <2>2. ASSUME NEW c \in Conns, Client(c)
        PROVE  ConnState(d)'
    <3>1. /\ Same(d)
          /\ \/ UNCHANGED <<sent[d], taken[d]>>
             \/ stage[d] # "away"
             \/ taken[d] < Len(out[d])
      BY <2>0, <2>2, ClientEffect
    <3>2. out[d] = <<>> /\ taken[d] = 0 => ~(taken[d] < Len(out[d]))
      OBVIOUS
    <3> QED BY <1>2, <3>1, <3>2 DEF Same, ConnState
  <2>3. ASSUME NEW c \in Conns, Connect(c)
        PROVE  ConnState(d)'
    <3>1. UNCHANGED <<sent, taken, parsed, out, reply>>
      BY <2>3 DEF Connect, client, input, output
    <3>2. stage'[d] = stage[d] \/ stage'[d] = "queued"
      BY <2>0, <2>3 DEF Connect, MoveTo, HandlerTypeOK
    <3> QED BY <1>2, <3>1, <3>2 DEF ConnState
  <2>4. CASE UNCHANGED vars
    BY <1>2, <2>4 DEF vars, handlerVars, client, input, output, ConnState
  <2> QED BY <1>2, <2>1, <2>2, <2>3, <2>4 DEF Next, ServerStep, Peer
<1>3. Layer1 /\ [Next]_vars /\ (\A c \in Conns : ConnState(c))
        => (\A c \in Conns : ConnState(c))'
  BY <1>2
<1> QED BY <1>1, <1>3, Layer1Invariant, PTL DEF Spec

-----------------------------------------------------------------------------
(* What is recorded of the calls                                           *)

\* A record that grows at its end.
LEMMA Recorded ==
  ASSUME NEW S, NEW f \in [Users -> Seq(S)], NEW u \in Users, NEW x \in S,
         NEW g, g = [f EXCEPT ![u] = Append(@, x)]
  PROVE  /\ g \in [Users -> Seq(S)]
         /\ Len(g[u]) = Len(f[u]) + 1 /\ g[u][Len(g[u])] = x
         /\ \A j \in 1..Len(f[u]) : g[u][j] = f[u][j]
         /\ \A v \in Users \ {u} : g[v] = f[v]
<1>1. f[u] \in Seq(S)
  OBVIOUS
<1>2. /\ Append(f[u], x) \in Seq(S) /\ Len(Append(f[u], x)) = Len(f[u]) + 1
      /\ Append(f[u], x)[Len(f[u]) + 1] = x
      /\ \A j \in 1..Len(f[u]) : Append(f[u], x)[j] = f[u][j]
  BY <1>1, AppendProperties
<1> QED BY <1>1, <1>2

\* A record whose entry is replaced.
LEMMA Revised ==
  ASSUME NEW S, NEW f \in [Users -> Seq(S)], NEW u \in Users, NEW i \in 1..Len(f[u]),
         NEW x \in S, NEW g, g = [f EXCEPT ![u][i] = x]
  PROVE  /\ g \in [Users -> Seq(S)]
         /\ Len(g[u]) = Len(f[u]) /\ g[u][i] = x
         /\ \A j \in 1..Len(f[u]) \ {i} : g[u][j] = f[u][j]
         /\ \A v \in Users \ {u} : g[v] = f[v]
<1>1. f[u] \in Seq(S)
  OBVIOUS
<1>2. PICK t : t = [f[u] EXCEPT ![i] = x]
  OBVIOUS
<1>3. /\ t \in Seq(S) /\ Len(t) = Len(f[u]) /\ t[i] = x
      /\ \A j \in 1..Len(f[u]) \ {i} : t[j] = f[u][j]
  BY <1>1, <1>2, ExceptSeq
<1>4. g = [f EXCEPT ![u] = t]
  BY <1>2
<1> QED BY <1>3, <1>4

\* Every call has one result and one place, and a call that is under way is the
\* last one.
CallLog ==
  /\ calls \in [Users -> Seq(Calls)]
  /\ results \in [Users -> Seq(Reply \cup {Pending, Failed})]
  /\ places \in [Users -> Seq([conn : Conns, at : Nat])]
  /\ \A u \in Users : Len(results[u]) = Len(calls[u]) /\ Len(places[u]) = Len(calls[u])
  /\ \A u \in Users : phase[u] \in {"writing", "reading"} => Len(calls[u]) > 0

\* A call that is under way has a result and a place to revise.
LEMMA Underway ==
  ASSUME CallLog, NEW u \in Users, phase[u] \in {"writing", "reading"}
  PROVE  /\ Last(u) \in 1..Len(calls[u])
         /\ Last(u) \in 1..Len(results[u])
         /\ Last(u) \in 1..Len(places[u])
<1>1. calls[u] \in Seq(Calls)
  BY DEF CallLog
<1>2. Len(calls[u]) \in Nat
  BY <1>1, LenProperties
<1> QED BY <1>2 DEF CallLog, Last

\* A result that is returned.
LEMMA ReturnLog ==
  ASSUME CallLog, NEW u \in Users, phase[u] \in {"writing", "reading"},
         NEW result \in Reply \cup {Pending, Failed}, Return(u, result)
  PROVE  /\ results' \in [Users -> Seq(Reply \cup {Pending, Failed})]
         /\ \A v \in Users : Len(results'[v]) = Len(results[v])
         /\ results'[u][Last(u)] = result
         /\ \A j \in 1..Len(results[u]) \ {Last(u)} : results'[u][j] = results[u][j]
         /\ \A v \in Users \ {u} : results'[v] = results[v]
<1>1. Last(u) \in 1..Len(results[u])
  BY Underway
<1> QED BY <1>1, Revised DEF Return, CallLog

\* A request that is written.
LEMMA PutLog ==
  ASSUME CallLog, ConnType, HandlerTypeOK, HandlerTypeOK',
         NEW u \in Users, phase[u] \in {"writing", "reading"},
         NEW m, Put(u, m)
  PROVE  /\ places' \in [Users -> Seq([conn : Conns, at : Nat])]
         /\ Len(places'[u]) = Len(places[u])
         /\ places'[u][Last(u)].conn = conn[u]
         /\ places'[u][Last(u)].at = Len(sent'[conn[u]])
         /\ \A j \in 1..Len(places[u]) \ {Last(u)} : places'[u][j] = places[u][j]
         /\ \A v \in Users \ {u} : places'[v] = places[v]
<1>1. conn[u] \in Conns
  BY HasConn
<1>2. sent'[conn[u]] \in Seq(Inputs)
  BY <1>1 DEF HandlerTypeOK
<1>3. PICK place : place = [conn |-> conn[u], at |-> Len(sent'[conn[u]])]
  OBVIOUS
<1>4. /\ place \in [conn : Conns, at : Nat]
      /\ place.conn = conn[u] /\ place.at = Len(sent'[conn[u]])
  BY <1>1, <1>2, <1>3, LenProperties
<1>5. places' = [places EXCEPT ![u][Last(u)] = place]
  BY <1>3 DEF Put
<1>6. Last(u) \in 1..Len(places[u])
  BY Underway
<1>7. PICK Place : Place = [conn : Conns, at : Nat]
  OBVIOUS
<1>8. places \in [Users -> Seq(Place)] /\ place \in Place
  BY <1>4, <1>7 DEF CallLog
<1>9. /\ places' \in [Users -> Seq(Place)]
      /\ Len(places'[u]) = Len(places[u]) /\ places'[u][Last(u)] = place
      /\ \A j \in 1..Len(places[u]) \ {Last(u)} : places'[u][j] = places[u][j]
      /\ \A v \in Users \ {u} : places'[v] = places[v]
  <2> HIDE <1>3, <1>4, <1>7
  <2> QED BY <1>5, <1>6, <1>8, Revised
<1> QED BY <1>4, <1>7, <1>9

\* A call under way stays the last one while no other is begun.
LEMMA LogKept ==
  ASSUME CallLog, calls' = calls,
         results' \in [Users -> Seq(Reply \cup {Pending, Failed})],
         \A v \in Users : Len(results'[v]) = Len(results[v]),
         places' \in [Users -> Seq([conn : Conns, at : Nat])],
         \A v \in Users : Len(places'[v]) = Len(places[v]),
         \A v \in Users : phase'[v] \in {"writing", "reading"} =>
                            phase[v] \in {"writing", "reading"}
  PROVE  CallLog'
BY DEF CallLog

\* A call is recorded as pending, with nothing written.
LEMMA CallRecorded ==
  ASSUME ConnType, CallLog, NEW u \in Users, Call(u)
  PROVE  /\ CallLog' /\ Len(calls'[u]) = Len(calls[u]) + 1
         /\ places'[u][Len(calls'[u])].at = 0
         /\ places'[u][Len(calls'[u])].conn = conn[u]
         /\ results'[u][Len(calls'[u])] = Pending
         /\ \A j \in 1..Len(calls[u]) : /\ calls'[u][j] = calls[u][j]
                                       /\ places'[u][j] = places[u][j]
                                       /\ results'[u][j] = results[u][j]
         /\ \A v \in Users \ {u} :
              calls'[v] = calls[v] /\ places'[v] = places[v] /\ results'[v] = results[v]
<1>1. conn[u] \in Conns
  BY HasConn DEF Call, Go
<1>2. PICK command \in Calls : calls' = [calls EXCEPT ![u] = Append(@, command)]
  BY DEF Call
<1>3. PICK place : place = [conn |-> conn[u], at |-> 0]
  OBVIOUS
<1>4. PICK Place : Place = [conn : Conns, at : Nat]
  OBVIOUS
<1>5. place \in Place /\ place.at = 0 /\ place.conn = conn[u]
  BY <1>1, <1>3, <1>4
<1>6. places \in [Users -> Seq(Place)] /\ places' = [places EXCEPT ![u] = Append(@, place)]
  BY <1>3, <1>4 DEF CallLog, Call
<1>7. /\ calls' \in [Users -> Seq(Calls)] /\ Len(calls'[u]) = Len(calls[u]) + 1
      /\ \A j \in 1..Len(calls[u]) : calls'[u][j] = calls[u][j]
      /\ \A v \in Users \ {u} : calls'[v] = calls[v]
  BY <1>2, Recorded DEF CallLog
<1>8. PICK Result : Result = Reply \cup {Pending, Failed}
  OBVIOUS
<1>9. /\ results \in [Users -> Seq(Result)] /\ Pending \in Result
      /\ results' = [results EXCEPT ![u] = Append(@, Pending)]
  BY <1>8 DEF CallLog, Call
<1>10. /\ results' \in [Users -> Seq(Result)] /\ Len(results'[u]) = Len(results[u]) + 1
       /\ results'[u][Len(results'[u])] = Pending
       /\ \A j \in 1..Len(results[u]) : results'[u][j] = results[u][j]
       /\ \A v \in Users \ {u} : results'[v] = results[v]
  BY <1>9, Recorded
<1>11. /\ places' \in [Users -> Seq(Place)] /\ Len(places'[u]) = Len(places[u]) + 1
       /\ places'[u][Len(places'[u])] = place
       /\ \A j \in 1..Len(places[u]) : places'[u][j] = places[u][j]
       /\ \A v \in Users \ {u} : places'[v] = places[v]
  <2> HIDE <1>3, <1>4
  <2> QED BY <1>5, <1>6, Recorded
<1>12. phase' = [phase EXCEPT ![u] = "writing"] /\ Len(calls[u]) \in Nat
  BY LenProperties DEF Call, Go, CallLog
<1>13. phase \in [Users -> Phases]
  BY DEF ConnType
<1>14. \A v \in Users : phase'[v] \in {"writing", "reading"} => Len(calls'[v]) > 0
  BY <1>7, <1>12, <1>13 DEF CallLog
<1>15. \A v \in Users : Len(results'[v]) = Len(calls'[v]) /\ Len(places'[v]) = Len(calls'[v])
  BY <1>7, <1>10, <1>11 DEF CallLog
<1>16. places' \in [Users -> Seq([conn : Conns, at : Nat])]
  BY <1>4, <1>11
<1>17. results' \in [Users -> Seq(Reply \cup {Pending, Failed})]
  BY <1>8, <1>10
<1>18. CallLog'
  BY <1>7, <1>14, <1>15, <1>16, <1>17 DEF CallLog
<1>19. Len(results[u]) = Len(calls[u]) /\ Len(places[u]) = Len(calls[u])
  BY DEF CallLog
<1> QED BY <1>5, <1>7, <1>10, <1>11, <1>15, <1>18, <1>19

\* An answer is interpreted as itself or as a failure.
LEMMA Interpreted ==
  ASSUME NEW command, NEW answer \in Reply
  PROVE  Interpret(command, answer) \in Reply \cup {Pending, Failed}
BY DEF Interpret

\* The records across every step.
LEMMA LogStep ==
  ASSUME ConnType, CallLog, HandlerTypeOK, HandlerTypeOK', [CallNext]_callVars
  PROVE  CallLog'
<1>1. CASE UNCHANGED <<calls, results, places>>
           /\ \A v \in Users : phase'[v] \in {"writing", "reading"} =>
                                 phase[v] \in {"writing", "reading"}
  BY <1>1, LogKept DEF CallLog
<1>2. ASSUME NEW u \in Users, NEW to \in Phases, phase[u] \in {"writing", "reading"},
             phase' = [phase EXCEPT ![u] = to]
      PROVE  \A v \in Users : phase'[v] \in {"writing", "reading"} =>
                                phase[v] \in {"writing", "reading"}
  BY <1>2 DEF ConnType
<1>3. ASSUME NEW u \in Users, Overrun(u) \/ WriteRequest(u)
      PROVE  CallLog'
  <2>1. /\ phase[u] = "writing" /\ UNCHANGED <<calls, results>>
        /\ phase' = phase \/ phase' = [phase EXCEPT ![u] = "reading"]
    BY <1>3 DEF Overrun, WriteRequest, Go
  <2>2. PICK m : Put(u, m)
    BY <1>3 DEF Overrun, WriteRequest
  <2>3. /\ places' \in [Users -> Seq([conn : Conns, at : Nat])]
        /\ \A v \in Users : Len(places'[v]) = Len(places[v])
    BY <2>1, <2>2, PutLog
  <2> QED BY <1>2, <2>1, <2>3, LogKept DEF CallLog, Phases
<1>4. ASSUME NEW u \in Users,
             WriteError(u) \/ ReadResponse(u) \/ ReadError(u) \/ GiveUpReading(u)
      PROVE  CallLog'
  <2>1. /\ phase[u] \in {"writing", "reading"} /\ UNCHANGED <<calls, places>>
        /\ \E to \in Phases : phase' = [phase EXCEPT ![u] = to]
    BY <1>4 DEF WriteError, ReadResponse, ReadError, GiveUpReading, Go, Phases
  <2>2. PICK result \in Reply \cup {Pending, Failed} : Return(u, result)
    <3>1. CASE ReadResponse(u)
      <4>1. conn[u] \in Conns
        BY <3>1, HasConn DEF ReadResponse, Go
      <4>2. PICK i \in Nat : i = taken[conn[u]] + 1 /\ i \in 1..Len(out[conn[u]])
        BY <3>1, <4>1 DEF ReadResponse, ReadReply, HandlerTypeOK
      <4>3. out[conn[u]] \in Seq(Reply)
        BY <4>1 DEF HandlerTypeOK
      <4>4. out[conn[u]][i] \in Reply
        BY ONLY <4>2, <4>3, ElementOfSeq
      <4> QED BY <3>1, <4>2, <4>4, Interpreted DEF ReadResponse
    <3> QED BY <1>4, <3>1 DEF WriteError, ReadError, GiveUpReading
  <2>3. /\ results' \in [Users -> Seq(Reply \cup {Pending, Failed})]
        /\ \A v \in Users : Len(results'[v]) = Len(results[v])
    BY <2>1, <2>2, ReturnLog
  <2> QED BY <1>2, <2>1, <2>3, LogKept DEF CallLog
<1>5. ASSUME NEW u \in Users, GiveUpWriting(u)
      PROVE  CallLog'
  <2>1. /\ phase[u] = "writing" /\ calls' = calls /\ Return(u, Failed)
        /\ phase' = [phase EXCEPT ![u] = "stale"]
        /\ UNCHANGED places \/ \E m : Put(u, m)
    BY <1>5 DEF GiveUpWriting, Go
  <2>2. /\ results' \in [Users -> Seq(Reply \cup {Pending, Failed})]
        /\ \A v \in Users : Len(results'[v]) = Len(results[v])
    BY <2>1, ReturnLog
  <2>3. /\ places' \in [Users -> Seq([conn : Conns, at : Nat])]
        /\ \A v \in Users : Len(places'[v]) = Len(places[v])
    BY <2>1, PutLog DEF CallLog
  <2> QED BY <1>2, <2>1, <2>2, <2>3, LogKept DEF Phases
<1>6. ASSUME NEW u \in Users, NEW c \in Conns, Open(u, c)
      PROVE  CallLog'
  BY <1>1, <1>6 DEF Open, Go, ConnType
<1>7. ASSUME NEW u \in Users, WriteInVain(u)
      PROVE  CallLog'
  BY <1>1, <1>7 DEF WriteInVain, Go, ConnType
<1>8. ASSUME NEW u \in Users, Drop(u)
      PROVE  CallLog'
  BY <1>1, <1>8 DEF Drop, ConnType
<1>9. CASE UNCHANGED users
  BY <1>1, <1>9 DEF users
<1>10. ASSUME NEW c \in Conns, Break(c)
       PROVE  CallLog'
  BY <1>9, <1>10 DEF Break
<1> QED
  BY <1>3, <1>4, <1>5, <1>6, <1>7, <1>8, <1>9, <1>10, CallRecorded
  DEF CallNext, User, Exchange, callVars

\* The callers' variables keep their types, whatever they do.
THEOREM CallTypes == CallSpec => []CallTypeOK
<1>1. CallInit => CallLog
  BY EmptySeq DEF CallInit, CallLog
<1>2. ConnType /\ CallLog /\ Layer1 /\ Layer1' /\ [CallNext]_callVars => CallLog'
  BY LogStep DEF Layer1, TypeOK, AcceptorTypeOK
<1>3. CallSpec => []ConnType /\ []Layer1
  BY CallersAreClients, Layer1Invariant, PTL
<1>4. CallSpec => []CallLog
  BY <1>1, <1>2, <1>3, PTL DEF CallSpec
<1>5. ConnType /\ CallLog /\ Layer1 => CallTypeOK
  BY DEF ConnType, CallLog, Layer1, CallTypeOK
<1> QED BY <1>3, <1>4, <1>5, PTL

-----------------------------------------------------------------------------
(* A requester that may be used again is on a clean connection             *)

\* No two requesters share a connection, and each is connected.
OwnConn ==
  /\ \A u \in Users : phase[u] # "away" => stage[conn[u]] # "away"
  /\ \A u, v \in Users : phase[u] # "away" /\ conn[u] = conn[v] => u = v

\* The five states a connection can be in for a requester that is not stale:
\* nothing is under way, or the request waits, is being answered, is answered; or
\* what waits is a request the server will refuse.
Quiet(c) ==
  taken[c] = Len(out[c]) /\ parsed[c] = Len(sent[c]) /\ stage[c] # "writing"

Requested(c) ==
  taken[c] = Len(out[c]) /\ parsed[c] + 1 = Len(sent[c]) /\ stage[c] # "writing"

Refused(c) == Requested(c) /\ NextInput(c) = Malformed

Executing(c) ==
  taken[c] = Len(out[c]) /\ parsed[c] = Len(sent[c]) /\ stage[c] = "writing"

Replied(c) ==
  taken[c] + 1 = Len(out[c]) /\ parsed[c] = Len(sent[c]) /\ stage[c] # "writing"

\* Where the connection of a requester stands depends on what it is doing.
Turn(u) ==
  /\ phase[u] = "idle" => Dead(conn[u]) \/ Quiet(conn[u])
  /\ phase[u] = "writing" =>
       \/ Dead(conn[u])
       \/ Written(u) /\ Refused(conn[u])
       \/ ~Written(u) /\ Quiet(conn[u])
  /\ phase[u] = "reading" =>
       \/ Dead(conn[u])
       \/ Requested(conn[u]) \/ Executing(conn[u]) \/ Replied(conn[u])

\* The server's steps take a connection from one of these states to the next,
\* and never back to life.
LEMMA ServerTurn ==
  ASSUME AcceptorTypeOK, BacklogIsQueued, ServerStep, NEW c \in Conns, ConnState(c)
  PROVE  /\ Dead(c) => Dead(c)'
         /\ Quiet(c) => (Dead(c) \/ Quiet(c))'
         /\ Refused(c) => (Dead(c) \/ Refused(c))'
         /\ Requested(c) => (Dead(c) \/ Requested(c) \/ Executing(c))'
         /\ Executing(c) => (Dead(c) \/ Executing(c) \/ Replied(c))'
         /\ Replied(c) => (Dead(c) \/ Replied(c))'
<1>1. UNCHANGED client /\ (Same(c) \/ Moved(c))
  BY ServerEffect
<1>2. /\ out[c] \in Seq(Reply) /\ reply[c] \in Seq(Reply) /\ sent[c] \in Seq(Inputs)
      /\ parsed[c] \in Nat /\ taken[c] \in Nat
  BY DEF AcceptorTypeOK, HandlerTypeOK
<1>3. Len(out[c]) \in Nat /\ Len(sent[c]) \in Nat
      /\ Len(out[c] \o reply[c]) = Len(out[c]) + Len(reply[c])
  BY <1>2, LenProperties, ConcatProperties
<1>4. Dead(c) => Dead(c)'
  BY <1>1 DEF client, Same, Moved, Dead
<1>5. stage'[c] \in {"unguarded", "released", "ended"} => Dead(c)'
  BY DEF Dead
<1> USE DEF Quiet, Requested, Refused, Executing, Replied
<1>6. CASE Same(c)
  BY <1>1, <1>4, <1>6 DEF client, Same, NextInput
<1>7. CASE Moved(c)
  <2>1. UNCHANGED <<sent, taken>>
    BY <1>1 DEF client
  <2>2. HeadIs(c, Inputs \ {Malformed, Partial}) =>
          parsed[c] < Len(sent[c]) /\ NextInput(c) # Malformed
    BY DEF HeadIs, Unread
  <2>3. parsed'[c] = parsed[c] => NextInput(c)' = NextInput(c)
    BY <2>1 DEF NextInput
  <2>4. stage[c] = "writing" => Len(reply[c]) = 1
    BY DEF ConnState
  <2> HIDE DEF NextInput
  <2>5. CASE stage'[c] \in {"unguarded", "released", "ended"}
    BY <1>5, <2>5
  <2>6. CASE /\ stage[c] \in {"queued", "spawned", "reading"}
             /\ stage'[c] \in {"spawned", "reading", "reporting"}
             /\ parsed'[c] = parsed[c]
             /\ out'[c] = out[c]
    BY <1>4, <2>1, <2>3, <2>6
  <2>7. CASE /\ stage[c] = "reading" /\ stage'[c] = "writing"
             /\ HeadIs(c, Inputs \ {Malformed, Partial})
             /\ parsed'[c] = parsed[c] + 1
             /\ out'[c] = out[c]
    BY <1>2, <1>3, <1>4, <2>1, <2>2, <2>7
  <2>8. CASE /\ stage[c] = "writing" /\ stage'[c] = "reading"
             /\ parsed'[c] = parsed[c]
             /\ out'[c] = out[c] \o reply[c]
    BY <1>2, <1>3, <1>4, <2>1, <2>4, <2>8
  <2> QED BY <1>7, <2>5, <2>6, <2>7, <2>8 DEF Moved
<1> QED BY <1>1, <1>6, <1>7

\* A connection on which nothing happens but that it may break.
Untouched(c) ==
  /\ Same(c)
  /\ sent'[c] = sent[c] /\ taken'[c] = taken[c]
  /\ peer'[c] \in {peer[c], "gone"}

\* A client's step touches no other connection, and a reset only breaks its own.
LEMMA Elsewhere ==
  ASSUME HandlerTypeOK, NEW c \in Conns, NEW d \in Conns,
         Reset(c) \/ ((Client(c) \/ Connect(c)) /\ c # d)
  PROVE  Untouched(d)
<1> USE DEF HandlerTypeOK, Untouched, Same, input, output
<1>1. CASE Reset(c)
  BY <1>1 DEF Reset
<1>2. CASE Send(c) /\ c # d
  BY <1>2 DEF Send
<1>3. CASE (CloseSend(c) \/ ReadReply(c)) /\ c # d
  BY <1>3 DEF CloseSend, ReadReply
<1>4. CASE Connect(c) /\ c # d
  BY <1>4 DEF Connect, MoveTo, client
<1> QED BY <1>1, <1>2, <1>3, <1>4 DEF Client

\* What a user does touches its own connection only.
LEMMA UserElsewhere ==
  ASSUME HandlerTypeOK, ConnType, NEW u \in Users, User(u), NEW d \in Conns,
         phase[u] # "away" => conn[u] # d,
         stage[d] # "away"
  PROVE  Untouched(d)
<1>1. ASSUME NEW c \in Conns, Open(u, c)
      PROVE  Untouched(d)
  <2>1. Connect(c) /\ c # d
    BY <1>1 DEF Open, Connect, MoveTo
  <2> QED BY <2>1, Elsewhere
<1>2. ASSUME NEW m, Put(u, m), phase[u] # "away"
      PROVE  Untouched(d)
  BY <1>2, HasConn, Elsewhere DEF Put, Client
<1>3. ASSUME UNCHANGED handlerVars
      PROVE  Untouched(d)
  BY <1>3 DEF handlerVars, client, input, output, Untouched, Same
<1>4. CASE Overrun(u) \/ WriteRequest(u)
  BY <1>2, <1>4 DEF Overrun, WriteRequest, Go
<1>5. CASE ReadResponse(u)
  <2>1. conn[u] \in Conns /\ conn[u] # d /\ Client(conn[u])
    BY <1>5, HasConn DEF ReadResponse, Go, Client
  <2> QED BY <2>1, Elsewhere
<1>6. CASE GiveUpWriting(u)
  BY <1>2, <1>3, <1>6 DEF GiveUpWriting, Go, vars
<1>7. CASE Drop(u)
  <2>1. conn[u] \in Conns /\ conn[u] # d
    BY <1>7, HasConn DEF Drop
  <2>2. Client(conn[u]) \/ UNCHANGED handlerVars
    BY <1>7 DEF Drop, Client
  <2> QED BY <1>3, <2>1, <2>2, Elsewhere
<1>8. CASE \/ Call(u) \/ WriteInVain(u) \/ WriteError(u) \/ ReadError(u)
           \/ GiveUpReading(u)
  BY <1>3, <1>8 DEF Call, WriteInVain, WriteError, ReadError, GiveUpReading, vars
<1> QED BY <1>1, <1>4, <1>5, <1>6, <1>7, <1>8 DEF User, Exchange

\* A user moves no requester but its own.
LEMMA OthersKeep ==
  ASSUME ConnType, CallLog, HandlerTypeOK, HandlerTypeOK',
         NEW u \in Users, User(u), NEW w \in Users \ {u}
  PROVE  /\ phase'[w] = phase[w] /\ conn'[w] = conn[w]
         /\ calls'[w] = calls[w] /\ places'[w] = places[w]
         /\ results'[w] = results[w]
<1> USE DEF ConnType, Go
<1>0. ASSUME NEW result, Return(u, result)
      PROVE  results'[w] = results[w]
  BY <1>0 DEF Return, CallLog
<1>1. CASE \E c \in Conns : Open(u, c)
  BY <1>1 DEF Open
<1>2. CASE Call(u)
  BY <1>2, CallRecorded DEF Call
<1>3. CASE Overrun(u) \/ WriteRequest(u)
  <2>1. \E m : Put(u, m)
    BY <1>3 DEF Overrun, WriteRequest
  <2>2. places'[w] = places[w]
    BY <1>3, <2>1, PutLog DEF Overrun, WriteRequest
  <2> QED BY <1>3, <2>2 DEF Overrun, WriteRequest
<1>4. CASE WriteInVain(u) \/ WriteError(u) \/ ReadResponse(u) \/ ReadError(u)
           \/ GiveUpReading(u)
  BY <1>0, <1>4 DEF WriteInVain, WriteError, ReadResponse, ReadError, GiveUpReading
<1>5. CASE GiveUpWriting(u)
  <2>1. places'[w] = places[w]
    BY <1>5, PutLog DEF GiveUpWriting
  <2> QED BY <1>0, <1>5, <2>1 DEF GiveUpWriting
<1>6. CASE Drop(u)
  BY <1>6 DEF Drop
<1> QED BY <1>1, <1>2, <1>3, <1>4, <1>5, <1>6 DEF User, Exchange

\* A requester nobody moved, on a connection nobody touched.
LEMMA TurnKept ==
  ASSUME NEW w \in Users, Turn(w),
         phase'[w] = phase[w], conn'[w] = conn[w],
         calls'[w] = calls[w], places'[w] = places[w],
         phase[w] # "away" => Untouched(conn[w])
  PROVE  Turn(w)'
BY DEF Turn, Written, Last, Untouched, Same, Dead, Quiet, Requested, Refused,
       Executing, Replied, NextInput

\* A user's step turns its own connection from one state to the next.
LEMMA OwnTurn ==
  ASSUME ConnType, CallLog, HandlerTypeOK, HandlerTypeOK', OwnConn,
         NEW u \in Users, User(u), Turn(u), \A c \in Conns : ConnState(c)
  PROVE  Turn(u)'
<1>1. ASSUME NEW c \in Conns, Open(u, c)
      PROVE  Turn(u)'
  <2>1. /\ conn'[u] = c /\ phase'[u] = "idle"
        /\ stage[c] = "away" /\ stage'[c] = "queued"
        /\ UNCHANGED <<sent, out, taken, parsed>>
    BY <1>1 DEF Open, Go, Connect, MoveTo, client, input, output, ConnType, HandlerTypeOK
  <2>2. Len(out[c]) = 0 /\ Len(sent[c]) = 0 /\ taken[c] = 0 /\ parsed[c] = 0
    BY <2>1, EmptySeq DEF ConnState
  <2> QED BY <2>1, <2>2 DEF Turn, Quiet
<1>2. CASE Drop(u)
  <2>1. phase'[u] = "away"
    BY <1>2 DEF Drop, ConnType
  <2> QED BY <2>1 DEF Turn
<1>3. CASE GiveUpWriting(u) \/ GiveUpReading(u)
  <2>1. phase'[u] = "stale"
    BY <1>3 DEF GiveUpWriting, GiveUpReading, Go, ConnType
  <2> QED BY <2>1 DEF Turn
<1>4. ASSUME phase[u] # "away", ~Drop(u)
      PROVE  \E c \in Conns : c = conn[u] /\ c = conn'[u] /\ stage[c] # "away"
  <2>1. conn'[u] = conn[u]
    BY <1>4 DEF User, Exchange, Open, Call, Overrun, WriteRequest, WriteInVain,
                WriteError, ReadResponse, ReadError, GiveUpWriting, GiveUpReading, Go
  <2> QED BY <1>4, <2>1, HasConn DEF OwnConn
<1>5. ASSUME NEW c \in Conns, stage[c] # "away", Severed(c)
      PROVE  Dead(c)
  BY <1>5 DEF Severed, Reachable, Dead
<1>6. ASSUME NEW c \in Conns, UNCHANGED vars
      PROVE  /\ Dead(c)' = Dead(c) /\ Quiet(c)' = Quiet(c)
             /\ Requested(c)' = Requested(c)
  BY <1>6 DEF vars, handlerVars, client, input, output, Dead, Quiet, Requested
<1>7. CASE Call(u)
  <2>1. /\ phase[u] = "idle" /\ phase'[u] = "writing" /\ UNCHANGED vars /\ ~Drop(u)
    BY <1>7 DEF Call, Go, ConnType, Drop
  <2>2. ~Written(u)'
    BY <1>7, CallRecorded DEF Written, Last
  <2>3. PICK c \in Conns : c = conn[u] /\ c = conn'[u]
    BY <1>4, <2>1
  <2>4. Dead(c) \/ Quiet(c)
    BY <2>1, <2>3 DEF Turn
  <2>5. (Dead(c) \/ Quiet(c))'
    BY <1>6, <2>1, <2>4
  <2> QED BY <2>1, <2>2, <2>3, <2>5 DEF Turn, Dead, Quiet
<1>8. ASSUME NEW c \in Conns, NEW m, c = conn[u], Put(u, m)
      PROVE  /\ UNCHANGED <<taken, out, parsed, stage, peer>>
             /\ sent[c] \in Seq(Inputs) /\ Len(sent'[c]) = Len(sent[c]) + 1
             /\ sent'[c][Len(sent[c]) + 1] = m
  <2>1. sent'[c] = Append(sent[c], m) /\ sent[c] \in Seq(Inputs)
    BY <1>8 DEF Put, HandlerTypeOK
  <2>2. Len(sent'[c]) = Len(sent[c]) + 1 /\ sent'[c][Len(sent[c]) + 1] = m
    BY <2>1, AppendProperties, LenProperties
  <2> QED BY <1>8, <2>1, <2>2 DEF Put, Send, input, output
<1>9. ASSUME NEW c \in Conns, NEW m, c = conn[u], Put(u, m)
      PROVE  /\ Dead(c) => Dead(c)'
             /\ Quiet(c) => Requested(c)' /\ NextInput(c)' = m
  <2>1. parsed[c] \in Nat
    BY DEF HandlerTypeOK
  <2> QED BY <1>8, <1>9, <2>1 DEF Dead, Quiet, Requested, NextInput
<1>10. CASE Overrun(u)
  <2>1. /\ phase[u] = "writing" /\ phase'[u] = "writing" /\ ~Written(u) /\ ~Drop(u)
        /\ Put(u, Malformed) /\ calls' = calls
    BY <1>10 DEF Overrun, Drop
  <2>2. PICK c \in Conns : c = conn[u] /\ c = conn'[u]
    BY <1>4, <2>1
  <2>3. Written(u)'
    <3>1. places'[u][Last(u)].at = Len(sent'[c])
      BY <2>1, <2>2, PutLog
    <3>2. Len(sent'[c]) > 0
      BY <1>8, <2>1, <2>2, LenProperties
    <3> QED BY <2>1, <3>1, <3>2 DEF Written, Last
  <2>4. Dead(c) \/ Quiet(c)
    BY <2>1, <2>2 DEF Turn
  <2>5. Dead(c)' \/ Refused(c)'
    BY <1>9, <2>1, <2>2, <2>4 DEF Refused
  <2> QED BY <2>1, <2>2, <2>3, <2>5 DEF Turn, Dead, Refused, Requested, NextInput
<1>11. CASE WriteRequest(u)
  <2>1. /\ phase[u] = "writing" /\ phase'[u] = "reading" /\ ~Written(u) /\ ~Drop(u)
        /\ Put(u, RequestFor(Current(u)))
    BY <1>11 DEF WriteRequest, Go, ConnType, Drop
  <2>2. PICK c \in Conns : c = conn[u] /\ c = conn'[u]
    BY <1>4, <2>1
  <2>3. Dead(c) \/ Quiet(c)
    BY <2>1, <2>2 DEF Turn
  <2>4. Dead(c)' \/ Requested(c)'
    BY <1>9, <2>1, <2>2, <2>3
  <2> QED BY <2>1, <2>2, <2>4 DEF Turn, Dead, Requested
<1>12. CASE WriteInVain(u)
  <2>1. /\ phase[u] = "writing" /\ phase'[u] = "reading" /\ UNCHANGED vars /\ ~Drop(u)
        /\ Written(u) \/ ~Reachable(conn[u])
    BY <1>12 DEF WriteInVain, Go, ConnType, Drop
  <2>2. PICK c \in Conns : c = conn[u] /\ c = conn'[u] /\ stage[c] # "away"
    BY <1>4, <2>1
  <2>3. Dead(c) \/ Requested(c)
    BY <1>5, <2>1, <2>2 DEF Turn, Refused, Severed
  <2>4. (Dead(c) \/ Requested(c))'
    BY <1>6, <2>1, <2>3
  <2> QED BY <2>1, <2>2, <2>4 DEF Turn, Dead, Requested
<1>13. CASE WriteError(u) \/ ReadError(u)
  <2>1. /\ phase[u] # "away" /\ phase'[u] = "idle" /\ UNCHANGED vars /\ ~Drop(u)
        /\ Severed(conn[u])
    BY <1>13 DEF WriteError, ReadError, Go, ConnType, Drop
  <2>2. PICK c \in Conns : c = conn[u] /\ c = conn'[u] /\ stage[c] # "away"
    BY <1>4, <2>1
  <2>3. Dead(c)'
    BY <1>5, <1>6, <2>1, <2>2
  <2> QED BY <2>1, <2>2, <2>3 DEF Turn, Dead
<1>14. CASE ReadResponse(u)
  <2>1. /\ phase[u] = "reading" /\ phase'[u] = "idle" /\ ReadReply(conn[u]) /\ ~Drop(u)
    BY <1>14 DEF ReadResponse, Go, ConnType, Drop
  <2>2. PICK c \in Conns : c = conn[u] /\ c = conn'[u]
    BY <1>4, <2>1
  <2>3. /\ UNCHANGED <<sent, out, parsed, stage, peer>>
        /\ taken[c] < Len(out[c]) /\ taken'[c] = taken[c] + 1
        /\ taken[c] \in Nat /\ Len(out[c]) \in Nat
    BY <2>1, <2>2, LenProperties DEF ReadReply, HandlerTypeOK, input, output
  <2>4. Dead(c) \/ Replied(c)
    BY <2>1, <2>2, <2>3 DEF Turn, Requested, Executing
  <2>5. Dead(c)' \/ Quiet(c)'
    BY <2>3, <2>4 DEF Dead, Replied, Quiet
  <2> QED BY <2>1, <2>2, <2>5 DEF Turn, Dead, Quiet
<1> QED
  BY <1>1, <1>2, <1>3, <1>7, <1>10, <1>11, <1>12, <1>13, <1>14 DEF User, Exchange

\* No user gets a connection that is in use, and none is taken back.
LEMMA OwnStep ==
  ASSUME ConnType, CallLog, AcceptorTypeOK, HandlerTypeOK', BacklogIsQueued, OwnConn,
         [CallNext]_callVars
  PROVE  OwnConn'
<1>0. HandlerTypeOK
  BY DEF AcceptorTypeOK
<1>1. ASSUME NEW d \in Conns, stage[d] # "away"
      PROVE  stage'[d] # "away"
  <2>1. CASE ServerStep
    BY <1>1, <2>1, ServerEffect DEF Same, Moved
  <2>2. ASSUME NEW c \in Conns, Client(c) \/ Connect(c)
        PROVE  stage'[d] # "away"
    BY <1>0, <1>1, <2>2, ClientEffect DEF Same, Connect, MoveTo, HandlerTypeOK
  <2>3. [Next]_vars
    BY StepOfServer
  <2>4. CASE UNCHANGED vars
    BY <1>1, <2>4 DEF vars, handlerVars
  <2> QED BY <2>1, <2>2, <2>3, <2>4 DEF Next, ServerStep, Peer
<1>2. CASE UNCHANGED <<conn, phase>>
  BY <1>1, <1>2, HasConn DEF OwnConn
<1>3. ASSUME NEW u \in Users, NEW c \in Conns, Open(u, c)
      PROVE  OwnConn'
  <2>1. /\ conn' = [conn EXCEPT ![u] = c] /\ phase' = [phase EXCEPT ![u] = "idle"]
        /\ stage[c] = "away" /\ stage'[c] = "queued"
    BY <1>0, <1>3 DEF Open, Go, Connect, MoveTo, HandlerTypeOK
  <2>2. \A v \in Users : phase[v] # "away" => conn[v] # c
    BY <2>1 DEF OwnConn
  <2>3. \A v \in Users \ {u} : phase'[v] = phase[v] /\ conn'[v] = conn[v]
    BY <2>1 DEF ConnType
  <2>4. phase'[u] = "idle" /\ conn'[u] = c
    BY <2>1 DEF ConnType
  <2>5. \A v \in Users : phase'[v] # "away" => stage'[conn'[v]] # "away"
    BY <1>1, <2>1, <2>3, <2>4, HasConn DEF OwnConn
  <2>6. ASSUME NEW v \in Users, NEW w \in Users, phase'[v] # "away", conn'[v] = conn'[w]
        PROVE  v = w
    <3>1. CASE v # u /\ w # u
      BY <2>3, <2>6, <3>1 DEF OwnConn
    <3>2. CASE v = u /\ w # u
      <4>1. conn[w] = c
        BY <2>3, <2>4, <2>6, <3>2
      <4>2. phase[w] # "away"
        BY <4>1, RequesterAssumption DEF ConnType
      <4> QED BY <2>2, <4>1, <4>2
    <3>3. CASE v # u /\ w = u
      BY <2>2, <2>3, <2>4, <2>6, <3>3
    <3> QED BY <3>1, <3>2, <3>3
  <2> QED BY <2>5, <2>6 DEF OwnConn
<1>4. ASSUME NEW u \in Users, Drop(u)
      PROVE  OwnConn'
  <2>1. /\ conn' = [conn EXCEPT ![u] = NoConn] /\ phase' = [phase EXCEPT ![u] = "away"]
    BY <1>4 DEF Drop
  <2>2. \A v \in Users \ {u} : phase'[v] = phase[v] /\ conn'[v] = conn[v]
    BY <2>1 DEF ConnType
  <2>3. phase'[u] = "away" /\ conn'[u] = NoConn
    BY <2>1 DEF ConnType
  <2>4. \A v \in Users : phase'[v] # "away" => stage'[conn'[v]] # "away"
    BY <1>1, <2>2, <2>3, HasConn DEF OwnConn
  <2>5. ASSUME NEW v \in Users, NEW w \in Users, phase'[v] # "away", conn'[v] = conn'[w]
        PROVE  v = w
    <3>1. v # u /\ conn[v] \in Conns
      BY <2>2, <2>3, <2>5, HasConn
    <3>2. w # u
      BY <2>2, <2>3, <2>5, <3>1, RequesterAssumption
    <3> QED BY <2>2, <2>5, <3>1, <3>2 DEF OwnConn
  <2> QED BY <2>4, <2>5 DEF OwnConn
<1>5. ASSUME NEW u \in Users, User(u), ~Drop(u), ~(\E c \in Conns : Open(u, c))
      PROVE  /\ conn' = conn
             /\ \A v \in Users : phase'[v] # "away" => phase[v] # "away"
  BY <1>5 DEF ConnType, User, Exchange, Call, Overrun, WriteRequest, WriteInVain,
              WriteError, ReadResponse, ReadError, GiveUpWriting, GiveUpReading, Go
<1>6. ASSUME NEW u \in Users, User(u), ~Drop(u), ~(\E c \in Conns : Open(u, c))
      PROVE  OwnConn'
  BY <1>1, <1>5, <1>6, HasConn DEF OwnConn
<1>7. CASE UNCHANGED users \/ \E c \in Conns : Break(c)
  BY <1>2, <1>7 DEF users, Break
<1> QED BY <1>3, <1>4, <1>6, <1>7 DEF CallNext, callVars

\* Every connection stands where its requester expects it.
LEMMA TurnStep ==
  ASSUME ConnType, CallLog, AcceptorTypeOK, HandlerTypeOK', BacklogIsQueued, OwnConn,
         \A c \in Conns : ConnState(c), [CallNext]_callVars,
         NEW w \in Users, Turn(w)
  PROVE  Turn(w)'
<1>0. HandlerTypeOK
  BY DEF AcceptorTypeOK
<1>1. CASE ServerStep /\ UNCHANGED users
  <2>1. UNCHANGED <<conn, phase, calls, places>>
    BY <1>1 DEF users
  <2>2. CASE phase[w] \notin {"idle", "writing", "reading"}
    BY <2>1, <2>2 DEF Turn
  <2>3. CASE phase[w] \in {"idle", "writing", "reading"}
    <3>1. PICK c \in Conns : c = conn[w]
      BY <2>3, HasConn
    <3>2. /\ Dead(c) => Dead(c)'
          /\ Quiet(c) => Dead(c)' \/ Quiet(c)'
          /\ Refused(c) => Dead(c)' \/ Refused(c)'
          /\ Requested(c) => Dead(c)' \/ Requested(c)' \/ Executing(c)'
          /\ Executing(c) => Dead(c)' \/ Executing(c)' \/ Replied(c)'
          /\ Replied(c) => Dead(c)' \/ Replied(c)'
      BY <1>1, ServerTurn
    <3>3. Written(w)' = Written(w) /\ conn'[w] = c /\ phase'[w] = phase[w]
      BY <2>1, <3>1 DEF Written, Last
    <3>4. CASE phase[w] = "idle"
      BY <3>1, <3>2, <3>3, <3>4 DEF Turn, Dead, Quiet
    <3>5. CASE phase[w] = "writing"
      <4>1. \/ Dead(c)'
            \/ Written(w)' /\ Refused(c)'
            \/ ~Written(w)' /\ Quiet(c)'
        BY <3>1, <3>2, <3>3, <3>5 DEF Turn
      <4> QED BY <3>3, <3>5, <4>1 DEF Turn, Dead, Quiet, Refused, Requested, NextInput
    <3>6. CASE phase[w] = "reading"
      <4>1. Dead(c)' \/ Requested(c)' \/ Executing(c)' \/ Replied(c)'
        BY <3>1, <3>2, <3>6 DEF Turn
      <4> QED BY <3>3, <3>6, <4>1 DEF Turn, Dead, Requested, Executing, Replied
    <3> QED BY <2>3, <3>4, <3>5, <3>6
  <2> QED BY <2>2, <2>3
<1>2. ASSUME NEW u \in Users, User(u)
      PROVE  Turn(w)'
  <2>1. CASE u = w
    BY <1>0, <1>2, <2>1, OwnTurn
  <2>2. CASE u # w
    <3>1. phase[w] # "away" => Untouched(conn[w])
      BY <1>0, <1>2, <2>2, HasConn, UserElsewhere DEF OwnConn
    <3> QED BY <1>0, <1>2, <2>2, <3>1, OthersKeep, TurnKept
  <2> QED BY <2>1, <2>2
<1>3. ASSUME NEW c \in Conns, Break(c)
      PROVE  Turn(w)'
  <2>1. phase[w] # "away" => Untouched(conn[w])
    <3>1. ASSUME phase[w] # "away" PROVE Untouched(conn[w])
      <4>1. conn[w] \in Conns /\ Reset(c)
        BY <1>3, <3>1, HasConn DEF Break
      <4> QED BY <1>0, <1>3, <4>1, Elsewhere
    <3> QED BY <3>1
  <2> QED BY <1>3, <2>1, TurnKept DEF Break, users
<1>4. CASE UNCHANGED callVars
  <2>1. phase[w] # "away" => Untouched(conn[w])
    BY <1>4 DEF callVars, vars, handlerVars, client, input, output, Untouched, Same
  <2> QED BY <1>4, <2>1, TurnKept DEF callVars, users
<1> QED BY <1>1, <1>2, <1>3, <1>4 DEF CallNext

\* What is known of every state the callers and the server reach.
Known ==
  /\ ConnType /\ CallLog /\ OwnConn /\ (\A u \in Users : Turn(u))
  /\ Layer1 /\ AllProgressed /\ (\A c \in Conns : ConnState(c))

\* The records of the calls and the connections agree, always.
THEOREM KnownInvariant == CallSpec => []Known
<1>1. CallInit => CallLog /\ OwnConn /\ \A u \in Users : Turn(u)
  BY EmptySeq DEF CallInit, CallLog, OwnConn, Turn
<1>2. /\ ConnType /\ CallLog /\ OwnConn /\ (\A u \in Users : Turn(u))
      /\ Layer1 /\ Layer1' /\ (\A c \in Conns : ConnState(c))
      /\ [CallNext]_callVars
      => CallLog' /\ OwnConn' /\ (\A u \in Users : Turn(u))'
  BY LogStep, OwnStep, TurnStep DEF Layer1, TypeOK, AcceptorTypeOK
<1>3. CallSpec => /\ []ConnType /\ []Layer1 /\ []AllProgressed
                  /\ [](\A c \in Conns : ConnState(c))
  BY CallersAreClients, Layer1Invariant, ServerProgress, ConnStates, PTL
<1>4. CallSpec => []CallLog /\ []OwnConn /\ [](\A u \in Users : Turn(u))
  BY <1>1, <1>2, <1>3, PTL DEF CallSpec
<1> QED BY <1>3, <1>4, PTL DEF Known

\* Why only a timeout costs the requester: after any other outcome of a call
\* nothing of it is left on the connection, or the connection is of no use.
THEOREM CleanWhenIdle == CallSpec => []IdleIsClean
<1>1. Known => IdleIsClean
  BY DEF Known, Turn, Dead, Quiet, IdleIsClean
<1> QED BY <1>1, KnownInvariant, PTL

-----------------------------------------------------------------------------
(* Every input of a connection is the request of one call                  *)

\* The parts of what is known that the steps below use.
LEMMA Parts ==
  ASSUME Known
  PROVE  /\ ConnType /\ CallLog /\ OwnConn /\ AllProgressed
         /\ AcceptorTypeOK /\ HandlerTypeOK /\ BacklogIsQueued
         /\ \A u \in Users : Turn(u)
         /\ \A c \in Conns : ConnState(c) /\ Progressed(c)
         /\ \A u \in Users : /\ Len(calls[u]) \in Nat /\ Len(results[u]) = Len(calls[u])
                             /\ Len(places[u]) = Len(calls[u])
         /\ \A c \in Conns : /\ Len(sent[c]) \in Nat /\ Len(out[c]) \in Nat
                             /\ parsed[c] \in Nat /\ taken[c] \in Nat
<1>1. /\ ConnType /\ CallLog /\ OwnConn /\ AllProgressed
      /\ AcceptorTypeOK /\ HandlerTypeOK /\ BacklogIsQueued
  BY DEF Known, Layer1, TypeOK, AcceptorTypeOK
<1>2. \A u \in Users : calls[u] \in Seq(Calls)
  BY <1>1 DEF CallLog
<1>3. \A u \in Users : /\ Len(calls[u]) \in Nat /\ Len(results[u]) = Len(calls[u])
                       /\ Len(places[u]) = Len(calls[u])
  BY <1>1, <1>2, LenProperties DEF CallLog
<1>4. \A c \in Conns : /\ Len(sent[c]) \in Nat /\ Len(out[c]) \in Nat
                       /\ parsed[c] \in Nat /\ taken[c] \in Nat
  BY <1>1, LenProperties DEF HandlerTypeOK
<1> QED BY <1>1, <1>3, <1>4 DEF Known, AllProgressed

\* What a call that is being written puts on its connection.
Writes(u, m) ==
  /\ phase[u] = "writing" /\ ~Written(u)
  /\ m \in {RequestFor(Current(u)), Partial}
  /\ Put(u, m) /\ calls' = calls

\* A step begins a call, writes for one, or changes neither the calls nor what is
\* written for them.
LEMMA RecordSteps ==
  ASSUME Known, [CallNext]_callVars
  PROVE  \/ UNCHANGED <<sent, calls, places>>
         \/ \E u \in Users : Call(u)
         \/ \E u \in Users : \E m : Writes(u, m)
<1>1. CASE ServerStep /\ UNCHANGED users
  <2>1. CASE Conns = {}
    BY <1>1, <2>1 DEF ServerStep, users, CtrlC, Shutdown, Notify, ReleaseAcceptor,
         DropAcceptor, DetachSender, AwaitCompletion, AcceptLoop, LoopProgress, Subscribe,
         AcquirePermit, Accept, AcceptAborted, RetryAccept, AcceptError, AcceptFails,
         Exited, vars, handlerVars, client
  <2>2. ASSUME NEW d \in Conns
        PROVE  UNCHANGED <<sent, calls, places>>
    BY <1>1, Parts, ServerEffect DEF client, users
  <2> QED BY <2>1, <2>2
<1>2. ASSUME NEW u \in Users, Overrun(u) \/ WriteRequest(u)
      PROVE  \E m : Writes(u, m)
  BY <1>2 DEF Overrun, WriteRequest, Go, Writes
<1>3. ASSUME NEW u \in Users, GiveUpWriting(u)
      PROVE  UNCHANGED <<sent, calls, places>> \/ \E m : Writes(u, m)
  BY <1>3 DEF GiveUpWriting, Go, Writes, vars, handlerVars, client
<1>4. ASSUME NEW u \in Users, NEW c \in Conns, Open(u, c)
      PROVE  UNCHANGED <<sent, calls, places>>
  BY <1>4 DEF Open, Connect, client
<1>5. ASSUME NEW u \in Users, ReadResponse(u)
      PROVE  UNCHANGED <<sent, calls, places>>
  BY <1>5 DEF ReadResponse, ReadReply
<1>6. ASSUME NEW u \in Users, Drop(u)
      PROVE  UNCHANGED <<sent, calls, places>>
  BY <1>6 DEF Drop, CloseSend, Reset, handlerVars, client
<1>7. ASSUME NEW u \in Users,
             WriteInVain(u) \/ WriteError(u) \/ ReadError(u) \/ GiveUpReading(u)
      PROVE  UNCHANGED <<sent, calls, places>>
  BY <1>7 DEF WriteInVain, WriteError, ReadError, GiveUpReading, vars, handlerVars, client
<1>8. ASSUME NEW c \in Conns, Break(c)
      PROVE  UNCHANGED <<sent, calls, places>>
  BY <1>8 DEF Break, Reset, users
<1>9. CASE UNCHANGED callVars
  BY <1>9 DEF callVars, users, vars, handlerVars, client
<1> QED
  BY <1>1, <1>2, <1>3, <1>4, <1>5, <1>6, <1>7, <1>8, <1>9 DEF CallNext, User, Exchange

\* What a write does to the places and to the connections.
LEMMA WriteEffect ==
  ASSUME Known, Known', NEW u \in Users, NEW m, Writes(u, m)
  PROVE  /\ conn[u] \in Conns /\ Last(u) \in 1..Len(places[u]) /\ m \in Inputs
         /\ UNCHANGED <<stage, parsed, out, taken, reply, store, peer>>
         /\ \A v \in Users : Len(places'[v]) = Len(places[v])
         /\ places'[u][Last(u)].conn = conn[u]
         /\ places'[u][Last(u)].at = Len(sent[conn[u]]) + 1
         /\ places[u][Last(u)].at = 0
         /\ \A v \in Users : \A j \in 1..Len(places[v]) :
              v # u \/ j # Last(u) => places'[v][j] = places[v][j]
         /\ Len(sent'[conn[u]]) = Len(sent[conn[u]]) + 1
         /\ sent'[conn[u]][Len(sent[conn[u]]) + 1] = m
         /\ \A n \in 1..Len(sent[conn[u]]) : sent'[conn[u]][n] = sent[conn[u]][n]
         /\ \A d \in Conns \ {conn[u]} : sent'[d] = sent[d]
<1>1. conn[u] \in Conns /\ Last(u) \in 1..Len(places[u])
  BY Parts, HasConn, Underway DEF Writes
<1>2. UNCHANGED <<stage, parsed, out, taken, reply, store, peer>>
  BY DEF Writes, Put, Send, input, output
<1>3. /\ \A v \in Users : Len(places'[v]) = Len(places[v])
      /\ places'[u][Last(u)].conn = conn[u]
      /\ places'[u][Last(u)].at = Len(sent'[conn[u]])
      /\ \A v \in Users : \A j \in 1..Len(places[v]) :
           v # u \/ j # Last(u) => places'[v][j] = places[v][j]
  <2>1. /\ ConnType /\ CallLog /\ HandlerTypeOK /\ HandlerTypeOK'
        /\ phase[u] \in {"writing", "reading"} /\ Put(u, m)
    BY Parts DEF Writes, Known, Layer1, TypeOK, AcceptorTypeOK
  <2> QED BY <2>1, PutLog
<1>4. PICK x \in Inputs : sent' = [sent EXCEPT ![conn[u]] = Append(@, x)]
  BY DEF Writes, Put, Send
<1>5. PICK s : s = sent[conn[u]]
  OBVIOUS
<1>6. s \in Seq(Inputs) /\ sent'[conn[u]] = Append(s, x) /\ Append(s, x) = Append(s, m)
      /\ \A d \in Conns \ {conn[u]} : sent'[d] = sent[d]
  BY <1>1, <1>4, <1>5, Parts DEF HandlerTypeOK, Writes, Put
<1>7. /\ Len(Append(s, x)) = Len(s) + 1 /\ Append(s, x)[Len(s) + 1] = x
      /\ \A n \in 1..Len(s) : Append(s, x)[n] = s[n]
      /\ Len(s) \in Nat
  BY <1>6, AppendProperties, LenProperties
<1>8. m = x
  <2>1. sent'[conn[u]] = Append(sent[conn[u]], m)
    BY DEF Writes, Put
  <2>2. Append(s, m)[Len(s) + 1] = m
    BY <1>7
  <2> QED BY <1>6, <1>7, <2>2
<1>9. places[u][Last(u)].at = 0
  <2>1. places[u] \in Seq([conn : Conns, at : Nat])
    BY Parts DEF CallLog
  <2>2. places[u][Last(u)] \in [conn : Conns, at : Nat]
    BY <1>1, <2>1, ElementOfSeq
  <2> QED BY <2>2 DEF Writes, Written
<1> QED BY <1>1, <1>2, <1>3, <1>5, <1>6, <1>7, <1>8, <1>9

\* Where the requests of all calls are: each that was written is an input of its
\* connection, is the only one there, and there are no other inputs.
Entered(u, i) ==
  LET place == places[u][i]
  IN  place.at > 0 => /\ place.at <= Len(sent[place.conn])
                      /\ sent[place.conn][place.at] \in {RequestFor(calls[u][i]), Partial}

Alone(u, i, v, j) ==
  /\ places[u][i].at > 0
  /\ places[u][i].conn = places[v][j].conn /\ places[u][i].at = places[v][j].at
  => u = v /\ i = j

Owned(c, n) ==
  \E u \in Users : \E i \in 1..Len(places[u]) :
    places[u][i].conn = c /\ places[u][i].at = n

Ledger ==
  /\ \A u \in Users : \A i \in 1..Len(places[u]) : Entered(u, i)
  /\ \A u, v \in Users : \A i \in 1..Len(places[u]), j \in 1..Len(places[v]) :
       Alone(u, i, v, j)
  /\ \A c \in Conns : \A n \in 1..Len(sent[c]) : Owned(c, n)

\* A place is a connection and a position.
LEMMA PlaceType ==
  ASSUME CallLog, NEW u \in Users, NEW i \in 1..Len(places[u])
  PROVE  places[u][i].conn \in Conns /\ places[u][i].at \in Nat
<1>1. places[u] \in Seq([conn : Conns, at : Nat])
  BY DEF CallLog
<1>2. places[u][i] \in [conn : Conns, at : Nat]
  BY <1>1, ElementOfSeq
<1> QED BY <1>2

\* A call that begins has nothing on the wire.
LEMMA LedgerCall ==
  ASSUME Known, Known', Ledger, NEW u \in Users, Call(u)
  PROVE  Ledger'
<1>1. /\ ConnType /\ CallLog /\ sent' = sent
  BY Parts DEF Call, vars, handlerVars, client
<1>2. PICK k \in Nat : k = Len(calls[u]) + 1
  BY Parts
<1>3. /\ k = Len(places[u]) + 1 /\ Len(places'[u]) = k
      /\ places'[u][k].at = 0
      /\ \A i \in 1..Len(places[u]) : places'[u][i] = places[u][i] /\ calls'[u][i] = calls[u][i]
      /\ \A v \in Users \ {u} : places'[v] = places[v] /\ calls'[v] = calls[v]
  <2>1. CallLog'
    BY DEF Known
  <2>2. Len(calls'[u]) = k /\ Len(places[u]) = Len(calls[u]) /\ Len(places'[u]) = Len(calls'[u])
    BY <1>1, <1>2, <2>1, CallRecorded DEF CallLog
  <2> QED BY <1>1, <1>2, <2>2, CallRecorded
<1>4. ASSUME NEW v \in Users, NEW i \in 1..Len(places'[v])
      PROVE  \/ places'[v][i].at = 0
             \/ /\ i \in 1..Len(places[v])
                /\ places'[v][i] = places[v][i] /\ calls'[v][i] = calls[v][i]
  <2>1. CASE v # u
    BY <1>3, <1>4, <2>1
  <2>2. CASE v = u
    <3>1. Len(places[u]) \in Nat /\ i \in 1..k /\ k = Len(places[u]) + 1
      BY <1>3, <1>4, <2>2, Parts
    <3>2. i = k \/ i \in 1..Len(places[u])
      BY <3>1
    <3> QED BY <1>3, <2>2, <3>2
  <2> QED BY <2>1, <2>2
<1>5. ASSUME NEW v \in Users, NEW i \in 1..Len(places'[v])
      PROVE  Entered(v, i)'
  <2>1. CASE places'[v][i].at = 0
    BY <2>1 DEF Entered
  <2>2. CASE i \in 1..Len(places[v]) /\ places'[v][i] = places[v][i] /\ calls'[v][i] = calls[v][i]
    <3>1. Entered(v, i)
      BY <2>2 DEF Ledger
    <3> QED BY <1>1, <2>2, <3>1 DEF Entered
  <2> QED BY <1>4, <1>5, <2>1, <2>2
<1>6. ASSUME NEW v \in Users, NEW i \in 1..Len(places'[v]), places'[v][i].at > 0,
             NEW w \in Users, NEW j \in 1..Len(places'[w])
      PROVE  Alone(v, i, w, j)'
  <2>1. CASE places'[w][j].at = 0
    BY <1>6, <2>1 DEF Alone
  <2>2. CASE i \in 1..Len(places[v]) /\ places'[v][i] = places[v][i]
             /\ j \in 1..Len(places[w]) /\ places'[w][j] = places[w][j]
    <3>1. Alone(v, i, w, j)
      BY <2>2 DEF Ledger
    <3> QED BY <2>2, <3>1 DEF Alone
  <2>3. places'[v][i].at # 0
    BY <1>6
  <2> QED BY <1>4, <1>6, <2>1, <2>2, <2>3
<1>7. \A v, w \in Users : \A i \in 1..Len(places'[v]), j \in 1..Len(places'[w]) :
        Alone(v, i, w, j)'
  BY <1>6 DEF Alone
<1>8. ASSUME NEW c \in Conns, NEW n \in 1..Len(sent'[c])
      PROVE  Owned(c, n)'
  <2>0. PICK v \in Users : \E i \in 1..Len(places[v]) :
          places[v][i].conn = c /\ places[v][i].at = n
    BY <1>1, <1>8 DEF Ledger, Owned
  <2>1. PICK i \in 1..Len(places[v]) : places[v][i].conn = c /\ places[v][i].at = n
    BY <2>0
  <2>2. i \in 1..Len(places'[v]) /\ places'[v][i] = places[v][i]
    <3>1. Len(places[u]) \in Nat /\ k = Len(places[u]) + 1
      BY <1>3, Parts
    <3>2. CASE v = u
      BY <1>3, <3>1, <3>2
    <3>3. CASE v # u
      BY <1>3, <3>3
    <3> QED BY <3>2, <3>3
  <2> QED BY <2>1, <2>2 DEF Owned
<1> QED BY <1>5, <1>8, <1>7 DEF Ledger

\* A write enters the next input of its connection.
LEMMA LedgerWrites ==
  ASSUME Known, Known', Ledger, NEW u \in Users, NEW m, Writes(u, m)
  PROVE  Ledger'
<1>1. PICK c \in Conns, k \in 1..Len(places[u]), n \in Nat \ {0} :
        c = conn[u] /\ k = Last(u) /\ n = Len(sent[c]) + 1
  BY WriteEffect, Parts
<1>2. /\ m \in {RequestFor(calls[u][k]), Partial} /\ calls' = calls
      /\ \A v \in Users : Len(places'[v]) = Len(places[v])
      /\ places'[u][k].conn = c /\ places'[u][k].at = n
      /\ \A v \in Users : \A j \in 1..Len(places[v]) :
           v # u \/ j # k => places'[v][j] = places[v][j]
      /\ Len(sent[c]) \in Nat /\ Len(sent'[c]) = n /\ sent'[c][n] = m
      /\ \A i \in 1..Len(sent[c]) : sent'[c][i] = sent[c][i]
      /\ \A d \in Conns \ {c} : sent'[d] = sent[d]
      /\ places[u][k].at = 0
  BY <1>1, WriteEffect, Parts DEF Writes, Current
<1>3. ASSUME NEW v \in Users, NEW j \in 1..Len(places[v]), v # u \/ j # k
      PROVE  /\ places'[v][j] = places[v][j]
             /\ places[v][j].conn \in Conns /\ places[v][j].at \in Nat
             /\ places[v][j].at > 0 =>
                  /\ places[v][j].at \in 1..Len(sent[places[v][j].conn])
                  /\ sent[places[v][j].conn][places[v][j].at]
                       \in {RequestFor(calls[v][j]), Partial}
  <2>1. places[v][j].conn \in Conns /\ places[v][j].at \in Nat
    BY PlaceType, Parts
  <2>2. Entered(v, j) /\ Len(sent[places[v][j].conn]) \in Nat
    BY <2>1, Parts DEF Ledger
  <2> QED BY <1>2, <1>3, <2>1, <2>2 DEF Entered
<1>4. ASSUME NEW v \in Users, NEW j \in 1..Len(places[v])
      PROVE  Entered(v, j)'
  <2>0. RequestFor(calls[v][j])' = RequestFor(calls[v][j])
    BY <1>2 DEF RequestFor, GetFrame, SetFrame
  <2>1. CASE v = u /\ j = k
    BY <1>2, <2>0, <2>1 DEF Entered
  <2>2. CASE v # u \/ j # k
    <3>1. PICK d \in Conns, i \in Nat : d = places[v][j].conn /\ i = places[v][j].at
      BY <1>3, <2>2
    <3>2. places'[v][j].conn = d /\ places'[v][j].at = i
      BY <1>3, <2>2, <3>1
    <3>3. i > 0 => i \in 1..Len(sent[d]) /\ sent[d][i] \in {RequestFor(calls[v][j]), Partial}
      BY <1>3, <2>2, <3>1
    <3>4. i > 0 => i <= Len(sent'[d]) /\ sent'[d][i] = sent[d][i]
      <4>1. CASE d = c
        <5>1. n = Len(sent[c]) + 1 /\ Len(sent[c]) \in Nat /\ Len(sent'[c]) = n
              /\ \A x \in 1..Len(sent[c]) : sent'[c][x] = sent[c][x]
          BY <1>1, <1>2
        <5> QED BY <3>3, <4>1, <5>1
      <4>2. CASE d # c
        <5>1. sent'[d] = sent[d]
          BY <1>2, <4>2
        <5> QED BY <3>3, <5>1, Parts
      <4> QED BY <4>1, <4>2
    <3> QED BY <2>0, <3>2, <3>3, <3>4 DEF Entered
  <2> QED BY <2>1, <2>2
<1>5. ASSUME NEW v \in Users, NEW j \in 1..Len(places[v]), v # u \/ j # k,
             places'[v][j].conn = c
      PROVE  places'[v][j].at # n
  <2>1. PICK i \in Nat : i = places[v][j].at /\ places'[v][j].at = i /\ places[v][j].conn = c
    BY <1>3, <1>5
  <2>2. i > 0 => i \in 1..Len(sent[c])
    BY <1>3, <1>5, <2>1
  <2>3. n = Len(sent[c]) + 1 /\ Len(sent[c]) \in Nat
    BY <1>1, <1>2
  <2> QED BY <2>1, <2>2, <2>3
<1>6. ASSUME NEW v \in Users, NEW i \in 1..Len(places[v]),
             NEW w \in Users, NEW j \in 1..Len(places[w])
      PROVE  Alone(v, i, w, j)'
  <2>1. CASE (v = u /\ i = k) /\ (w # u \/ j # k)
    <3>1. places'[w][j].conn = c => places'[w][j].at # n
      BY <1>5, <2>1
    <3> QED BY <1>2, <2>1, <3>1 DEF Alone
  <2>2. CASE (v # u \/ i # k) /\ (w = u /\ j = k)
    <3>1. places'[v][i].conn = c => places'[v][i].at # n
      BY <1>5, <2>2
    <3> QED BY <1>2, <2>2, <3>1 DEF Alone
  <2>3. CASE (v # u \/ i # k) /\ (w # u \/ j # k)
    <3>1. places'[v][i] = places[v][i] /\ places'[w][j] = places[w][j]
      BY <1>3, <2>3
    <3> QED BY <3>1 DEF Alone, Ledger
  <2>4. CASE v = u /\ i = k /\ w = u /\ j = k
    BY <2>4 DEF Alone
  <2> QED BY <2>1, <2>2, <2>3, <2>4
<1>7. ASSUME NEW d \in Conns, NEW i \in 1..Len(sent'[d])
      PROVE  Owned(d, i)'
  <2>1. CASE d = c /\ i = n
    BY <1>2, <2>1 DEF Owned
  <2>2. CASE d # c \/ i # n
    <3>1. i \in 1..Len(sent[d])
      BY <1>1, <1>2, <1>7, <2>2
    <3>0. PICK v \in Users : \E j \in 1..Len(places[v]) :
            places[v][j].conn = d /\ places[v][j].at = i
      BY <3>1 DEF Ledger, Owned
    <3>2. PICK j \in 1..Len(places[v]) : places[v][j].conn = d /\ places[v][j].at = i
      BY <3>0
    <3>3. v # u \/ j # k
      BY <1>2, <3>1, <3>2
    <3>4. places'[v][j] = places[v][j] /\ j \in 1..Len(places'[v])
      BY <1>2, <1>3, <3>3
    <3> QED BY <3>2, <3>4 DEF Owned
  <2> QED BY <2>1, <2>2
<1> QED BY <1>2, <1>4, <1>6, <1>7 DEF Ledger

\* Every input is the request of one call, always.
THEOREM LedgerInvariant == CallSpec => []Ledger
<1>1. CallInit => Ledger
  <2> SUFFICES ASSUME CallInit
               PROVE  Ledger
    OBVIOUS
  <2>1. \A u \in Users : Len(places[u]) = 0
    BY EmptySeq DEF CallInit
  <2>2. \A c \in Conns : Len(sent[c]) = 0
    BY EmptySeq DEF CallInit, Init, AcceptorInit, Fresh
  <2> QED BY <2>1, <2>2 DEF Ledger
<1>2. Known /\ Known' /\ Ledger /\ [CallNext]_callVars => Ledger'
  <2> SUFFICES ASSUME Known, Known', Ledger, [CallNext]_callVars
               PROVE  Ledger'
    OBVIOUS
  <2>1. CASE UNCHANGED <<sent, calls, places>>
    BY <2>1 DEF Ledger, Entered, Alone, Owned
  <2> QED BY <2>1, RecordSteps, LedgerCall, LedgerWrites
<1> QED BY <1>1, <1>2, KnownInvariant, PTL DEF CallSpec

-----------------------------------------------------------------------------
(* What a caller reads is the answer to its call                           *)

NoReply(c) == taken[c] = Len(out[c])

OwnReply(c) ==
  taken[c] + 1 = Len(out[c]) /\ Len(out[c]) = parsed[c] /\ parsed[c] = Len(sent[c])

ErrorReply(c) ==
  /\ stage[c] \in {"unguarded", "released", "ended"}
  /\ taken[c] + 1 = Len(out[c]) /\ out[c][Len(out[c])] = ErrorFrame

\* The call under way has its place on the requester's connection, as the last.
Here(u) ==
  phase[u] \in {"writing", "reading"} =>
    /\ places[u][Last(u)].conn = conn[u]
    /\ Written(u) => places[u][Last(u)].at = Len(sent[conn[u]])

\* The call under way is the one without a result.
Waits(u) ==
  \A i \in 1..Len(results[u]) :
    results[u][i] = Pending <=> i = Last(u) /\ phase[u] \in {"writing", "reading"}

\* All that a requester can find on its connection is the answer to the call under
\* way, or the last word of a server that is gone.
Expects(u) ==
  phase[u] \in {"idle", "writing", "reading"} =>
    /\ \/ peer[conn[u]] = "gone"
       \/ NoReply(conn[u])
       \/ ErrorReply(conn[u])
       \/ phase[u] = "reading" /\ Written(u) /\ OwnReply(conn[u])
    /\ phase[u] = "reading" => Written(u) \/ Dead(conn[u])

\* A call that returned an answer was served, and its answer was written.
Returned(u) ==
  \A i \in 1..Len(results[u]) :
    results[u][i] \notin {Pending, Failed} =>
      /\ places[u][i].at \in 1..parsed[places[u][i].conn]
      /\ places[u][i].at <= Len(out[places[u][i].conn])

\* What a step means for a user that does not take it: nothing but that its
\* connection may be served or break.
LEMMA Bystander ==
  ASSUME Known, Known', [CallNext]_callVars, NEW w \in Users, ~User(w)
  PROVE  /\ phase'[w] = phase[w] /\ conn'[w] = conn[w] /\ calls'[w] = calls[w]
         /\ results'[w] = results[w] /\ places'[w] = places[w]
         /\ phase[w] # "away" =>
              /\ sent'[conn[w]] = sent[conn[w]] /\ taken'[conn[w]] = taken[conn[w]]
              /\ \/ Untouched(conn[w])
                 \/ peer'[conn[w]] = peer[conn[w]] /\ Moved(conn[w])
<1>0. /\ ConnType /\ CallLog /\ OwnConn /\ AcceptorTypeOK /\ HandlerTypeOK
      /\ HandlerTypeOK' /\ BacklogIsQueued
  BY Parts DEF Known, Layer1, TypeOK, AcceptorTypeOK
<1>1. CASE ServerStep /\ UNCHANGED users
  <2>1. ASSUME phase[w] # "away"
        PROVE  /\ sent'[conn[w]] = sent[conn[w]] /\ taken'[conn[w]] = taken[conn[w]]
               /\ \/ Untouched(conn[w])
                  \/ peer'[conn[w]] = peer[conn[w]] /\ Moved(conn[w])
    <3>1. PICK c \in Conns : c = conn[w]
      BY <1>0, <2>1, HasConn
    <3>2. UNCHANGED client /\ (Same(c) \/ Moved(c))
      BY <1>0, <1>1, ServerEffect
    <3> QED BY <3>1, <3>2 DEF client, Untouched
  <2> QED BY <1>1, <2>1 DEF users
<1>2. ASSUME NEW u \in Users, User(u)
      PROVE  /\ phase'[w] = phase[w] /\ conn'[w] = conn[w] /\ calls'[w] = calls[w]
             /\ results'[w] = results[w] /\ places'[w] = places[w]
             /\ phase[w] # "away" => Untouched(conn[w])
  <2>1. u # w
    BY <1>2
  <2>2. phase[w] # "away" => Untouched(conn[w])
    BY <1>0, <1>2, <2>1, HasConn, UserElsewhere DEF OwnConn
  <2> QED BY <1>0, <1>2, <2>1, <2>2, OthersKeep
<1>3. ASSUME NEW c \in Conns, Break(c)
      PROVE  UNCHANGED users /\ (phase[w] # "away" => Untouched(conn[w]))
  <2>1. Reset(c) /\ UNCHANGED users
    BY <1>3 DEF Break
  <2>2. phase[w] # "away" => conn[w] \in Conns
    BY <1>0, HasConn
  <2> QED BY <1>0, <2>1, <2>2, Elsewhere
<1>4. CASE UNCHANGED callVars
  BY <1>4 DEF callVars, vars, users, handlerVars, client, input, output, Untouched, Same
<1> QED BY <1>1, <1>2, <1>3, <1>4 DEF CallNext, users, Untouched

\* Its place stays the last one.
LEMMA HereStep ==
  ASSUME Known, Known', [CallNext]_callVars, NEW w \in Users, Here(w)
  PROVE  Here(w)'
<1>1. CASE ~User(w)
  BY <1>1, Bystander DEF Here, Last, Written
<1>2. CASE User(w) /\ ~Call(w) /\ ~(\E m : Writes(w, m))
  <2>1. phase'[w] \in {"writing", "reading"} =>
          /\ phase[w] \in {"writing", "reading"} /\ conn'[w] = conn[w]
          /\ UNCHANGED <<sent, calls, places>>
    <3>1. CASE WriteInVain(w)
      BY <3>1, Parts DEF WriteInVain, Go, ConnType, vars, handlerVars, client
    <3>2. CASE GiveUpWriting(w) \/ GiveUpReading(w)
      BY <3>2, Parts DEF GiveUpWriting, GiveUpReading, Go, ConnType
    <3>3. CASE WriteError(w) \/ ReadError(w) \/ ReadResponse(w)
      BY <3>3, Parts DEF WriteError, ReadError, ReadResponse, Go, ConnType
    <3>4. CASE Drop(w) \/ \E c \in Conns : Open(w, c)
      BY <3>4, Parts DEF Drop, Open, Go, ConnType
    <3>5. ~Overrun(w) /\ ~WriteRequest(w)
      BY <1>2 DEF Overrun, WriteRequest, Go, Writes
    <3> QED BY <1>2, <3>1, <3>2, <3>3, <3>4, <3>5 DEF User, Exchange
  <2> QED BY <2>1 DEF Here, Last, Written
<1>3. CASE Call(w)
  <2>1. /\ Last(w)' = Len(calls'[w]) /\ places'[w][Len(calls'[w])].at = 0
        /\ places'[w][Len(calls'[w])].conn = conn[w] /\ conn' = conn
    BY <1>3, Parts, CallRecorded DEF Call, Last
  <2> QED BY <2>1 DEF Here, Written
<1>4. ASSUME NEW m, Writes(w, m)
      PROVE  Here(w)'
  <2>1. conn'[w] = conn[w] \/ phase'[w] \notin {"writing", "reading"}
    BY <1>2, <1>3, <1>4, Bystander, Parts DEF User, Exchange, Open, Call, Overrun, WriteRequest, WriteInVain, WriteError,
           ReadResponse, ReadError, GiveUpWriting, GiveUpReading, Drop, Go, ConnType, Phases
  <2>2. Last(w)' = Last(w) /\ conn[w] \in Conns
    BY <1>4, WriteEffect DEF Writes, Last
  <2>3. places'[w][Last(w)].conn = conn[w] /\ places'[w][Last(w)].at = Len(sent'[conn[w]])
    BY <1>4, WriteEffect
  <2> QED BY <2>1, <2>2, <2>3 DEF Here
<1> QED BY <1>1, <1>2, <1>3, <1>4

\* The call under way stays the one without a result.
LEMMA WaitsStep ==
  ASSUME Known, Known', [CallNext]_callVars, NEW w \in Users, Waits(w)
  PROVE  Waits(w)'
<1>0. ConnType /\ CallLog /\ HandlerTypeOK /\ Len(results[w]) = Len(calls[w])
      /\ Len(calls[w]) \in Nat
  BY Parts
<1>1. CASE ~User(w)
  BY <1>1, Bystander DEF Waits, Last
<1>2. ASSUME NEW result \in Reply \cup {Failed}, Return(w, result),
             phase[w] \in {"writing", "reading"}, calls' = calls,
             phase'[w] \notin {"writing", "reading"}
      PROVE  Waits(w)'
  <2>1. result # Pending /\ result \in Reply \cup {Pending, Failed}
    BY RequesterAssumption
  <2>2. /\ Len(results'[w]) = Len(results[w]) /\ results'[w][Last(w)] = result
        /\ \A j \in 1..Len(results[w]) \ {Last(w)} : results'[w][j] = results[w][j]
    BY <1>0, <1>2, <2>1, ReturnLog
  <2> QED BY <1>2, <2>1, <2>2 DEF Waits, Last
<1>3. CASE WriteError(w) \/ ReadError(w) \/ GiveUpWriting(w) \/ GiveUpReading(w)
  <2>1. /\ Return(w, Failed) /\ phase[w] \in {"writing", "reading"} /\ calls' = calls
        /\ phase'[w] \in {"idle", "stale"}
    BY <1>0, <1>3 DEF WriteError, ReadError, GiveUpWriting, GiveUpReading, Go, ConnType
  <2> QED BY <1>2, <2>1
<1>4. CASE ReadResponse(w)
  <2>1. PICK c \in Conns, n \in Nat : c = conn[w] /\ n = taken[c] + 1
    BY <1>0, <1>4, HasConn DEF ReadResponse, Go, HandlerTypeOK
  <2>2. out[c] \in Seq(Reply) /\ n \in 1..Len(out[c])
    BY <1>0, <1>4, <2>1, Parts DEF ReadResponse, ReadReply, HandlerTypeOK
  <2>3. out[c][n] \in Reply
    BY <2>2, ElementOfSeq
  <2>4. PICK result : result = Interpret(Current(w), out[c][n])
    OBVIOUS
  <2>5. result \in Reply \cup {Failed}
    BY <2>3, <2>4 DEF Interpret
  <2>6. /\ Return(w, result) /\ phase[w] \in {"writing", "reading"} /\ calls' = calls
        /\ phase'[w] = "idle"
    BY <1>0, <1>4, <2>1, <2>4 DEF ReadResponse, Go, ConnType
  <2> QED BY <1>2, <2>5, <2>6
<1>5. CASE Overrun(w) \/ WriteRequest(w) \/ WriteInVain(w)
  <2>1. /\ UNCHANGED <<calls, results>> /\ phase[w] \in {"writing", "reading"}
        /\ phase'[w] \in {"writing", "reading"}
    BY <1>0, <1>5 DEF Overrun, WriteRequest, WriteInVain, Go, ConnType
  <2> QED BY <2>1 DEF Waits, Last
<1>6. CASE Drop(w) \/ \E c \in Conns : Open(w, c)
  <2>1. /\ UNCHANGED <<calls, results>> /\ phase[w] \notin {"writing", "reading"}
        /\ phase'[w] \notin {"writing", "reading"}
    BY <1>0, <1>6 DEF Drop, Open, Go, ConnType
  <2> QED BY <2>1 DEF Waits, Last
<1>7. CASE Call(w)
  <2>1. PICK n \in Nat : n = Len(calls[w])
    BY <1>0
  <2>2. /\ phase[w] = "idle" /\ phase'[w] = "writing"
        /\ Len(calls'[w]) = n + 1 /\ results'[w][n + 1] = Pending
        /\ \A j \in 1..n : results'[w][j] = results[w][j]
    <3>1. phase[w] = "idle" /\ phase'[w] = "writing"
      BY <1>0, <1>7 DEF Call, Go, ConnType
    <3>2. Len(calls'[w]) = n + 1
      BY <1>0, <1>7, <2>1, CallRecorded
    <3> QED BY <1>0, <1>7, <2>1, <3>1, <3>2, CallRecorded
  <2>3. Len(results'[w]) = n + 1
    BY <2>2, Parts DEF Known, CallLog
  <2>4. \A j \in 1..n : results[w][j] # Pending
    BY <1>0, <2>1, <2>2 DEF Waits
  <2>5. \A j \in 1..(n + 1) : j = n + 1 \/ j \in 1..n
    OBVIOUS
  <2> QED BY <2>2, <2>3, <2>4, <2>5 DEF Waits, Last
<1> QED BY <1>1, <1>3, <1>4, <1>5, <1>6, <1>7 DEF User, Exchange

\* What the server does to a connection leaves its requester expecting.
LEMMA ExpectsMoved ==
  ASSUME Known, Known', [CallNext]_callVars, NEW w \in Users, ~User(w), Expects(w),
         phase[w] \in {"idle", "writing", "reading"}
  PROVE  Expects(w)'
<1>1. PICK c \in Conns : c = conn[w]
  BY Parts, HasConn
<1>2. /\ phase'[w] = phase[w] /\ conn'[w] = c /\ Written(w)' = Written(w)
      /\ sent'[c] = sent[c] /\ taken'[c] = taken[c]
      /\ Untouched(c) \/ (peer'[c] = peer[c] /\ Moved(c))
  <2>1. phase[w] # "away" /\ phase'[w] = phase[w] /\ conn'[w] = c
        /\ calls'[w] = calls[w] /\ places'[w] = places[w]
        /\ sent'[c] = sent[c] /\ taken'[c] = taken[c]
        /\ (Untouched(c) \/ (peer'[c] = peer[c] /\ Moved(c)))
    BY <1>1, Bystander
  <2>2. Written(w)' = Written(w)
    BY <2>1 DEF Written, Last
  <2> QED BY <2>1, <2>2
<1>3. /\ out[c] \in Seq(Reply) /\ reply[c] \in Seq(Reply)
      /\ Len(out[c]) \in Nat /\ taken[c] \in Nat /\ parsed[c] \in Nat /\ Len(sent[c]) \in Nat
      /\ Progressed(c) /\ Turn(w)
  BY Parts DEF HandlerTypeOK
<1>4. CASE peer[c] = "gone"
  <2>1. peer'[c] = "gone"
    BY <1>2, <1>4 DEF Untouched
  <2> QED BY <1>2, <2>1 DEF Expects, Dead
<1>5. ASSUME Dead(c)
      PROVE  Dead(c)'
  BY <1>2, <1>5 DEF Dead, Untouched, Same, Moved
<1>6. ASSUME \/ peer'[c] = "gone" \/ NoReply(c)' \/ ErrorReply(c)'
             \/ (phase[w] = "reading" /\ Written(w) /\ OwnReply(c)')
      PROVE  Expects(w)'
  <2>1. phase[w] = "reading" => Written(w) \/ Dead(c)'
    BY <1>1, <1>5 DEF Expects
  <2> QED BY <1>2, <1>6, <2>1 DEF Expects, NoReply, ErrorReply, OwnReply, Dead
<1>7. CASE Untouched(c)
  <2>1. \/ peer[c] = "gone" \/ NoReply(c) \/ ErrorReply(c)
        \/ (phase[w] = "reading" /\ Written(w) /\ OwnReply(c))
    BY <1>1 DEF Expects
  <2>2. /\ stage'[c] = stage[c] /\ parsed'[c] = parsed[c] /\ out'[c] = out[c]
        /\ sent'[c] = sent[c] /\ taken'[c] = taken[c] /\ peer'[c] \in {peer[c], "gone"}
    BY <1>7 DEF Untouched, Same
  <2> QED BY <1>6, <2>1, <2>2 DEF NoReply, ErrorReply, OwnReply
<1>8. CASE peer[c] # "gone" /\ peer'[c] = peer[c] /\ Moved(c)
  <2>1. /\ stage[c] \in {"unguarded", "released", "ended"} =>
             stage'[c] \in {"unguarded", "released", "ended"}
        /\ \/ /\ out'[c] = out[c]
              /\ \/ parsed'[c] = parsed[c]
                 \/ parsed[c] < Len(sent[c])
           \/ /\ stage[c] = "writing" /\ parsed'[c] = parsed[c]
              /\ out'[c] = out[c] \o reply[c]
           \/ /\ stage[c] = "reporting" /\ parsed'[c] = parsed[c]
              /\ out'[c] = out[c] \o reply[c]
              /\ stage'[c] \in {"unguarded", "released", "ended"}
    BY <1>8 DEF Moved, HeadIs, Unread
  <2>2. \/ NoReply(c) \/ ErrorReply(c)
        \/ (phase[w] = "reading" /\ Written(w) /\ OwnReply(c))
    BY <1>1, <1>8 DEF Expects
  <2>3. CASE out'[c] = out[c]
    <3>1. NoReply(c) => NoReply(c)'
      BY <1>2, <2>3 DEF NoReply
    <3>2. ErrorReply(c) => ErrorReply(c)'
      BY <1>2, <2>1, <2>3 DEF ErrorReply
    <3>3. OwnReply(c) => parsed'[c] = parsed[c]
      <4>1. OwnReply(c) => stage[c] # "writing" /\ ~(parsed[c] < Len(sent[c]))
        BY <1>3 DEF OwnReply, Progressed
      <4> QED BY <2>1, <4>1
    <3>4. OwnReply(c) => OwnReply(c)'
      BY <1>2, <2>3, <3>3 DEF OwnReply
    <3> QED BY <1>6, <2>2, <3>1, <3>2, <3>4
  <2>4. CASE stage[c] = "writing" /\ parsed'[c] = parsed[c] /\ out'[c] = out[c] \o reply[c]
    <3>1. /\ Len(reply[c]) = 1 /\ Len(out[c]) + 1 = parsed[c]
          /\ ~Dead(c) /\ ~ErrorReply(c) /\ ~OwnReply(c)
      BY <1>3, <1>8, <2>4 DEF Progressed, Dead, ErrorReply, OwnReply
    <3>2. NoReply(c) /\ phase[w] = "reading" /\ parsed[c] = Len(sent[c])
      <4>1. NoReply(c)
        BY <2>2, <3>1
      <4>2. ~Quiet(c) /\ ~Refused(c) /\ ~Requested(c) /\ ~Replied(c)
        BY <1>3, <2>4, <3>1, <4>1 DEF Quiet, Refused, Requested, Replied, NoReply
      <4>3. phase[w] = "reading" /\ Executing(c)
        <5>1. phase[w] # "idle"
          BY <1>1, <1>3, <3>1, <4>2 DEF Turn, Dead, Quiet
        <5>2. phase[w] # "writing"
          BY <1>1, <1>3, <3>1, <4>2 DEF Turn, Dead, Quiet, Refused
        <5> QED BY <1>1, <1>3, <3>1, <4>2, <5>1, <5>2 DEF Turn, Dead
      <4> QED BY <4>1, <4>3 DEF Executing
    <3>3. Written(w)
      BY <1>1, <3>1, <3>2 DEF Expects
    <3>4. Len(out'[c]) = Len(out[c]) + 1
      <4>1. Len(out[c] \o reply[c]) = Len(out[c]) + Len(reply[c])
        BY ONLY <1>3, ConcatProperties
      <4>2. Len(out'[c]) = Len(out[c]) + Len(reply[c])
        BY ONLY <2>4, <4>1, Zenon
      <4> QED BY <3>1, <4>2
    <3>5. OwnReply(c)'
      BY <1>2, <1>3, <2>4, <3>1, <3>2, <3>4 DEF OwnReply, NoReply
    <3> QED BY <1>6, <3>2, <3>3, <3>5
  <2>5. CASE /\ stage[c] = "reporting" /\ parsed'[c] = parsed[c] /\ out'[c] = out[c] \o reply[c]
             /\ stage'[c] \in {"unguarded", "released", "ended"}
    <3>1. /\ reply[c] = <<ErrorFrame>> /\ Len(out[c]) = parsed[c]
          /\ parsed[c] < Len(sent[c]) /\ ~ErrorReply(c) /\ ~OwnReply(c)
      BY <1>3, <1>8, <2>5 DEF Progressed, HeadIs, Unread, ErrorReply, OwnReply
    <3>2. out'[c] = Append(out[c], ErrorFrame)
      BY <2>5, <3>1, Parts, Replies
    <3>3. Len(out'[c]) = Len(out[c]) + 1 /\ out'[c][Len(out[c]) + 1] = ErrorFrame
      BY <1>3, <3>2, AppendProperties
    <3>4. ErrorReply(c)'
      BY <1>2, <2>2, <2>5, <3>1, <3>3 DEF ErrorReply, NoReply
    <3> QED BY <1>6, <3>4
  <2> QED BY <2>1, <2>3, <2>4, <2>5
<1> QED BY <1>2, <1>4, <1>7, <1>8

\* What the requester does leaves it expecting.
LEMMA ExpectsOwn ==
  ASSUME Known, Known', NEW w \in Users, User(w), Expects(w)
  PROVE  Expects(w)'
<1>0. ConnType /\ CallLog /\ OwnConn /\ HandlerTypeOK
  BY Parts
<1>1. CASE \E c \in Conns : Open(w, c)
  <2>1. PICK c \in Conns : Open(w, c)
    BY <1>1
  <2>2. /\ conn'[w] = c /\ phase'[w] = "idle" /\ UNCHANGED <<out, taken>> /\ stage[c] = "away"
    BY <1>0, <2>1 DEF Open, Go, Connect, MoveTo, client, output, ConnType
  <2>3. Len(out[c]) = 0 /\ taken[c] = 0
    BY <2>2, Parts, EmptySeq DEF ConnState
  <2> QED BY <2>2, <2>3 DEF Expects, NoReply
<1>2. CASE GiveUpWriting(w) \/ GiveUpReading(w) \/ Drop(w)
  <2>1. phase'[w] \in {"stale", "away"}
    BY <1>0, <1>2 DEF GiveUpWriting, GiveUpReading, Drop, Go, ConnType
  <2> QED BY <2>1 DEF Expects
<1>3. CASE Call(w) \/ WriteError(w)
  <2>1. /\ phase[w] \in {"idle", "writing"} /\ phase'[w] \in {"idle", "writing"}
        /\ conn'[w] = conn[w]
        /\ UNCHANGED <<stage, peer, out, taken>>
    BY <1>0, <1>3 DEF Call, WriteError, Go, ConnType, vars, handlerVars, client, output
  <2> QED BY <2>1 DEF Expects, NoReply, ErrorReply
<1>4. CASE WriteInVain(w)
  <2>1. /\ phase[w] = "writing" /\ phase'[w] = "reading" /\ conn'[w] = conn[w]
        /\ UNCHANGED <<stage, peer, out, taken>> /\ Written(w)' = Written(w)
        /\ Written(w) \/ ~Reachable(conn[w])
    BY <1>0, <1>4 DEF WriteInVain, Go, ConnType, vars, handlerVars, client, output, Written, Last
  <2>2. Written(w) \/ Dead(conn[w])
    BY <1>0, <2>1 DEF OwnConn, Reachable, Dead
  <2> QED BY <2>1, <2>2 DEF Expects, NoReply, ErrorReply, Dead
<1>5. CASE Overrun(w) \/ WriteRequest(w)
  <2>1. /\ phase[w] = "writing" /\ phase'[w] \in {"writing", "reading"} /\ conn'[w] = conn[w]
        /\ \E m : Writes(w, m)
    BY <1>0, <1>5 DEF Overrun, WriteRequest, Go, ConnType, Writes
  <2>2. UNCHANGED <<stage, peer, out, taken>> /\ Written(w)'
    <3>1. PICK m : Writes(w, m)
      BY <2>1
    <3>2. Len(sent[conn[w]]) \in Nat
      BY <3>1, WriteEffect, Parts
    <3> QED BY <3>1, <3>2, WriteEffect DEF Written, Writes, Last
  <2> QED BY <2>1, <2>2 DEF Expects, NoReply, ErrorReply
<1>6. CASE ReadResponse(w)
  <2>1. /\ phase[w] = "reading" /\ phase'[w] = "idle" /\ conn'[w] = conn[w] /\ conn[w] \in Conns
        /\ UNCHANGED <<stage, peer, out>> /\ ReadReply(conn[w])
    BY <1>0, <1>6, HasConn DEF ReadResponse, Go, ConnType, ReadReply, output
  <2>2. PICK c \in Conns : c = conn[w]
    BY <2>1
  <2>3. peer[c] # "gone" /\ taken[c] < Len(out[c]) /\ taken'[c] = taken[c] + 1
    BY <1>0, <2>1, <2>2 DEF ReadReply, HandlerTypeOK
  <2>4. NoReply(c)'
    <3>1. taken[c] + 1 = Len(out[c])
      BY <2>1, <2>2, <2>3, Parts DEF Expects, NoReply, ErrorReply, OwnReply
    <3> QED BY <2>1, <2>3, <3>1 DEF NoReply
  <2> QED BY <2>1, <2>2, <2>4 DEF Expects, NoReply
<1>7. CASE ReadError(w)
  <2>1. /\ phase[w] = "reading" /\ phase'[w] = "idle" /\ conn'[w] = conn[w] /\ conn[w] \in Conns
        /\ UNCHANGED <<stage, peer, out, taken>>
        /\ \/ taken[conn[w]] = Len(out[conn[w]]) \/ Unread(conn[w])
           \/ peer[conn[w]] = "gone" \/ ~Written(w)
    BY <1>0, <1>7, HasConn DEF ReadError, Go, ConnType, vars, handlerVars, client, output
  <2>2. Written(w) /\ OwnReply(conn[w]) =>
          peer[conn[w]] = "gone" \/ taken[conn[w]] = Len(out[conn[w]])
    BY <2>1, Parts DEF OwnReply, Unread
  <2> QED BY <2>1, <2>2 DEF Expects, NoReply, ErrorReply
<1> QED BY <1>1, <1>2, <1>3, <1>4, <1>5, <1>6, <1>7 DEF User, Exchange

\* What is served and written grows.
LEMMA Grows ==
  ASSUME Known, [CallNext]_callVars, NEW d \in Conns
  PROVE  /\ Settles(d) /\ parsed[d] <= parsed'[d]
         /\ \A n \in 1..parsed[d] : n <= Len(out[d]) => n <= Len(out'[d])
<1>1. CASE \A c \in Conns : ~Serve(c)
  <2>1. Layer1 /\ AllProgressed /\ [Next]_vars
    BY StepOfServer DEF Known
  <2> QED BY <1>1, <2>1, NextSettles, Parts DEF Rests
<1>2. ASSUME NEW c \in Conns, Serve(c)
      PROVE  /\ Settles(d) /\ parsed[d] <= parsed'[d] /\ out' = out
  <2>1. PICK k \in Nat : k = parsed[c] + 1
    BY Parts
  <2>2. Settles(d) /\ out' = out /\ parsed' = [parsed EXCEPT ![c] = k]
    BY <1>2, <2>1, ServeSettles, Parts
  <2>3. parsed \in [Conns -> Nat]
    BY Parts DEF HandlerTypeOK
  <2>4. parsed[d] <= parsed'[d]
    BY ONLY <1>2, <2>1, <2>2, <2>3
  <2> QED BY <2>2, <2>4
<1> QED BY <1>1, <1>2

\* What a caller reads is the answer the server gave to its call, or the error
\* that ends the connection.
LEMMA Reads ==
  ASSUME Known, NEW u \in Users, Here(u), Expects(u), ReadResponse(u),
         NEW c \in Conns, c = conn[u], NEW k, k = Last(u)
  PROVE  /\ phase[u] = "reading" /\ UNCHANGED <<sent, parsed, out, reply, stage, store>>
         /\ \/ Return(u, Failed)
            \/ \E n \in 1..parsed[c] :
                 /\ places[u][k].conn = c /\ places[u][k].at = n /\ n = Len(out[c])
                 /\ Executed(c)[n] \in Reply
                 /\ Return(u, Interpret(calls[u][k], Executed(c)[n]))
<1>1. /\ phase[u] = "reading" /\ UNCHANGED <<sent, parsed, out, reply, stage, store>>
      /\ peer[c] # "gone" /\ taken[c] < Len(out[c])
      /\ Return(u, Interpret(calls[u][k], out[c][taken[c] + 1]))
  BY DEF ReadResponse, Go, ReadReply, Current, input, output
<1>2. /\ out[c] \in Seq(Reply) /\ reply[c] \in Seq(Reply)
      /\ Len(out[c]) \in Nat /\ parsed[c] \in Nat /\ taken[c] \in Nat
  BY Parts DEF HandlerTypeOK
<1>3. taken[c] + 1 = Len(out[c])
      /\ (out[c][Len(out[c])] = ErrorFrame \/ (Written(u) /\ OwnReply(c)))
  <2>1. NoReply(c) \/ ErrorReply(c) \/ (Written(u) /\ OwnReply(c))
    BY <1>1 DEF Expects
  <2> QED BY <1>1, <1>2, <2>1 DEF NoReply, ErrorReply, OwnReply
<1>4. CASE out[c][Len(out[c])] = ErrorFrame
  <2>1. Interpret(calls[u][k], ErrorFrame) = Failed
    BY DEF Interpret, ErrorFrame, OkFrame
  <2> QED BY <1>1, <1>3, <1>4, <2>1
<1>5. CASE Written(u) /\ OwnReply(c)
  <2>1. PICK n \in Nat : n = Len(out[c])
    BY <1>2
  <2>2. n \in 1..parsed[c] /\ taken[c] + 1 = n
    BY <1>2, <1>3, <1>5, <2>1 DEF OwnReply
  <2>3. places[u][k].conn = c /\ places[u][k].at = n
    BY <1>1, <1>5, <2>1 DEF Here, OwnReply
  <2>4. out[c][n] \in Reply
    BY <1>2, <2>1, <2>2, ElementOfSeq
  <2>5. (out[c] \o reply[c])[n] = out[c][n]
    <3>1. n \in 1..Len(out[c])
      BY <1>2, <2>1, <2>2
    <3> QED BY ONLY <1>2, <3>1, Longer
  <2>6. Executed(c)[n] = out[c][n]
    BY <2>5 DEF Executed
  <2>7. Return(u, Interpret(calls[u][k], Executed(c)[n]))
    BY <1>1, <2>2, <2>6
  <2> QED BY <1>1, <2>1, <2>2, <2>3, <2>4, <2>6, <2>7
<1> QED BY <1>3, <1>4, <1>5

\* A call that returned an answer stays served, and one that returns its answer
\* is.
LEMMA ReturnedStep ==
  ASSUME Known, Known', [CallNext]_callVars, NEW w \in Users,
         Here(w), Waits(w), Expects(w), Returned(w)
  PROVE  Returned(w)'
<1>0. ConnType /\ CallLog /\ HandlerTypeOK /\ Len(results[w]) = Len(calls[w])
      /\ Len(places[w]) = Len(calls[w]) /\ Len(calls[w]) \in Nat
  BY Parts
<1>1. ASSUME NEW i \in 1..Len(results[w]), results[w][i] \notin {Pending, Failed},
             places'[w][i] = places[w][i]
      PROVE  /\ places'[w][i].at \in 1..parsed'[places'[w][i].conn]
             /\ places'[w][i].at <= Len(out'[places'[w][i].conn])
  <2>1. PICK d \in Conns, n \in Nat : d = places[w][i].conn /\ n = places[w][i].at
    BY <1>0, <1>1, PlaceType
  <2>2. n \in 1..parsed[d] /\ n <= Len(out[d])
    BY <1>1, <2>1 DEF Returned
  <2>3. parsed[d] <= parsed'[d] /\ n <= Len(out'[d]) /\ parsed[d] \in Nat /\ parsed'[d] \in Nat
    BY <2>2, Grows, Parts DEF Known, Layer1, TypeOK, AcceptorTypeOK, HandlerTypeOK
  <2> QED BY <1>1, <2>1, <2>2, <2>3
<1>2. CASE UNCHANGED <<results, places>>
  BY <1>1, <1>2 DEF Returned
<1>3. CASE ~User(w)
  <2>1. results'[w] = results[w] /\ places'[w] = places[w]
    BY <1>3, Bystander
  <2> QED BY <1>1, <2>1 DEF Returned
<1>4. ASSUME User(w),
             \A i \in 1..Len(results'[w]) :
               \/ results'[w][i] \in {Pending, Failed}
               \/ /\ i \in 1..Len(results[w]) /\ results'[w][i] = results[w][i]
                  /\ places'[w][i] = places[w][i]
      PROVE  Returned(w)'
  BY <1>1, <1>4 DEF Returned
<1>5. CASE Call(w)
  <2>1. PICK n \in Nat : n = Len(calls[w])
    BY <1>0
  <2>2. Len(calls'[w]) = n + 1
    BY <1>0, <1>5, <2>1, CallRecorded
  <2>3. /\ Len(results'[w]) = n + 1 /\ results'[w][n + 1] = Pending
        /\ \A j \in 1..n : results'[w][j] = results[w][j] /\ places'[w][j] = places[w][j]
    <3>1. Len(results'[w]) = n + 1
      BY <2>2, Parts DEF Known, CallLog
    <3> QED BY <1>0, <1>5, <2>1, <2>2, <3>1, CallRecorded
  <2>4. \A j \in 1..(n + 1) : j = n + 1 \/ j \in 1..n
    OBVIOUS
  <2> QED BY <1>0, <1>4, <1>5, <2>1, <2>3, <2>4 DEF User
<1>6. ASSUME phase[w] \in {"writing", "reading"}, Return(w, Failed), User(w),
             places' = places \/ (\E m : Writes(w, m))
      PROVE  Returned(w)'
  <2>1. /\ Len(results'[w]) = Len(results[w]) /\ results'[w][Last(w)] = Failed
        /\ \A j \in 1..Len(results[w]) \ {Last(w)} : results'[w][j] = results[w][j]
    BY <1>0, <1>6, ReturnLog
  <2>2. \A j \in 1..Len(places[w]) \ {Last(w)} : places'[w][j] = places[w][j]
    BY <1>6, WriteEffect
  <2> QED BY <1>0, <1>4, <1>6, <2>1, <2>2
<1>7. CASE WriteError(w) \/ ReadError(w) \/ GiveUpWriting(w) \/ GiveUpReading(w)
  <2>1. /\ Return(w, Failed) /\ phase[w] \in {"writing", "reading"}
        /\ places' = places \/ (\E m : Writes(w, m))
    BY <1>7 DEF WriteError, ReadError, GiveUpWriting, GiveUpReading, Go, Writes
  <2> QED BY <1>6, <1>7, <2>1 DEF User, Exchange
<1>8. CASE Overrun(w) \/ WriteRequest(w)
  <2>1. phase[w] = "writing" /\ results' = results /\ \E m : Writes(w, m)
    BY <1>8 DEF Overrun, WriteRequest, Go, Writes
  <2>2. \A j \in 1..Len(places[w]) \ {Last(w)} : places'[w][j] = places[w][j]
    BY <2>1, WriteEffect
  <2>3. Last(w) \in 1..Len(results[w]) => results[w][Last(w)] = Pending
    BY <2>1 DEF Waits
  <2> QED BY <1>0, <1>4, <1>8, <2>1, <2>2, <2>3 DEF User, Exchange
<1>9. CASE ReadResponse(w)
  <2>1. PICK c \in Conns, k \in 1..Len(places[w]) : c = conn[w] /\ k = Last(w)
    BY <1>0, <1>9, HasConn, Underway DEF ReadResponse, Go
  <2>2. phase[w] = "reading" /\ UNCHANGED <<parsed, out, places>>
    BY <1>9, <2>1, Reads DEF ReadResponse
  <2>3. PICK result \in Reply \cup {Failed} :
          /\ Return(w, result)
          /\ result # Failed => /\ places[w][k].conn = c /\ places[w][k].at \in 1..parsed[c]
                                /\ places[w][k].at <= Len(out[c])
    <3>1. CASE Return(w, Failed)
      BY <3>1
    <3>2. CASE ~Return(w, Failed)
      <4>1. PICK n \in 1..parsed[c] :
              /\ places[w][k].conn = c /\ places[w][k].at = n /\ n = Len(out[c])
              /\ Executed(c)[n] \in Reply
              /\ Return(w, Interpret(calls[w][k], Executed(c)[n]))
        BY <1>9, <2>1, <3>2, Reads
      <4>2. PICK result : result = Interpret(calls[w][k], Executed(c)[n])
        OBVIOUS
      <4>3. result \in Reply \cup {Failed}
        BY <4>1, <4>2 DEF Interpret
      <4> QED BY <4>1, <4>2, <4>3
    <3> QED BY <3>1, <3>2
  <2>4. /\ Len(results'[w]) = Len(results[w]) /\ results'[w][k] = result
        /\ \A j \in 1..Len(results[w]) \ {k} : results'[w][j] = results[w][j]
    <3>1. result \in Reply \cup {Pending, Failed}
      OBVIOUS
    <3> QED BY <1>0, <2>1, <2>2, <2>3, <3>1, ReturnLog
  <2>5. ASSUME NEW i \in 1..Len(results'[w]), results'[w][i] \notin {Pending, Failed}
        PROVE  /\ places'[w][i].at \in 1..parsed'[places'[w][i].conn]
               /\ places'[w][i].at <= Len(out'[places'[w][i].conn])
    <3>1. CASE i = k
      BY <2>2, <2>3, <2>4, <2>5, <3>1
    <3>2. CASE i # k
      BY <1>1, <2>2, <2>4, <2>5, <3>2
    <3> QED BY <3>1, <3>2
  <2> QED BY <2>5 DEF Returned
<1>10. CASE WriteInVain(w) \/ Drop(w) \/ \E c \in Conns : Open(w, c)
  BY <1>2, <1>10 DEF WriteInVain, Drop, Open
<1> QED BY <1>3, <1>5, <1>7, <1>8, <1>9, <1>10 DEF User, Exchange

\* All of this is true in every state.
Books == \A u \in Users : Here(u) /\ Waits(u) /\ Expects(u) /\ Returned(u)

\* Every caller waits for one call, and finds nothing else on its connection.
THEOREM BooksInvariant == CallSpec => []Books
<1>1. CallInit => Books
  <2> SUFFICES ASSUME CallInit, NEW u \in Users
               PROVE  Here(u) /\ Waits(u) /\ Expects(u) /\ Returned(u)
    BY DEF Books
  <2>1. phase[u] = "away" /\ Len(results[u]) = 0
    BY EmptySeq DEF CallInit
  <2> QED BY <2>1 DEF Here, Waits, Expects, Returned
<1>2. Known /\ Known' /\ Books /\ [CallNext]_callVars => Books'
  <2> SUFFICES ASSUME Known, Known', Books, [CallNext]_callVars, NEW u \in Users
               PROVE  (Here(u) /\ Waits(u) /\ Expects(u) /\ Returned(u))'
    BY DEF Books
  <2>1. Here(u) /\ Waits(u) /\ Expects(u) /\ Returned(u)
    BY DEF Books
  <2>2. Expects(u)'
    <3>1. CASE User(u)
      BY <2>1, <3>1, ExpectsOwn
    <3>2. CASE ~User(u) /\ phase[u] \in {"idle", "writing", "reading"}
      BY <2>1, <3>2, ExpectsMoved
    <3>3. CASE ~User(u) /\ phase[u] \notin {"idle", "writing", "reading"}
      BY <3>3, Bystander DEF Expects
    <3> QED BY <3>1, <3>2, <3>3
  <2> QED BY <2>1, <2>2, HereStep, WaitsStep, ReturnedStep
<1> QED BY <1>1, <1>2, KnownInvariant, PTL DEF CallSpec

-----------------------------------------------------------------------------
(* Requesters and server implement a map with atomic calls                 *)

\* What the server has made of each call, in the order of the calls.
Effects ==
  [u \in Users |-> [i \in DOMAIN places[u] |-> Outcome(places[u][i])]]

\* CallService has its own instance of Command, with the same constants.
LEMMA SameCalls ==
  /\ \A command, db : CallsOnAMap!Response(command, db) = Response(command, db)
  /\ \A command, db : CallsOnAMap!Effect(command, db) = Effect(command, db)
  /\ \A command, answer : CallsOnAMap!Interpret(command, answer) = Interpret(command, answer)
  /\ CallsOnAMap!EmptyDatabase = EmptyDatabase
<1>1. /\ \A command, db : CallsOnAMap!Response(command, db) = Response(command, db)
      /\ \A command, db : CallsOnAMap!Effect(command, db) = Effect(command, db)
  BY Zenon DEF CallsOnAMap!Response, Response, CallsOnAMap!Effect, Effect,
               CallsOnAMap!Lookup, Lookup, CallsOnAMap!OkFrame, OkFrame,
               CallsOnAMap!ErrorFrame, ErrorFrame, CallsOnAMap!NullFrame, NullFrame
<1>2. \A command, answer : CallsOnAMap!Interpret(command, answer) = Interpret(command, answer)
  BY Zenon DEF CallsOnAMap!Interpret, Interpret, CallsOnAMap!OkFrame, OkFrame
<1>3. CallsOnAMap!EmptyDatabase = EmptyDatabase
  BY Zenon DEF CallsOnAMap!EmptyDatabase, EmptyDatabase
<1> QED BY <1>1, <1>2, <1>3

\* The server reads from a request the command it was made for.
LEMMA RequestsAreRead ==
  ASSUME NEW command \in Calls, RequestFor(command) # Malformed
  PROVE  FromFrame(RequestFor(command)) = command
<1>1. \/ command \in [op : {"GET"}, key : Utf8]
      \/ command \in [op : {"SET"}, key : Utf8, value : Payloads]
  BY RequesterAssumption DEF Commands
<1>2. ASSUME NEW data
      PROVE  /\ BulkFrame(data).type = "Bulk" /\ BulkFrame(data).data = data
  BY DEF BulkFrame
<1>3. CASE command \in [op : {"GET"}, key : Utf8]
  <2>1. PICK key \in Utf8 : key = command.key
    BY <1>3
  <2>2. command.op = "GET" /\ command = [op |-> "GET", key |-> key]
    BY <1>3, <2>1
  <2>3. PICK items : items = <<BulkFrame("GET"), BulkFrame(key)>>
    OBVIOUS
  <2>4. RequestFor(command) = [type |-> "Array", items |-> items]
    BY <2>1, <2>2, <2>3 DEF RequestFor, GetFrame
  <2>5. /\ Len(items) = 2 /\ items[1] = BulkFrame("GET") /\ items[2] = BulkFrame(key)
    BY <2>3
  <2>6. NextString(items, 1) = "ok" /\ NextString(items, 2) = "ok" /\ Finish(items, 3) = "ok"
    BY <1>2, <2>5, RequesterAssumption, PayloadAssumption DEF NextString, NextBytes, Finish
  <2>7. GetFromParse(items) = command
    BY <1>2, <2>2, <2>5, <2>6 DEF GetFromParse, Try
  <2>8. items[1].data \in GetNames /\ items[1].data \notin SetNames
    BY <1>2, <2>5, RequesterAssumption, PayloadAssumption
  <2> QED BY <2>4, <2>6, <2>7, <2>8 DEF FromFrame, Try
<1>4. CASE command \in [op : {"SET"}, key : Utf8, value : Payloads]
  <2>1. PICK key \in Utf8, value \in Payloads : key = command.key /\ value = command.value
    BY <1>4
  <2>2. command.op = "SET" /\ command = [op |-> "SET", key |-> key, value |-> value]
    BY <1>4, <2>1
  <2>3. PICK items : items = <<BulkFrame("SET"), BulkFrame(key), BulkFrame(value)>>
    OBVIOUS
  <2>4. RequestFor(command) = [type |-> "Array", items |-> items]
    <3>1. value \notin Huge
      BY <2>1, <2>2 DEF RequestFor
    <3> QED BY <2>1, <2>2, <2>3, <3>1 DEF RequestFor, SetFrame
  <2>5. /\ Len(items) = 3 /\ items[1] = BulkFrame("SET") /\ items[2] = BulkFrame(key)
        /\ items[3] = BulkFrame(value)
    BY <2>3
  <2>6. /\ NextString(items, 1) = "ok" /\ NextString(items, 2) = "ok"
        /\ NextBytes(items, 3) = "ok" /\ Finish(items, 4) = "ok"
    BY <1>2, <2>5, RequesterAssumption, PayloadAssumption DEF NextString, NextBytes, Finish
  <2>7. SetFromParse(items) = command
    BY <1>2, <2>2, <2>5, <2>6 DEF SetFromParse, Try
  <2>8. items[1].data \in SetNames /\ items[1].data \notin GetNames
    BY <1>2, <2>5, RequesterAssumption, PayloadAssumption
  <2> QED BY <2>4, <2>6, <2>7, <2>8 DEF FromFrame, Try
<1> QED BY <1>1, <1>3, <1>4

\* Every request that was served has an answer.
LEMMA ServedIsAnswered ==
  ASSUME Known, NEW c \in Conns, NEW n \in 1..parsed[c]
  PROVE  Executed(c)[n] \in Reply
<1>1. /\ out[c] \in Seq(Reply) /\ reply[c] \in Seq(Reply) /\ HandlerTypeOK
      /\ Len(out[c]) \in Nat /\ Len(reply[c]) \in Nat /\ parsed[c] \in Nat
      /\ Progressed(c) /\ stage[c] \in Stages
  BY Parts, Replies DEF HandlerTypeOK
<1>2. out[c] \o reply[c] \in Seq(Reply) /\ Len(out[c] \o reply[c]) = Len(out[c]) + Len(reply[c])
      /\ Len(<<>>) = 0
  BY ONLY <1>1, ConcatProperties, EmptySeq
<1>3. Executed(c) \in Seq(Reply)
  BY <1>1, <1>2 DEF Executed
<1>4. parsed[c] <= Len(Executed(c))
  <2>1. /\ stage[c] = "reporting" => Len(Executed(c)) = Len(out[c])
        /\ stage[c] # "reporting" => Len(Executed(c)) = Len(out[c]) + Len(reply[c])
    BY <1>2 DEF Executed
  <2>2. /\ stage[c] = "reporting" => Len(out[c]) = parsed[c]
        /\ stage[c] \in {"away", "queued", "spawned", "reading"} =>
             Len(out[c]) = parsed[c] /\ Len(reply[c]) = 0
        /\ stage[c] = "writing" => Len(out[c]) + 1 = parsed[c] /\ Len(reply[c]) = 1
        /\ stage[c] \in {"unguarded", "released", "ended"} => parsed[c] <= Len(Executed(c))
    BY <1>1, <1>2 DEF Progressed
  <2>3. CASE stage[c] = "reporting"
    BY <1>1, <2>1, <2>2, <2>3
  <2>4. CASE stage[c] \in {"away", "queued", "spawned", "reading", "writing"}
    <3>1. parsed[c] = Len(out[c]) + Len(reply[c])
      <4>1. CASE stage[c] = "writing"
        BY <1>1, <2>2, <4>1
      <4>2. CASE stage[c] \in {"away", "queued", "spawned", "reading"}
        <5>1. Len(out[c]) = parsed[c] /\ Len(reply[c]) = 0
          BY <2>2, <4>2
        <5> QED BY <1>1, <5>1
      <4> QED BY <2>4, <4>1, <4>2
    <3>2. Len(Executed(c)) = Len(out[c]) + Len(reply[c])
      BY <2>1, <2>4
    <3> QED BY <1>1, <3>1, <3>2
  <2>5. CASE stage[c] \in {"unguarded", "released", "ended"}
    BY <2>2, <2>5
  <2> QED BY <1>1, <2>3, <2>4, <2>5 DEF Stages
<1>5. n \in 1..Len(Executed(c))
  <2>1. Len(Executed(c)) \in Nat
    BY <1>3, LenProperties
  <2> QED BY <1>1, <1>4, <2>1
<1> QED BY ONLY <1>3, <1>5, ElementOfSeq

\* There is one outcome for each call, in the order of the calls.
Shaped ==
  \A u \in Users :
    /\ Effects[u] \in Seq(Reply \cup {Unanswered}) /\ Len(Effects[u]) = Len(calls[u])
    /\ \A i \in 1..Len(calls[u]) : Effects[u][i] = Outcome(places[u][i])

\* The records of the calls give the outcomes their shape.
LEMMA EffectsShaped == Known => Shaped
<1> SUFFICES ASSUME Known, NEW u \in Users
             PROVE  /\ Effects[u] \in Seq(Reply \cup {Unanswered})
                    /\ Len(Effects[u]) = Len(calls[u])
                    /\ \A i \in 1..Len(calls[u]) : Effects[u][i] = Outcome(places[u][i])
  BY DEF Shaped
<1>1. PICK n \in Nat : n = Len(calls[u]) /\ Len(places[u]) = n
  BY Parts
<1>2. places[u] \in Seq([conn : Conns, at : Nat])
  BY Parts DEF CallLog
<1>3. DOMAIN places[u] = 1..n
  BY ONLY <1>1, <1>2, LenProperties
<1>4. ASSUME NEW i \in 1..n
      PROVE  Outcome(places[u][i]) \in Reply \cup {Unanswered}
  <2>1. places[u][i].conn \in Conns
    BY <1>1, PlaceType, Parts
  <2> QED BY <2>1, ServedIsAnswered DEF Outcome
<1>5. PICK f : f = Effects[u]
  OBVIOUS
<1>6. f = [i \in 1..n |-> Outcome(places[u][i])]
  BY <1>3, <1>5 DEF Effects
<1>7. f \in [1..n -> Reply \cup {Unanswered}]
  BY <1>4, <1>6
<1>8. f \in Seq(Reply \cup {Unanswered}) /\ Len(f) = n
  BY ONLY <1>1, <1>7
<1> QED BY <1>1, <1>5, <1>6, <1>8

\* A request keeps its outcome while nothing is served on its connection.
LEMMA OutcomeRests ==
  ASSUME Known, Known', Shaped, Shaped', NEW u \in Users, NEW i \in 1..Len(calls[u]), i \in 1..Len(calls'[u]),
         places'[u][i] = places[u][i],
         \A d \in Conns : Settles(d) /\ parsed'[d] = parsed[d]
  PROVE  Effects'[u][i] = Effects[u][i]
<1>1. PICK d \in Conns, n \in Nat : d = places[u][i].conn /\ n = places[u][i].at
  BY PlaceType, Parts
<1>2. /\ Effects[u][i] = Outcome(places[u][i])
      /\ Effects'[u][i] = Outcome(places[u][i])'
  BY DEF Shaped
<1>3. /\ Outcome(places[u][i]) = IF n \in 1..parsed[d] THEN Executed(d)[n] ELSE Unanswered
      /\ Outcome(places[u][i])' = IF n \in 1..parsed'[d] THEN Executed(d)'[n] ELSE Unanswered
  BY <1>1 DEF Outcome
<1> QED BY <1>2, <1>3 DEF Settles

\* What is not written yet, or not parsed yet, has no outcome.
LEMMA NotServed ==
  ASSUME Known, Shaped, NEW u \in Users, NEW i \in 1..Len(calls[u]),
         NEW d \in Conns, NEW n \in Nat, d = places[u][i].conn, n = places[u][i].at,
         n = 0 \/ n > parsed[d]
  PROVE  Effects[u][i] = Unanswered
<1>1. Effects[u][i] = Outcome(places[u][i]) /\ parsed[d] \in Nat
  BY Parts DEF Shaped
<1>2. n \notin 1..parsed[d]
  BY <1>1
<1> QED BY <1>1, <1>2 DEF Outcome

\* The outcomes of all calls, before and after a step that leaves them alone.
LEMMA EffectsEqual ==
  ASSUME Known, Known', Shaped, Shaped', \A u \in Users : Len(calls'[u]) = Len(calls[u]),
         \A u \in Users : \A i \in 1..Len(calls[u]) : Effects'[u][i] = Effects[u][i]
  PROVE  Effects' = Effects
<1>1. ASSUME NEW u \in Users
      PROVE  Effects'[u] = Effects[u]
  <2>1. PICK f, g : f = Effects[u] /\ g = Effects'[u]
    OBVIOUS
  <2>2. /\ f \in Seq(Reply \cup {Unanswered}) /\ g \in Seq(Reply \cup {Unanswered})
        /\ Len(f) = Len(g) /\ \A i \in 1..Len(f) : f[i] = g[i]
    BY <2>1 DEF Shaped
  <2>3. f = g
    BY ONLY <2>2, SeqEqual
  <2> QED BY <2>1, <2>3
<1>2. /\ Effects = [u \in Users |-> Effects[u]]
      /\ Effects' = [u \in Users |-> Effects'[u]]
  BY DEF Effects
<1> QED BY <1>1, <1>2

\* A step that serves nothing and begins no call changes no outcome.
LEMMA EffectsRest ==
  ASSUME Known, Known', Shaped, Shaped', [CallNext]_callVars,
         \A c \in Conns : ~Serve(c), \A u \in Users : ~Call(u)
  PROVE  UNCHANGED <<store, calls, Effects>>
<1>1. store' = store /\ \A d \in Conns : Settles(d) /\ parsed'[d] = parsed[d]
  BY StepOfServer, NextSettles DEF Known, Rests
<1>2. calls' = calls
  BY RecordSteps DEF Writes
<1>3. CASE UNCHANGED <<sent, calls, places>>
  BY <1>1, <1>2, <1>3, OutcomeRests, EffectsEqual
<1>4. ASSUME NEW u \in Users, NEW m, Writes(u, m)
      PROVE  Effects' = Effects
  <2>1. PICK c \in Conns, k \in 1..Len(places[u]), n \in Nat \ {0} :
          c = conn[u] /\ k = Last(u) /\ n = Len(sent[c]) + 1
    BY <1>4, WriteEffect, Parts
  <2>2. /\ places'[u][k].conn = c /\ places'[u][k].at = n /\ places[u][k].at = 0
        /\ \A v \in Users : \A j \in 1..Len(places[v]) :
             v # u \/ j # k => places'[v][j] = places[v][j]
    BY <1>4, <2>1, WriteEffect
  <2>3. ASSUME NEW v \in Users, NEW j \in 1..Len(calls[v])
        PROVE  Effects'[v][j] = Effects[v][j]
    <3>1. CASE v # u \/ j # k
      <4>1. j \in 1..Len(calls'[v]) /\ places'[v][j] = places[v][j]
        BY <1>2, <2>2, <3>1, Parts
      <4> QED BY <1>1, <4>1, OutcomeRests
    <3>2. CASE v = u /\ j = k
      <4>1. Effects[u][k] = Unanswered
        BY <2>1, <2>2, <3>2, PlaceType, NotServed, Parts
      <4>2. n > parsed'[c]
        <5>1. parsed[c] <= Len(sent[c]) /\ parsed[c] \in Nat /\ Len(sent[c]) \in Nat
          BY Parts DEF Progressed
        <5> QED BY <1>1, <2>1, <5>1
      <4>3. Effects'[u][k] = Unanswered
        <5>1. Effects'[u][k] = Outcome(places[u][k])'
          BY <1>2, <3>2 DEF Shaped
        <5>2. n \notin 1..parsed'[c]
          BY <1>1, <2>1, <4>2, Parts
        <5> QED BY <2>2, <5>1, <5>2 DEF Outcome
      <4> QED BY <3>2, <4>1, <4>3
    <3> QED BY <3>1, <3>2
  <2> QED BY <1>2, <2>3, EffectsEqual
<1> QED BY <1>1, <1>2, <1>3, <1>4, RecordSteps

\* A call begins without an outcome, and changes none.
LEMMA EffectsCall ==
  ASSUME Known, Known', Shaped, Shaped', NEW u \in Users, Call(u)
  PROVE  store' = store /\ Effects' = [Effects EXCEPT ![u] = Append(@, Unanswered)]
<1>1. UNCHANGED vars /\ store' = store
  BY DEF Call, vars, handlerVars
<1>2. \A d \in Conns : Settles(d) /\ parsed'[d] = parsed[d]
  BY <1>1 DEF vars, handlerVars, client, input, output, Settles, Executed
<1>3. PICK n \in Nat : n = Len(calls[u])
  BY Parts
<1>4. /\ Len(calls'[u]) = n + 1 /\ places'[u][n + 1].at = 0
      /\ \A j \in 1..n : places'[u][j] = places[u][j]
      /\ \A v \in Users \ {u} : places'[v] = places[v] /\ calls'[v] = calls[v]
  <2>1. Len(calls'[u]) = n + 1
    BY <1>3, Parts, CallRecorded
  <2> QED BY <1>3, <2>1, Parts, CallRecorded
<1>5. ASSUME NEW v \in Users \ {u}
      PROVE  Effects'[v] = Effects[v]
  <2>1. PICK f, g : f = Effects[v] /\ g = Effects'[v]
    OBVIOUS
  <2>2. /\ f \in Seq(Reply \cup {Unanswered}) /\ g \in Seq(Reply \cup {Unanswered})
        /\ Len(f) = Len(g) /\ Len(f) = Len(calls[v])
    BY <1>4, <2>1 DEF Shaped
  <2>3. \A i \in 1..Len(f) : f[i] = g[i]
    BY <1>2, <1>4, <2>1, <2>2, OutcomeRests
  <2>4. f = g
    BY ONLY <2>2, <2>3, SeqEqual
  <2> QED BY <2>1, <2>4
<1>6. Effects'[u] = Append(Effects[u], Unanswered)
  <2>1. PICK f, g : f = Effects[u] /\ g = Effects'[u]
    OBVIOUS
  <2>2. /\ f \in Seq(Reply \cup {Unanswered}) /\ g \in Seq(Reply \cup {Unanswered})
        /\ Len(f) = n /\ Len(g) = n + 1
    BY <1>3, <1>4, <2>1 DEF Shaped
  <2>3. ASSUME NEW i \in 1..n
        PROVE  g[i] = f[i]
    <3>1. i \in 1..Len(calls[u]) /\ i \in 1..Len(calls'[u]) /\ places'[u][i] = places[u][i]
      BY <1>3, <1>4
    <3> QED BY <1>2, <2>1, <3>1, OutcomeRests
  <2>4. g[n + 1] = Unanswered
    <3>1. n + 1 \in 1..Len(calls'[u])
      BY <1>4
    <3>2. Effects'[u][n + 1] = Outcome(places[u][n + 1])'
      BY <3>1 DEF Shaped
    <3>3. ~(places'[u][n + 1].at \in 1..parsed'[places'[u][n + 1].conn])
      BY <1>4
    <3> QED BY <2>1, <3>2, <3>3 DEF Outcome
  <2>5. PICK t : t = Append(f, Unanswered)
    OBVIOUS
  <2>6. /\ t \in Seq(Reply \cup {Unanswered}) /\ Len(t) = n + 1
        /\ t[n + 1] = Unanswered /\ \A i \in 1..n : t[i] = f[i]
    <3>1. Unanswered \in Reply \cup {Unanswered}
      OBVIOUS
    <3> QED BY ONLY <2>2, <2>5, <3>1, AppendProperties
  <2>7. \A i \in 1..(n + 1) : i = n + 1 \/ i \in 1..n
    OBVIOUS
  <2>8. g = t
    <3>1. \A i \in 1..Len(g) : g[i] = t[i]
      BY <2>2, <2>3, <2>4, <2>6, <2>7
    <3> QED BY ONLY <2>2, <2>6, <3>1, SeqEqual
  <2> QED BY <2>1, <2>5, <2>8
<1>7. /\ Effects = [v \in Users |-> Effects[v]]
      /\ Effects' = [v \in Users |-> Effects'[v]]
  BY DEF Effects
<1> QED BY <1>1, <1>5, <1>6, <1>7

\* Serving a request is the effect of the one call that made it.
LEMMA ServeTakesEffect ==
  ASSUME Known, Known', Shaped, Shaped', Ledger, NEW c \in Conns, Serve(c), UNCHANGED users
  PROVE  \E u \in Users : \E i \in 1..CallsOnAMap!Last(u) : CallsOnAMap!TakeEffect(u, i)
<1>1. PICK k \in Nat : k = parsed[c] + 1
  BY Parts
<1>2. /\ k \in 1..Len(sent[c]) /\ sent[c][k] \in Inputs \ {Malformed, Partial}
      /\ parsed' = [parsed EXCEPT ![c] = k] /\ parsed \in [Conns -> Nat]
      /\ store' = Effect(FromFrame(sent[c][k]), store)
      /\ Executed(c)'[k] = Response(FromFrame(sent[c][k]), store)
      /\ \A d \in Conns : Settles(d)
  BY <1>1, ServeSettles, Parts DEF HandlerTypeOK
<1>3. PICK u \in Users : \E i \in 1..Len(places[u]) :
        places[u][i].conn = c /\ places[u][i].at = k
  BY <1>2 DEF Ledger, Owned
<1>4. PICK i \in 1..Len(places[u]) : places[u][i].conn = c /\ places[u][i].at = k
  BY <1>3
<1>5. PICK command \in Calls : command = calls[u][i]
  <2>1. calls[u] \in Seq(Calls) /\ i \in 1..Len(calls[u])
    BY <1>4, Parts DEF CallLog
  <2> QED BY ONLY <2>1, ElementOfSeq
<1>6. FromFrame(sent[c][k]) = command
  <2>1. Entered(u, i)
    BY <1>4 DEF Ledger
  <2>2. k > 0
    BY <1>2
  <2>3. sent[c][k] = RequestFor(command)
    BY <1>2, <1>4, <1>5, <2>1, <2>2 DEF Entered
  <2> QED BY <1>2, <2>3, RequestsAreRead
<1>7. ASSUME NEW v \in Users, NEW j \in 1..Len(calls[v])
      PROVE  Effects'[v][j] =
               IF v = u /\ j = i THEN Response(command, store) ELSE Effects[v][j]
  <2>1. j \in 1..Len(places[v]) /\ places' = places /\ calls' = calls
    BY Parts DEF users
  <2>2. PICK d \in Conns, n \in Nat : d = places[v][j].conn /\ n = places[v][j].at
    BY <2>1, PlaceType, Parts
  <2>3. /\ Effects[v][j] = IF n \in 1..parsed[d] THEN Executed(d)[n] ELSE Unanswered
        /\ Effects'[v][j] = IF n \in 1..parsed'[d] THEN Executed(d)'[n] ELSE Unanswered
    BY <2>1, <2>2 DEF Shaped, Outcome
  <2>4. CASE v = u /\ j = i
    <3>1. d = c /\ n = k /\ parsed'[c] = k /\ n \in 1..parsed'[d]
      BY <1>2, <1>4, <2>2, <2>4
    <3> QED BY <1>2, <1>6, <2>3, <2>4, <3>1
  <2>5. CASE ~(v = u /\ j = i)
    <3>1. d = c => n # k
      <4>1. Alone(u, i, v, j)
        BY <1>4, <2>1 DEF Ledger
      <4>2. places[u][i].at > 0
        BY <1>2, <1>4
      <4> QED BY <1>4, <2>2, <2>5, <4>1, <4>2 DEF Alone
    <3>2. n \in 1..parsed'[d] <=> n \in 1..parsed[d]
      <4>1. CASE d = c
        <5>1. parsed'[d] = parsed[d] + 1 /\ parsed[d] \in Nat /\ n # parsed[d] + 1
          BY <1>1, <1>2, <3>1, <4>1
        <5> QED BY <5>1
      <4>2. CASE d # c
        BY <1>2, <4>2
      <4> QED BY <4>1, <4>2
    <3>3. n \in 1..parsed[d] => Executed(d)'[n] = Executed(d)[n]
      BY <1>2 DEF Settles
    <3> QED BY <2>3, <2>5, <3>2, <3>3
  <2> QED BY <2>4, <2>5
<1>8. Effects[u][i] = Unanswered
  <2>1. k > parsed[c] /\ i \in 1..Len(calls[u])
    BY <1>1, <1>4, Parts
  <2> QED BY <1>4, <2>1, NotServed
<1>9. Effects' = [Effects EXCEPT ![u][i] = Response(command, store)]
  <2>0. i \in 1..Len(calls[u]) /\ calls' = calls
    BY <1>4, Parts DEF users
  <2>1. PICK f, g, r : f = Effects[u] /\ g = Effects'[u] /\ r = Response(command, store)
    OBVIOUS
  <2>2. /\ f \in Seq(Reply \cup {Unanswered}) /\ g \in Seq(Reply \cup {Unanswered})
        /\ Len(f) = Len(g) /\ Len(f) = Len(calls[u]) /\ i \in 1..Len(f)
    BY <2>0, <2>1 DEF Shaped
  <2>3. g[i] = r /\ \A j \in 1..Len(f) : j # i => g[j] = f[j]
    BY <1>7, <2>0, <2>1, <2>2
  <2>4. r \in Reply \cup {Unanswered}
    BY ONLY <2>2, <2>3, ElementOfSeq
  <2>5. PICK t : t = [f EXCEPT ![i] = r]
    OBVIOUS
  <2>6. t \in Seq(Reply \cup {Unanswered}) /\ Len(t) = Len(f)
        /\ \A j \in 1..Len(f) : t[j] = IF j = i THEN r ELSE f[j]
    BY ONLY <2>2, <2>4, <2>5, ExceptSeq
  <2>7. g = t
    <3>1. \A j \in 1..Len(g) : g[j] = t[j]
      BY <2>2, <2>3, <2>6
    <3> QED BY ONLY <2>2, <2>6, <3>1, SeqEqual
  <2>8. ASSUME NEW v \in Users \ {u}
        PROVE  Effects'[v] = Effects[v]
    <3>1. PICK a, b : a = Effects[v] /\ b = Effects'[v]
      OBVIOUS
    <3>2. /\ a \in Seq(Reply \cup {Unanswered}) /\ b \in Seq(Reply \cup {Unanswered})
          /\ Len(a) = Len(b) /\ Len(a) = Len(calls[v])
      BY <2>0, <3>1 DEF Shaped
    <3>3. \A j \in 1..Len(a) : a[j] = b[j]
      BY <1>7, <3>1, <3>2
    <3>4. a = b
      BY ONLY <3>2, <3>3, SeqEqual
    <3> QED BY <3>1, <3>4
  <2>9. Effects'[u] = [Effects[u] EXCEPT ![i] = r]
    BY <2>1, <2>5, <2>7
  <2>10. Effects' = [Effects EXCEPT ![u] = [Effects[u] EXCEPT ![i] = r]]
    <3>1. /\ Effects = [v \in Users |-> Effects[v]]
          /\ Effects' = [v \in Users |-> Effects'[v]]
      BY DEF Effects
    <3> QED BY <2>8, <2>9, <3>1
  <2> QED BY <2>1, <2>10
<1>10. UNCHANGED <<calls, results>> /\ i \in 1..Len(results[u])
  BY <1>4, Parts DEF users
<1>11. CallsOnAMap!TakeEffect(u, i)
  BY <1>2, <1>5, <1>6, <1>8, <1>9, <1>10, SameCalls DEF CallsOnAMap!TakeEffect, Effects
<1> QED BY <1>10, <1>11 DEF CallsOnAMap!Last

\* A step begins a call, fails one, reads the answer to one, or leaves what they
\* returned as it is.
LEMMA ResultSteps ==
  ASSUME Known, [CallNext]_callVars
  PROVE  \/ results' = results
         \/ \E u \in Users : \/ Call(u)
                             \/ ReadResponse(u)
                             \/ phase[u] \in {"writing", "reading"} /\ Return(u, Failed)
<1>1. ASSUME NEW u \in Users, User(u)
      PROVE  \/ results' = results
             \/ Call(u) \/ ReadResponse(u)
             \/ (phase[u] \in {"writing", "reading"} /\ Return(u, Failed))
  <2>1. CASE WriteError(u) \/ ReadError(u) \/ GiveUpWriting(u) \/ GiveUpReading(u)
    BY <2>1 DEF WriteError, ReadError, GiveUpWriting, GiveUpReading, Go
  <2>2. CASE \/ Overrun(u) \/ WriteRequest(u) \/ WriteInVain(u) \/ Drop(u)
             \/ \E c \in Conns : Open(u, c)
    BY <2>2 DEF Overrun, WriteRequest, WriteInVain, Drop, Open
  <2> QED BY <1>1, <2>1, <2>2 DEF User, Exchange
<1>2. ASSUME NEW c \in Conns, Break(c)
      PROVE  results' = results
  BY <1>2 DEF Break, users
<1> QED BY <1>1, <1>2 DEF CallNext, callVars, users

\* Every step is a step of the map with atomic calls, or nothing to it.
LEMMA CallNextImplements ==
  ASSUME Known, Known', Shaped, Shaped', Ledger, Books, [CallNext]_callVars
  PROVE  [CallsOnAMap!Next]_(CallsOnAMap!vars)
<1>0. \A u \in Users : /\ Here(u) /\ Waits(u) /\ Expects(u)
                       /\ CallsOnAMap!Last(u) = Last(u) /\ Len(results[u]) = Last(u)
  BY Parts DEF Books, CallsOnAMap!Last, Last
<1>1. ASSUME NEW c \in Conns, Serve(c)
      PROVE  CallsOnAMap!Next
  <2>1. UNCHANGED users
    <3>1. stage[c] # stage'[c] /\ stage'[c] = "writing" /\ stage[c] = "reading"
      BY <1>1, Parts DEF Serve, MoveTo, HandlerTypeOK
    <3>2. ASSUME NEW u \in Users, User(u)
          PROVE  FALSE
      <4>1. CASE \E d \in Conns : Open(u, d)
        BY <3>1, <4>1, Parts DEF Open, Connect, MoveTo, HandlerTypeOK
      <4>2. CASE ~(\E d \in Conns : Open(u, d))
        BY <3>1, <3>2, <4>2 DEF User, Exchange, Call, Overrun, WriteRequest, WriteInVain,
           WriteError, ReadResponse, ReadError, GiveUpWriting, GiveUpReading, Drop, Put, Send,
           ReadReply, CloseSend, Reset, vars, handlerVars, input, output
      <4> QED BY <4>1, <4>2
    <3>3. ASSUME NEW d \in Conns, Break(d)
          PROVE  FALSE
      BY <3>1, <3>3 DEF Break, Reset
    <3> QED BY <3>2, <3>3 DEF CallNext, callVars
  <2> QED BY <1>1, <2>1, ServeTakesEffect DEF CallsOnAMap!Next
<1>2. ASSUME NEW u \in Users, phase[u] \in {"writing", "reading"}
      PROVE  CallsOnAMap!Busy(u)
  <2>1. Last(u) \in 1..Len(results[u]) /\ Last(u) > 0
    BY <1>2, Underway, Parts
  <2> QED BY <1>0, <1>2, <2>1 DEF Waits, CallsOnAMap!Busy
<1>3. ASSUME NEW u \in Users, Call(u)
      PROVE  CallsOnAMap!Next
  <2>1. phase[u] = "idle" /\ Last(u) < MaxCalls
        /\ results' = [results EXCEPT ![u] = Append(@, Pending)]
        /\ \E command \in Calls : calls' = [calls EXCEPT ![u] = Append(@, command)]
    BY <1>3 DEF Call, Go
  <2>2. ~CallsOnAMap!Busy(u)
    <3>1. Last(u) > 0 => Last(u) \in 1..Len(results[u])
      BY <1>0, Parts DEF Last
    <3> QED BY <1>0, <2>1, <3>1 DEF Waits, CallsOnAMap!Busy
  <2>3. store' = store /\ Effects' = [Effects EXCEPT ![u] = Append(@, Unanswered)]
    BY <1>3, EffectsCall
  <2>4. CallsOnAMap!Invoke(u)
    BY <1>0, <2>1, <2>2, <2>3 DEF CallsOnAMap!Invoke, Effects
  <2> QED BY <2>4 DEF CallsOnAMap!Next
<1>4. CASE (\A c \in Conns : ~Serve(c)) /\ (\A u \in Users : ~Call(u))
  <2>1. UNCHANGED <<store, calls, Effects>>
    BY <1>4, EffectsRest
  <2>2. CASE results' = results
    BY <2>1, <2>2 DEF CallsOnAMap!vars, Effects
  <2>3. ASSUME NEW u \in Users, phase[u] \in {"writing", "reading"}, Return(u, Failed)
        PROVE  CallsOnAMap!Next
    <3>1. CallsOnAMap!Fail(u)
      BY <1>0, <1>2, <2>1, <2>3 DEF CallsOnAMap!Fail, Effects, Return
    <3> QED BY <3>1 DEF CallsOnAMap!Next
  <2>4. ASSUME NEW u \in Users, ReadResponse(u)
        PROVE  CallsOnAMap!Next
    <3>1. PICK c \in Conns, k \in 1..Len(places[u]) : c = conn[u] /\ k = Last(u)
      BY <2>4, HasConn, Underway, Parts DEF ReadResponse, Go
    <3>2. phase[u] = "reading"
      BY <2>4 DEF ReadResponse, Go
    <3>3. CASE Return(u, Failed)
      BY <2>3, <3>2, <3>3
    <3>4. CASE ~Return(u, Failed)
      <4>1. PICK n \in 1..parsed[c] :
              /\ places[u][k].conn = c /\ places[u][k].at = n
              /\ Executed(c)[n] \in Reply
              /\ Return(u, Interpret(calls[u][k], Executed(c)[n]))
        BY <1>0, <2>4, <3>1, <3>4, Reads
      <4>2. Effects[u][k] = Executed(c)[n]
        <5>1. Effects[u][k] = Outcome(places[u][k])
          BY <3>1, Parts DEF Shaped
        <5> QED BY <4>1, <5>1 DEF Outcome
      <4>3. Effects[u][k] # Unanswered
        BY <4>1, <4>2, RequesterAssumption
      <4>4. results' = [results EXCEPT ![u][k] =
                          CallsOnAMap!Interpret(calls[u][k], Effects[u][k])]
        BY <3>1, <4>1, <4>2, SameCalls DEF Return
      <4>5. CallsOnAMap!Return(u)
        BY <1>0, <1>2, <2>1, <3>1, <3>2, <4>3, <4>4 DEF CallsOnAMap!Return, Effects
      <4> QED BY <4>5 DEF CallsOnAMap!Next
    <3> QED BY <3>3, <3>4
  <2> QED BY <1>4, <2>2, <2>3, <2>4, ResultSteps
<1> QED BY <1>1, <1>3, <1>4

\* Requesters and server together are the map with atomic calls: whatever fails, is
\* given up or is retried, every call takes effect at most once, after it began,
\* and whoever gets an answer gets that of its own call.
THEOREM CallsImplemented == CallSpec => ImplementsCalls
<1>1. CallInit => CallsOnAMap!Init
  <2> SUFFICES ASSUME CallInit
               PROVE  CallsOnAMap!Init
    OBVIOUS
  <2>1. store = EmptyDatabase
    BY DEF CallInit, Init, AcceptorInit, Fresh
  <2>2. Effects = [u \in Users |-> <<>>]
    <3>1. ASSUME NEW u \in Users
          PROVE  Effects[u] = <<>>
      <4>1. places[u] = <<>>
        BY <3>1 DEF CallInit
      <4>2. Effects[u] = [i \in DOMAIN <<>> |-> Outcome(places[u][i])]
        BY <4>1 DEF Effects
      <4> QED BY <4>2
    <3>2. Effects = [u \in Users |-> Effects[u]]
      BY DEF Effects
    <3> QED BY <3>1, <3>2
  <2> QED BY <2>1, <2>2, SameCalls DEF CallsOnAMap!Init, CallInit, Effects
<1>2. /\ Known /\ Known' /\ Shaped /\ Shaped' /\ Ledger /\ Books /\ [CallNext]_callVars
      => [CallsOnAMap!Next]_(CallsOnAMap!vars)
  BY CallNextImplements
<1>3. CallSpec => []Known /\ []Shaped /\ []Ledger /\ []Books
  BY KnownInvariant, EffectsShaped, LedgerInvariant, BooksInvariant, PTL
<1> QED BY <1>1, <1>2, <1>3, PTL DEF CallSpec, ImplementsCalls, CallsOnAMap!Spec

-----------------------------------------------------------------------------
(* The final report accounts for the calls                                 *)

\* What is mapped one to one into a finite set is not larger, and as large if
\* everything there is met.
LEMMA InjectedSize ==
  ASSUME NEW S, NEW T, IsFiniteSet(T), NEW f \in [S -> T],
         \A a, b \in S : f[a] = f[b] => a = b
  PROVE  /\ Cardinality(S) \in Nat /\ Cardinality(S) <= Cardinality(T)
         /\ (\A t \in T : \E s \in S : f[s] = t) => Cardinality(S) = Cardinality(T)
<1>1. f \in Injection(S, T)
  BY DEF Injection, IsInjective
<1>2. (\A t \in T : \E s \in S : f[s] = t) => f \in Surjection(S, T)
  BY DEF Surjection
<1>3. /\ IsFiniteSet(S) /\ Cardinality(S) <= Cardinality(T)
      /\ Cardinality(S) = Cardinality(T) <=> f \in Surjection(S, T)
  BY <1>1, FS_Injection
<1> QED BY <1>2, <1>3, FS_CardinalityType

\* A call is one of a user's, and has a place.
LEMMA CallPlace ==
  ASSUME Known, NEW p \in AllCalls
  PROVE  /\ p[1] \in Users /\ p[2] \in 1..Len(places[p[1]]) /\ p = <<p[1], p[2]>>
         /\ p[2] \in 1..Len(results[p[1]])
         /\ places[p[1]][p[2]].conn \in Conns /\ places[p[1]][p[2]].at \in Nat
<1>1. PICK u \in Users : p \in {<<u, i>> : i \in DOMAIN calls[u]}
  BY DEF AllCalls
<1>2. PICK i \in DOMAIN calls[u] : p = <<u, i>>
  BY <1>1
<1>3. calls[u] \in Seq(Calls)
  BY Parts DEF CallLog
<1>4. i \in 1..Len(calls[u])
  BY <1>2, <1>3, LenProperties
<1> QED BY <1>2, <1>4, Parts, PlaceType

\* A call and its place say the same, and every place of a call is one.
LEMMA PlaceCall ==
  ASSUME Known, NEW u \in Users, NEW i \in 1..Len(places[u])
  PROVE  <<u, i>> \in AllCalls
<1>1. calls[u] \in Seq(Calls) /\ i \in 1..Len(calls[u])
  BY Parts DEF CallLog
<1>2. i \in DOMAIN calls[u]
  BY <1>1, LenProperties
<1> QED BY <1>2 DEF AllCalls

\* As many requests are served as calls took effect, and as many answers written
\* as calls returned one, or more.
LEMMA Accounted ==
  ASSUME Known, Ledger, Books, WithinBound, MetricsMatchTraffic
  PROVE  ReportCountsCalls
<1> DEFINE executed == {p \in AllCalls : Outcome(places[p[1]][p[2]]) # Unanswered}
           returned == {p \in AllCalls : results[p[1]][p[2]] \notin {Pending, Failed}}
           at(p) == <<places[p[1]][p[2]].conn, places[p[1]][p[2]].at>>
           f == [p \in executed |-> at(p)]
           g == [p \in returned |-> at(p)]
<1>1. ASSUME NEW p \in AllCalls,
             places[p[1]][p[2]].at \in 1..parsed[places[p[1]][p[2]].conn]
      PROVE  at(p) \in Served
  <2>1. PICK c \in Conns, n \in Nat :
          c = places[p[1]][p[2]].conn /\ n = places[p[1]][p[2]].at
    BY CallPlace
  <2>2. n \in 1..parsed[c] /\ parsed[c] <= Len(sent[c]) /\ Len(sent[c]) <= MaxInputs
        /\ parsed[c] \in Nat /\ Len(sent[c]) \in Nat
    BY <1>1, <2>1, Parts DEF Progressed, WithinBound
  <2>3. n \in 1..MaxInputs /\ n <= parsed[c]
    BY <2>2, HandlerAssumption
  <2> QED BY <2>1, <2>3 DEF Served, Pairs
<1>2. ASSUME NEW p \in AllCalls, NEW q \in AllCalls, at(p) = at(q), at(p) \in Served
      PROVE  p = q
  <2>1. places[p[1]][p[2]].at > 0
    <3>1. at(p) \in Conns \X (1..MaxInputs) /\ MaxInputs \in Nat
      BY <1>2, HandlerAssumption DEF Served, Pairs
    <3> QED BY <3>1
  <2>2. Alone(p[1], p[2], q[1], q[2])
    BY CallPlace DEF Ledger
  <2>3. p[1] = q[1] /\ p[2] = q[2]
    BY <1>2, <2>1, <2>2 DEF Alone
  <2> QED BY <2>3, CallPlace
<1>3. ASSUME NEW p \in executed
      PROVE  at(p) \in Served
  BY <1>1 DEF Outcome
<1>4. ASSUME NEW p \in returned
      PROVE  at(p) \in Delivered
  <2>1. Returned(p[1]) /\ p[2] \in 1..Len(results[p[1]])
    BY CallPlace DEF Books
  <2>2. /\ places[p[1]][p[2]].at \in 1..parsed[places[p[1]][p[2]].conn]
        /\ places[p[1]][p[2]].at <= Len(out[places[p[1]][p[2]].conn])
    BY <2>1 DEF Returned
  <2> QED BY <1>1, <2>2 DEF Delivered
<1>5. ASSUME NEW t \in Served
      PROVE  \E p \in executed : at(p) = t
  <2>1. PICK c \in Conns, n \in 1..MaxInputs : t = <<c, n>> /\ n <= parsed[c]
    BY DEF Served, Pairs
  <2>2. n \in 1..parsed[c] /\ n \in 1..Len(sent[c])
    BY <2>1, Parts, HandlerAssumption DEF Progressed
  <2>3. PICK u \in Users : \E i \in 1..Len(places[u]) :
          places[u][i].conn = c /\ places[u][i].at = n
    BY <2>2 DEF Ledger, Owned
  <2>4. PICK i \in 1..Len(places[u]) : places[u][i].conn = c /\ places[u][i].at = n
    BY <2>3
  <2>5. Outcome(places[u][i]) = Executed(c)[n]
    BY <2>2, <2>4 DEF Outcome
  <2>6. Outcome(places[u][i]) # Unanswered
    BY <2>2, <2>5, ServedIsAnswered, RequesterAssumption
  <2>7. PICK p : p = <<u, i>>
    OBVIOUS
  <2>8. p \in executed /\ at(p) = t
    BY <2>1, <2>4, <2>6, <2>7, PlaceCall
  <2> QED BY <2>8
<1>6. /\ IsFiniteSet(Served) /\ Cardinality(Served) \in Nat
      /\ IsFiniteSet(Delivered) /\ Cardinality(Delivered) \in Nat
      /\ Delivered \subseteq Served
  BY CountedFinite DEF Delivered
<1>7. Cardinality(executed) = Cardinality(Served)
  <2>1. f \in [executed -> Served]
    BY <1>3
  <2>2. \A p, q \in executed : f[p] = f[q] => p = q
    <3>1. ASSUME NEW p \in executed, NEW q \in executed, f[p] = f[q]
          PROVE  p = q
      <4>1. p \in AllCalls /\ q \in AllCalls /\ f[p] = at(p) /\ f[q] = at(q)
        OBVIOUS
      <4> QED BY <1>2, <1>3, <3>1, <4>1
    <3> QED BY <3>1
  <2>3. \A t \in Served : \E p \in executed : f[p] = t
    BY <1>5
  <2> HIDE DEF f, executed
  <2> QED BY <1>6, <2>1, <2>2, <2>3, InjectedSize
<1>8. Cardinality(returned) \in Nat /\ Cardinality(returned) <= Cardinality(Delivered)
  <2>1. g \in [returned -> Delivered]
    BY <1>4
  <2>2. \A p, q \in returned : g[p] = g[q] => p = q
    <3>1. ASSUME NEW p \in returned, NEW q \in returned, g[p] = g[q]
          PROVE  p = q
      <4>1. p \in AllCalls /\ q \in AllCalls /\ g[p] = at(p) /\ g[q] = at(q)
        OBVIOUS
      <4>2. at(p) \in Served
        BY <1>4, <1>6
      <4> QED BY <1>2, <3>1, <4>1, <4>2
    <3> QED BY <3>1
  <2> HIDE DEF g, returned
  <2> QED BY <1>6, <2>1, <2>2, InjectedSize
<1>9. Cardinality(Delivered) <= Cardinality(Served)
  BY <1>6, FS_Subset
<1>10. /\ metrics["requests_received"] = Cardinality(Served)
       /\ metrics["command_responses_written"] = Cardinality(Delivered)
  BY DEF MetricsMatchTraffic, Delivered
<1>11. /\ metrics["requests_received"] = Cardinality(executed)
       /\ metrics["command_responses_written"]
            \in Cardinality(returned)..Cardinality(executed)
  <2> HIDE DEF executed, returned
  <2> QED BY <1>6, <1>7, <1>8, <1>9, <1>10
<1> QED BY <1>11 DEF ReportCountsCalls

\* The counters account for the calls, in the final report and before.
THEOREM CallsAreCounted == CallSpec => []ReportCountsCalls
<1>1. Known /\ Ledger /\ Books /\ WithinBound /\ MetricsMatchTraffic => ReportCountsCalls
  BY Accounted
<1>2. CallSpec => []WithinBound /\ []MetricsMatchTraffic
  BY CallersAreClients, ServerAccount, PTL
<1> QED BY <1>1, <1>2, KnownInvariant, LedgerInvariant, BooksInvariant, PTL
=============================================================================
