-------------------------- MODULE AcceptorTheorems --------------------------
(***************************************************************************)
(* What a step of a task, of a client or of the accept loop does to the    *)
(* types, the gauge, the listener queue, the permits and the sets of live  *)
(* and left connections, for any number of connections, any limit and any  *)
(* inputs.  Nothing here depends on who runs the loop: the binary and a    *)
(* program that embeds the library both build on these lemmas.  First, as  *)
(* the tasks rest on it: what the command parser returns and what a        *)
(* command does to the database, for all payloads and all frames.          *)
(***************************************************************************)
EXTENDS Acceptor, FiniteSetTheorems, SequenceTheorems, TLAPS

-----------------------------------------------------------------------------
(* Commands                                                                *)

\* A string argument is present, of a string type, and valid UTF-8.
LEMMA StringArgument ==
  ASSUME NEW items \in Seq(Argument), NEW i \in Nat \ {0},
         NextString(items, i) = "ok"
  PROVE  /\ i <= Len(items)
         /\ items[i].type \in {"Bulk", "Simple"}
         /\ items[i].data \in Utf8
<1>1. NextBytes(items, i) = "ok"
  BY DEF NextString
<1>2. i <= Len(items) /\ items[i].type \in {"Bulk", "Simple"}
  <2>1. CASE i > Len(items)
    BY <1>1, <2>1 DEF NextBytes
  <2>2. CASE i <= Len(items)
    BY <1>1, <2>2 DEF NextBytes
  <2> QED BY <2>1, <2>2
<1>3. items[i].data \in Utf8
  BY <1>1 DEF NextString
<1> QED BY <1>2, <1>3

\* A bytes argument is present and carries a payload.
LEMMA BytesArgument ==
  ASSUME NEW items \in Seq(Argument), NEW i \in Nat \ {0},
         NextBytes(items, i) = "ok"
  PROVE  /\ i <= Len(items)
         /\ items[i].type \in {"Bulk", "Simple"}
         /\ items[i].data \in Payloads
<1>1. i <= Len(items) /\ items[i].type \in {"Bulk", "Simple"}
  <2>1. CASE i > Len(items)
    BY <2>1 DEF NextBytes
  <2>2. CASE i <= Len(items)
    BY <2>2 DEF NextBytes
  <2> QED BY <2>1, <2>2
<1>2. items[i] \in Argument
  BY <1>1
<1>3. items[i].data \in Payloads
  BY <1>1, <1>2, PayloadAssumption DEF Argument
<1> QED BY <1>1, <1>3

\* The parser has three outcomes.
LEMMA Outcomes ==
  ASSUME NEW items \in Seq(Argument), NEW i \in Nat \ {0}
  PROVE  /\ NextBytes(items, i) \in {"ok", "EndOfStream", "Other"}
         /\ NextString(items, i) \in {"ok", "EndOfStream", "Other"}
         /\ Finish(items, i) \in {"ok", "Other"}
<1>1. NextBytes(items, i) \in {"ok", "EndOfStream", "Other"}
  <2>1. CASE i > Len(items)
    BY <2>1 DEF NextBytes
  <2>2. CASE i <= Len(items) /\ items[i].type \in {"Bulk", "Simple"}
    BY <2>2 DEF NextBytes
  <2>3. CASE i <= Len(items) /\ items[i].type \notin {"Bulk", "Simple"}
    BY <2>3 DEF NextBytes
  <2> QED BY <2>1, <2>2, <2>3
<1> QED BY <1>1 DEF NextString, Finish

\* A rejection of either kind is an outcome of Command::from_frame.
LEMMA RejectType ==
  ASSUME NEW error \in {"EndOfStream", "Other"}
  PROVE  Reject(error) \in Commands
BY DEF Reject, Commands

\* Whatever the arguments, GET is parsed to a command or a rejection.
LEMMA GetFromParseType ==
  ASSUME NEW items \in Seq(Argument)
  PROVE  GetFromParse(items) \in Commands
<1>1. CASE NextString(items, 2) # "ok"
  BY <1>1, Outcomes, RejectType DEF GetFromParse, Try
<1>2. CASE NextString(items, 2) = "ok" /\ Finish(items, 3) # "ok"
  BY <1>2, Outcomes, RejectType DEF GetFromParse, Try
<1>3. CASE NextString(items, 2) = "ok" /\ Finish(items, 3) = "ok"
  <2>1. items[2].data \in Utf8
    BY <1>3, StringArgument
  <2>2. GetFromParse(items) = [op |-> "GET", key |-> items[2].data]
    BY <1>3 DEF GetFromParse, Try
  <2> QED BY <2>1, <2>2 DEF Commands
<1> QED BY <1>1, <1>2, <1>3

\* Whatever the arguments, SET is parsed to a command or a rejection.
LEMMA SetFromParseType ==
  ASSUME NEW items \in Seq(Argument)
  PROVE  SetFromParse(items) \in Commands
<1>1. CASE NextString(items, 2) # "ok"
  BY <1>1, Outcomes, RejectType DEF SetFromParse, Try
<1>2. CASE NextString(items, 2) = "ok" /\ NextBytes(items, 3) # "ok"
  BY <1>2, Outcomes, RejectType DEF SetFromParse, Try
<1>3. CASE NextString(items, 2) = "ok" /\ NextBytes(items, 3) = "ok" /\ Finish(items, 4) # "ok"
  BY <1>3, Outcomes, RejectType DEF SetFromParse, Try
<1>4. CASE NextString(items, 2) = "ok" /\ NextBytes(items, 3) = "ok" /\ Finish(items, 4) = "ok"
  <2>1. items[2].data \in Utf8 /\ items[3].data \in Payloads
    BY <1>4, StringArgument, BytesArgument
  <2>2. SetFromParse(items)
          = [op |-> "SET", key |-> items[2].data, value |-> items[3].data]
    BY <1>4 DEF SetFromParse, Try
  <2> QED BY <2>1, <2>2 DEF Commands
<1> QED BY <1>1, <1>2, <1>3, <1>4

\* Every frame yields a command or a rejection, with valid keys only.
THEOREM FromFrameType ==
  ASSUME NEW frame \in Frame
  PROVE  FromFrame(frame) \in Commands
<1>1. CASE frame.type # "Array"
  BY <1>1, RejectType DEF FromFrame
<1>2. CASE frame.type = "Array"
  <2> DEFINE items == frame.items
  <2>1. items \in Seq(Argument)
    BY <1>2 DEF Frame
  <2>2. CASE NextString(items, 1) # "ok"
    BY <1>2, <2>1, <2>2, Outcomes, RejectType DEF FromFrame, Try
  <2>3. CASE NextString(items, 1) = "ok"
    <3>1. FromFrame(frame) =
            CASE items[1].data \in GetNames -> GetFromParse(items)
              [] items[1].data \in SetNames -> SetFromParse(items)
              [] OTHER                      -> Reject("Other")
      BY <1>2, <2>3 DEF FromFrame, Try
    <3>2. CASE items[1].data \in GetNames
      BY <2>1, <3>1, <3>2, GetFromParseType, PayloadAssumption
    <3>3. CASE items[1].data \in SetNames
      BY <2>1, <3>1, <3>3, SetFromParseType, PayloadAssumption
    <3>4. CASE items[1].data \notin GetNames \cup SetNames
      BY <3>1, <3>4, RejectType
    <3> QED BY <3>2, <3>3, <3>4
  <2> QED BY <2>2, <2>3
<1> QED BY <1>1, <1>2

\* A command leaves a database, and answers with a reply frame.
THEOREM ExecutionType ==
  ASSUME NEW command \in Commands, NEW db \in Database
  PROVE  /\ Effect(command, db) \in Database
         /\ Response(command, db) \in Reply
<1>1. CASE command.op = "GET"
  <2>1. command.key \in Utf8
    BY <1>1 DEF Commands
  <2>2. Lookup(db, command.key) \in Reply
    BY <2>1 DEF Lookup, Database, Reply, NullFrame
  <2> QED BY <1>1, <2>2 DEF Effect, Response
<1>2. CASE command.op = "SET"
  <2>1. command.key \in Utf8 /\ command.value \in Payloads
    BY <1>2 DEF Commands
  <2> QED BY <1>2, <2>1 DEF Effect, Response, Database, Reply, OkFrame
<1>3. CASE command.op = "Reject"
  BY <1>3 DEF Effect, Response, Reply, ErrorFrame
<1> QED BY <1>1, <1>2, <1>3 DEF Commands

\* What a connection was told it stored is what the next lookup of that key
\* finds, and a SET changes no other key.
THEOREM ReadYourWrites ==
  ASSUME NEW db \in Database, NEW key \in Utf8, NEW value \in Payloads,
         NEW other \in Utf8
  PROVE  LET after == Effect([op |-> "SET", key |-> key, value |-> value], db)
         IN  /\ Lookup(after, key) = [type |-> "Bulk", data |-> value]
             /\ other # key => Lookup(after, other) = Lookup(db, other)
BY PayloadAssumption DEF Effect, Lookup, Database

-----------------------------------------------------------------------------
(* The gauge                                                               *)

USE DEF CounterNames

\* Finitely many handlers run, so that they can be counted.
LEMMA RunningFinite == IsFiniteSet(Running) /\ Cardinality(Running) \in Nat
<1>1. Running \in SUBSET Conns
  BY DEF Running
<1> QED BY <1>1, HandlerAssumption, FS_Subset, FS_CardinalityType

\* A guard is created: the handler joins the running ones and is counted.
LEMMA GaugeUp ==
  ASSUME HandlerTypeOK, ActiveGauge, NEW c \in Conns,
         MoveTo(c, "spawned", "reading"), Count({"active_connections"})
  PROVE  ActiveGauge'
<1>1. c \notin Running /\ Running' = Running \cup {c}
  BY DEF MoveTo, Running, HandlerTypeOK
<1>2. Cardinality(Running') = Cardinality(Running) + 1
  BY <1>1, RunningFinite, FS_AddElement
<1>3. metrics'["active_connections"] = metrics["active_connections"] + 1
  BY DEF Count
<1> QED BY <1>2, <1>3 DEF ActiveGauge

\* A guard is dropped: its handler was counted, so the gauge stays a number.
LEMMA GaugeDown ==
  ASSUME HandlerTypeOK, ActiveGauge, NEW c \in Conns, c \in Running, DropGuard,
         stage' = [stage EXCEPT ![c] = "unguarded"]
  PROVE  ActiveGauge' /\ metrics' \in [CounterNames -> Nat]
<1>1. Running' = Running \ {c}
  BY DEF Running, HandlerTypeOK
<1>2. Cardinality(Running') = Cardinality(Running) - 1
  BY <1>1, RunningFinite, FS_RemoveElement
<1>3. Cardinality(Running') \in Nat
  <2>1. IsFiniteSet(Running')
    BY <1>1, RunningFinite, FS_RemoveElement
  <2> QED BY <2>1, FS_CardinalityType
<1>4. metrics'["active_connections"] = metrics["active_connections"] - 1
  BY DEF DropGuard, HandlerTypeOK
<1>5. ActiveGauge'
  BY <1>2, <1>4 DEF ActiveGauge
<1>6. metrics["active_connections"] - 1 \in Nat
  BY <1>2, <1>3 DEF ActiveGauge
<1>7. metrics' \in [CounterNames -> Nat]
  BY <1>6 DEF DropGuard, HandlerTypeOK
<1> QED BY <1>5, <1>7

\* Neither the running handlers nor the gauge change.
LEMMA GaugeSame ==
  ASSUME ActiveGauge, Running' = Running,
         metrics'["active_connections"] = metrics["active_connections"]
  PROVE  ActiveGauge'
BY DEF ActiveGauge

\* Counting an event leaves every counter a number.
LEMMA CountType ==
  ASSUME HandlerTypeOK, NEW names, Count(names)
  PROVE  metrics' \in [CounterNames -> Nat]
<1> HIDE DEF CounterNames
<1>1. ASSUME NEW n \in CounterNames
      PROVE  (IF n \in names THEN metrics[n] + 1 ELSE metrics[n]) \in Nat
  <2>1. metrics[n] \in Nat
    BY DEF HandlerTypeOK
  <2> QED BY <2>1
<1> QED BY <1>1 DEF Count

\* Moving on moves the connection to a stage.
LEMMA MoveType ==
  ASSUME HandlerTypeOK, NEW c \in Conns, NEW from, NEW to \in Stages,
         MoveTo(c, from, to)
  PROVE  stage' \in [Conns -> Stages]
BY DEF MoveTo, HandlerTypeOK

\* Writing a reply appends frames to frames.
LEMMA WriteType ==
  ASSUME HandlerTypeOK, NEW c \in Conns, out' = [out EXCEPT ![c] = @ \o reply[c]]
  PROVE  out' \in [Conns -> Seq(Reply)]
<1>1. out[c] \o reply[c] \in Seq(Reply)
  BY ConcatProperties DEF HandlerTypeOK
<1> QED BY <1>1 DEF HandlerTypeOK

-----------------------------------------------------------------------------

\* No step of a task breaks the types or the gauge.
LEMMA TaskStep ==
  ASSUME HandlerTypeOK, ActiveGauge, NEW c \in Conns,
         Progress(c) \/ ReadTimeout(c)
  PROVE  HandlerTypeOK' /\ ActiveGauge'
<1> USE DEF client, input, output, shared
<1>1. CASE Start(c)
  <2>1. ActiveGauge'
    BY <1>1, GaugeUp DEF Start
  <2>2. metrics' \in [CounterNames -> Nat]
    BY <1>1, CountType DEF Start
  <2>3. stage' \in [Conns -> Stages]
    BY <1>1, MoveType DEF Start, Stages
  <2> QED BY <1>1, <2>1, <2>2, <2>3 DEF Start, HandlerTypeOK
<1>2. CASE NodelayFails(c)
  <2>1. Running' = Running
    BY <1>2 DEF NodelayFails, MoveTo, Running, HandlerTypeOK
  <2>2. ActiveGauge'
    BY <1>2, <2>1, GaugeSame DEF NodelayFails
  <2>3. stage' \in [Conns -> Stages]
    BY <1>2, MoveType DEF NodelayFails, Stages
  <2> QED BY <1>2, <2>2, <2>3 DEF NodelayFails, HandlerTypeOK
<1>3. CASE Serve(c)
  <2> DEFINE command  == FromFrame(NextInput(c))
             response == Response(command, store)
  <2>1. NextInput(c) \in Frame
    <3>1. NextInput(c) \in Inputs \ {Malformed, Partial}
      BY <1>3 DEF Serve, HeadIs
    <3> QED BY <3>1, HandlerAssumption
  <2>2. command \in Commands
    BY <2>1, FromFrameType
  <2>3. store' \in Database /\ response \in Reply
    BY <1>3, <2>2, ExecutionType DEF Serve, HandlerTypeOK
  <2>4. reply' \in [Conns -> Seq(Reply)]
    BY <1>3, <2>3 DEF Serve, HandlerTypeOK
  <2>5. Running' = Running
    BY <1>3 DEF Serve, MoveTo, Running, HandlerTypeOK
  <2>6. Count(Tally(command, response))
    BY <1>3 DEF Serve
  <2>7. metrics'["active_connections"] = metrics["active_connections"]
    BY <2>6 DEF Count, Tally
  <2>8. ActiveGauge'
    BY <2>5, <2>7, GaugeSame
  <2>9. metrics' \in [CounterNames -> Nat]
    BY <2>6, CountType
  <2>10. stage' \in [Conns -> Stages]
    BY <1>3, MoveType DEF Serve, Stages
  <2>11. fetched' \in [Conns -> Nat] /\ parsed' \in [Conns -> Nat]
    <3>1. PICK n \in Fetches(c) : fetched' = [fetched EXCEPT ![c] = n]
      BY <1>3 DEF Serve
    <3>2. n \in Nat
      BY <3>1 DEF Fetches, HandlerTypeOK
    <3>3. fetched' \in [Conns -> Nat]
      BY <3>1, <3>2 DEF HandlerTypeOK
    <3>4. parsed[c] + 1 \in Nat
      BY DEF HandlerTypeOK
    <3>5. parsed' \in [Conns -> Nat]
      BY <1>3, <3>4 DEF Serve, HandlerTypeOK
    <3> QED BY <3>3, <3>5
  <2>12. UNCHANGED <<client, out, shared>>
    BY <1>3 DEF Serve
  <2> QED BY <2>3, <2>4, <2>8, <2>9, <2>10, <2>11, <2>12 DEF HandlerTypeOK
<1>4. CASE Respond(c)
  <2>1. Running' = Running
    BY <1>4 DEF Respond, MoveTo, Running, HandlerTypeOK
  <2>2. metrics'["active_connections"] = metrics["active_connections"]
    BY <1>4 DEF Respond, Count
  <2>3. ActiveGauge'
    BY <2>1, <2>2, GaugeSame
  <2>4. metrics' \in [CounterNames -> Nat]
    BY <1>4, CountType DEF Respond
  <2>5. stage' \in [Conns -> Stages]
    BY <1>4, MoveType DEF Respond, Stages
  <2>6. out' \in [Conns -> Seq(Reply)] /\ reply' \in [Conns -> Seq(Reply)]
    <3>1. <<>> \in Seq(Reply)
      OBVIOUS
    <3> QED BY <1>4, <3>1, WriteType DEF Respond, HandlerTypeOK
  <2> QED BY <1>4, <2>3, <2>4, <2>5, <2>6 DEF Respond, HandlerTypeOK
<1>5. CASE WriteFails(c)
  <2>1. c \in Running /\ stage' = [stage EXCEPT ![c] = "unguarded"]
    BY <1>5 DEF WriteFails, MoveTo, Running
  <2>2. ActiveGauge' /\ metrics' \in [CounterNames -> Nat]
    BY <1>5, <2>1, GaugeDown DEF WriteFails
  <2> QED BY <1>5, <2>1, <2>2 DEF WriteFails, HandlerTypeOK, Stages
<1>6. CASE ReadFails(c)
  <2>1. Running' = Running
    BY <1>6 DEF ReadFails, MoveTo, Running, HandlerTypeOK
  <2>2. ActiveGauge'
    BY <1>6, <2>1, GaugeSame DEF ReadFails
  <2>3. stage' \in [Conns -> Stages]
    BY <1>6, MoveType DEF ReadFails, Stages
  <2>4. reply' \in [Conns -> Seq(Reply)]
    <3>1. <<ErrorFrame>> \in Seq(Reply)
      BY DEF Reply
    <3> QED BY <1>6, <3>1 DEF ReadFails, HandlerTypeOK
  <2> QED BY <1>6, <2>2, <2>3, <2>4 DEF ReadFails, HandlerTypeOK
<1>7. CASE Report(c)
  <2>1. c \in Running /\ stage' = [stage EXCEPT ![c] = "unguarded"]
    BY <1>7 DEF Report, MoveTo, Running
  <2>2. ActiveGauge' /\ metrics' \in [CounterNames -> Nat]
    BY <1>7, <2>1, GaugeDown DEF Report
  <2>3. out' \in [Conns -> Seq(Reply)]
    BY <1>7, WriteType DEF Report, HandlerTypeOK
  <2>4. reply' \in [Conns -> Seq(Reply)]
    <3>1. <<>> \in Seq(Reply)
      OBVIOUS
    <3> QED BY <1>7, <3>1 DEF Report, HandlerTypeOK
  <2> QED BY <1>7, <2>1, <2>2, <2>3, <2>4 DEF Report, HandlerTypeOK, Stages
<1>8. CASE EndOfInput(c)
  <2>1. c \in Running /\ stage' = [stage EXCEPT ![c] = "unguarded"]
    BY <1>8 DEF EndOfInput, MoveTo, Running
  <2>2. ActiveGauge' /\ metrics' \in [CounterNames -> Nat]
    BY <1>8, <2>1, GaugeDown DEF EndOfInput
  <2> QED BY <1>8, <2>1, <2>2 DEF EndOfInput, HandlerTypeOK, Stages
<1>9. CASE ReadTimeout(c)
  <2>1. c \in Running /\ stage' = [stage EXCEPT ![c] = "unguarded"]
    BY <1>9 DEF ReadTimeout, MoveTo, Running
  <2>2. ActiveGauge' /\ metrics' \in [CounterNames -> Nat]
    BY <1>9, <2>1, GaugeDown DEF ReadTimeout
  <2> QED BY <1>9, <2>1, <2>2 DEF ReadTimeout, HandlerTypeOK, Stages
<1>10. CASE ShutdownSelected(c)
  <2>1. c \in Running /\ stage' = [stage EXCEPT ![c] = "unguarded"]
    BY <1>10 DEF ShutdownSelected, MoveTo, Running
  <2>2. ActiveGauge' /\ metrics' \in [CounterNames -> Nat]
    BY <1>10, <2>1, GaugeDown DEF ShutdownSelected
  <2> QED BY <1>10, <2>1, <2>2 DEF ShutdownSelected, HandlerTypeOK, Stages
<1>11. CASE DropHandler(c)
  <2>1. Running' = Running
    BY <1>11 DEF DropHandler, MoveTo, Running, HandlerTypeOK
  <2>2. ActiveGauge'
    BY <1>11, <2>1, GaugeSame DEF DropHandler
  <2>3. stage' \in [Conns -> Stages]
    BY <1>11, MoveType DEF DropHandler, Stages
  <2> QED BY <1>11, <2>2, <2>3 DEF DropHandler, HandlerTypeOK
<1>12. CASE DropPermit(c)
  <2>1. Running' = Running
    BY <1>12 DEF DropPermit, MoveTo, Running, HandlerTypeOK
  <2>2. ActiveGauge'
    BY <1>12, <2>1, GaugeSame DEF DropPermit
  <2>3. stage' \in [Conns -> Stages]
    BY <1>12, MoveType DEF DropPermit, Stages
  <2>4. permits' \in Nat
    BY <1>12 DEF DropPermit, HandlerTypeOK
  <2>5. UNCHANGED <<store, client, input, output, metrics>>
    BY <1>12 DEF DropPermit
  <2> QED BY <2>2, <2>3, <2>4, <2>5 DEF HandlerTypeOK
<1> QED
  BY <1>1, <1>2, <1>3, <1>4, <1>5, <1>6, <1>7, <1>8, <1>9, <1>10, <1>11, <1>12
  DEF Progress, Ending

\* No step of a client breaks the types or the gauge.
LEMMA ClientStep ==
  ASSUME HandlerTypeOK, ActiveGauge, NEW c \in Conns, Client(c)
  PROVE  HandlerTypeOK' /\ ActiveGauge'
<1> USE DEF client, input, output, shared
<1>1. CASE Send(c)
  <2>1. PICK m \in Inputs : sent' = [sent EXCEPT ![c] = Append(@, m)]
    BY <1>1 DEF Send
  <2>2. Append(sent[c], m) \in Seq(Inputs)
    BY AppendProperties DEF HandlerTypeOK
  <2>3. sent' \in [Conns -> Seq(Inputs)]
    BY <2>1, <2>2 DEF HandlerTypeOK
  <2> QED BY <1>1, <2>3 DEF Send, HandlerTypeOK, ActiveGauge, Running
<1>2. CASE CloseSend(c)
  BY <1>2 DEF CloseSend, HandlerTypeOK, ActiveGauge, Running
<1>3. CASE Reset(c)
  BY <1>3 DEF Reset, HandlerTypeOK, ActiveGauge, Running
<1>4. CASE ReadReply(c)
  <2>1. ActiveGauge'
    BY <1>4 DEF ReadReply, ActiveGauge, Running
  <2>2. taken' \in [Conns -> Nat]
    <3>1. taken[c] + 1 \in Nat
      BY DEF HandlerTypeOK
    <3> QED BY <1>4, <3>1 DEF ReadReply, HandlerTypeOK
  <2> QED BY <1>4, <2>1, <2>2 DEF ReadReply, HandlerTypeOK
<1> QED BY <1>1, <1>2, <1>3, <1>4 DEF Client

\* A fresh server has the right types, whatever its connections are at.
LEMMA FreshType ==
  ASSUME Fresh, stage \in [Conns -> Stages \ {"reading", "writing", "reporting"}],
         permits \in Nat
  PROVE  HandlerTypeOK /\ ActiveGauge
<1>1. Running = {}
  BY DEF Running
<1>2. ActiveGauge
  BY <1>1, FS_EmptySet DEF ActiveGauge, Fresh
<1>3. HandlerTypeOK
  BY DEF Fresh, HandlerTypeOK, Database, EmptyDatabase
<1> QED BY <1>2, <1>3

\* The tasks on their own are well typed, and the gauge of metrics.rs always
\* tells how many guards are alive; in particular it never drops below zero.
THEOREM TasksInvariant == TasksSpec => [](HandlerTypeOK /\ ActiveGauge)
<1>1. TasksInit => HandlerTypeOK /\ ActiveGauge
  BY FreshType DEF TasksInit, Stages
<1>2. ASSUME HandlerTypeOK, ActiveGauge, [TasksNext]_handlerVars
      PROVE  HandlerTypeOK' /\ ActiveGauge'
  <2>1. CASE TasksNext
    BY <1>2, <2>1, TaskStep, ClientStep DEF TasksNext
  <2>2. CASE UNCHANGED handlerVars
    BY <1>2, <2>2 DEF handlerVars, client, input, output, shared, HandlerTypeOK,
                      ActiveGauge, Running
  <2> QED BY <1>2, <2>1, <2>2
<1> QED BY <1>1, <1>2, PTL DEF TasksSpec

-----------------------------------------------------------------------------
(* The accept loop                                                         *)

Queued == {c \in Conns : stage[c] = "queued"}

\* Finitely many tasks hold a permit, and no fewer than have a handler.
LEMMA SlotHoldersFinite ==
  /\ IsFiniteSet(SlotHolders) /\ Cardinality(SlotHolders) \in Nat
  /\ IsFiniteSet(Subscribed) /\ Cardinality(Subscribed) <= Cardinality(SlotHolders)
<1>1. SlotHolders \in SUBSET Conns
  BY DEF SlotHolders, Subscribed, Running
<1>2. IsFiniteSet(SlotHolders) /\ Cardinality(SlotHolders) \in Nat
  BY <1>1, HandlerAssumption, FS_Subset, FS_CardinalityType
<1>3. Subscribed \in SUBSET SlotHolders
  BY DEF SlotHolders
<1> QED BY <1>2, <1>3, FS_Subset

\* A task stays subscribed, with its permit and its completion sender, until it
\* drops its handler; on its way it can lose the message only by leaving.
LEMMA TaskShape ==
  ASSUME HandlerTypeOK, NEW c \in Conns, Progress(c) \/ ReadTimeout(c)
  PROVE  \/ /\ c \in Subscribed
            /\ \E to \in {"reading", "writing", "reporting", "unguarded"} :
                 /\ stage' = [stage EXCEPT ![c] = to]
                 /\ to \in {"reading", "writing"} =>
                      /\ stage[c] \in {"spawned", "reading", "writing"}
                      /\ notified' = notified
            /\ \/ notified' = notified
               \/ notified' = notified \ {c}
            /\ UNCHANGED <<permits, completion>>
         \/ DropHandler(c)
         \/ DropPermit(c)
<1> USE DEF shared, MoveTo, Subscribed, Running
<1>1. CASE Start(c)
  BY <1>1 DEF Start
<1>2. CASE NodelayFails(c)
  BY <1>2 DEF NodelayFails
<1>3. CASE Serve(c)
  BY <1>3 DEF Serve
<1>4. CASE Respond(c)
  BY <1>4 DEF Respond
<1>5. CASE WriteFails(c)
  BY <1>5 DEF WriteFails
<1>6. CASE ReadFails(c)
  BY <1>6 DEF ReadFails
<1>7. CASE Report(c)
  BY <1>7 DEF Report
<1>8. CASE EndOfInput(c)
  BY <1>8 DEF EndOfInput
<1>9. CASE ReadTimeout(c)
  BY <1>9 DEF ReadTimeout
<1>10. CASE ShutdownSelected(c)
  BY <1>10 DEF ShutdownSelected
<1> QED
  BY <1>1, <1>2, <1>3, <1>4, <1>5, <1>6, <1>7, <1>8, <1>9, <1>10 DEF Progress, Ending

\* The sets of connections the invariants speak of, across a task's step.
LEMMA TaskSets ==
  ASSUME HandlerTypeOK, NEW c \in Conns, Progress(c) \/ ReadTimeout(c)
  PROVE  /\ Queued' = Queued
         /\ \/ /\ c \in Subscribed
               /\ Subscribed' = Subscribed
               /\ SlotHolders' = SlotHolders
               /\ UNCHANGED <<permits, completion>>
            \/ /\ c \in Subscribed
               /\ Subscribed' = Subscribed \ {c}
               /\ SlotHolders' = SlotHolders
               /\ permits' = permits
               /\ completion' = completion \ {c}
            \/ /\ c \in SlotHolders
               /\ Subscribed' = Subscribed
               /\ SlotHolders' = SlotHolders \ {c}
               /\ permits' = permits + 1
               /\ completion' = completion
<1>1. CASE DropHandler(c)
  BY <1>1 DEF DropHandler, MoveTo, Queued, SlotHolders, Subscribed, Running, HandlerTypeOK
<1>2. CASE DropPermit(c)
  BY <1>2 DEF DropPermit, MoveTo, Queued, SlotHolders, Subscribed, Running, HandlerTypeOK
<1>3. ASSUME c \in Subscribed, UNCHANGED <<permits, completion>>,
             NEW to \in {"reading", "writing", "reporting", "unguarded"},
             stage' = [stage EXCEPT ![c] = to]
      PROVE  Queued' = Queued /\ Subscribed' = Subscribed /\ SlotHolders' = SlotHolders
  BY <1>3 DEF Queued, SlotHolders, Subscribed, Running, HandlerTypeOK
<1> QED BY <1>1, <1>2, <1>3, TaskShape

\* Clients change no stage but by connecting, and none of the shared resources.
LEMMA ClientShape ==
  ASSUME NEW c \in Conns, Client(c)
  PROVE  UNCHANGED <<stage, store, metrics, output, shared>>
BY DEF Client, Send, CloseSend, Reset, ReadReply, output, shared

-----------------------------------------------------------------------------
(* Types, gauge and listener queue                                         *)

\* The listener queue and the tasks never share or lose a connection.
BacklogIsQueued ==
  /\ {backlog[i] : i \in DOMAIN backlog} = {c \in Conns : stage[c] = "queued"}
  /\ \A i, j \in DOMAIN backlog : backlog[i] = backlog[j] => i = j


\* The oldest waiting connection is waiting, and the rest of the queue holds
\* exactly the others.
LEMMA BacklogHead ==
  ASSUME AcceptorTypeOK, BacklogIsQueued, backlog # <<>>
  PROVE  /\ Head(backlog) \in Conns
         /\ stage[Head(backlog)] = "queued"
         /\ Tail(backlog) \in Seq(Conns)
         /\ {Tail(backlog)[i] : i \in DOMAIN Tail(backlog)} = Queued \ {Head(backlog)}
         /\ \A i, j \in DOMAIN Tail(backlog) :
              Tail(backlog)[i] = Tail(backlog)[j] => i = j
<1>1. backlog \in Seq(Conns)
  BY DEF AcceptorTypeOK
<1>2. /\ Head(backlog) \in Conns /\ Tail(backlog) \in Seq(Conns)
      /\ Len(Tail(backlog)) = Len(backlog) - 1
      /\ \A i \in 1..Len(Tail(backlog)) : Tail(backlog)[i] = backlog[i + 1]
  BY <1>1, HeadTailProperties
<1>3. Len(backlog) \in Nat \ {0} /\ Head(backlog) = backlog[1]
  BY <1>1
<1>4. stage[Head(backlog)] = "queued"
  BY <1>1, <1>2, <1>3 DEF BacklogIsQueued
<1>5. \A i, j \in DOMAIN Tail(backlog) : Tail(backlog)[i] = Tail(backlog)[j] => i = j
  BY <1>1, <1>2, <1>3 DEF BacklogIsQueued
<1>6. ASSUME NEW i \in DOMAIN Tail(backlog)
      PROVE  Tail(backlog)[i] \in Queued \ {Head(backlog)}
  <2>1. i + 1 \in DOMAIN backlog /\ i + 1 # 1 /\ Tail(backlog)[i] = backlog[i + 1]
    BY <1>1, <1>2, <1>3
  <2>2. backlog[i + 1] \in Queued
    BY <1>1, <2>1 DEF BacklogIsQueued, Queued
  <2>3. backlog[i + 1] # backlog[1]
    BY <1>1, <1>3, <2>1 DEF BacklogIsQueued
  <2> QED BY <1>3, <2>1, <2>2, <2>3
<1>7. ASSUME NEW c \in Queued \ {Head(backlog)}
      PROVE  \E i \in DOMAIN Tail(backlog) : Tail(backlog)[i] = c
  <2>1. PICK k \in DOMAIN backlog : backlog[k] = c
    BY <1>7 DEF BacklogIsQueued, Queued
  <2>2. k # 1 /\ k \in 1..Len(backlog)
    BY <1>1, <1>3, <1>7, <2>1
  <2>3. k - 1 \in DOMAIN Tail(backlog) /\ Tail(backlog)[k - 1] = c
    BY <1>2, <1>3, <2>1, <2>2
  <2> QED BY <2>3
<1>8. {Tail(backlog)[i] : i \in DOMAIN Tail(backlog)} = Queued \ {Head(backlog)}
  BY <1>6, <1>7
<1> QED BY <1>2, <1>4, <1>5, <1>8

\* Taking the head of the queue, to serve it or because it was reset.
LEMMA DequeueStep ==
  ASSUME AcceptorTypeOK, BacklogIsQueued, backlog # <<>>,
         NEW to \in {"spawned", "ended"},
         stage' = [stage EXCEPT ![Head(backlog)] = to],
         backlog' = Tail(backlog)
  PROVE  /\ BacklogIsQueued'
         /\ backlog' \in Seq(Conns)
         /\ stage' \in [Conns -> Stages]
         /\ Running' = Running
<1>1. stage \in [Conns -> Stages]
  BY DEF AcceptorTypeOK, HandlerTypeOK
<1>2. Queued' = Queued \ {Head(backlog)}
  BY <1>1, BacklogHead DEF Queued
<1>3. BacklogIsQueued'
  BY <1>2, BacklogHead DEF BacklogIsQueued, Queued
<1>4. Running' = Running
  BY <1>1, BacklogHead DEF Running
<1>5. stage' \in [Conns -> Stages]
  BY <1>1 DEF Stages
<1> QED BY <1>3, <1>4, <1>5, BacklogHead

\* A queue nobody touched.
LEMMA QueueSame ==
  ASSUME BacklogIsQueued, Queued' = Queued, backlog' = backlog
  PROVE  BacklogIsQueued'
BY DEF BacklogIsQueued, Queued

\* The steps of the loop itself.
LEMMA LoopStep ==
  ASSUME AcceptorTypeOK, ActiveGauge, BacklogIsQueued, LoopProgress \/ AcceptFails
  PROVE  AcceptorTypeOK' /\ ActiveGauge' /\ BacklogIsQueued'
<1> USE DEF handlerVars, client, input, output, shared
<1>1. CASE Subscribe
  <2>1. AcceptorTypeOK'
    BY <1>1 DEF Subscribe, MoveAcceptor, AcceptorTypeOK, HandlerTypeOK, AcceptorStages
  <2>2. ActiveGauge' /\ BacklogIsQueued'
    BY <1>1 DEF Subscribe, ActiveGauge, Running, BacklogIsQueued
  <2> QED BY <2>1, <2>2
<1>2. CASE AcquirePermit
  <2>1. permits' \in Nat
    BY <1>2 DEF AcquirePermit, AcceptorTypeOK, HandlerTypeOK
  <2>2. AcceptorTypeOK'
    BY <1>2, <2>1 DEF AcquirePermit, MoveAcceptor, AcceptorTypeOK, HandlerTypeOK,
                      AcceptorStages
  <2>3. ActiveGauge' /\ BacklogIsQueued'
    BY <1>2 DEF AcquirePermit, ActiveGauge, Running, BacklogIsQueued
  <2> QED BY <2>2, <2>3
<1>3. CASE Accept
  <2>1. /\ BacklogIsQueued' /\ backlog' \in Seq(Conns)
        /\ stage' \in [Conns -> Stages] /\ Running' = Running
    BY <1>3, DequeueStep DEF Accept
  <2>2. Head(backlog) \in Conns
    BY <1>3, BacklogHead DEF Accept
  <2>3. ActiveGauge'
    BY <1>3, <2>1, GaugeSame DEF Accept
  <2> QED BY <1>3, <2>1, <2>2, <2>3 DEF Accept, MoveAcceptor, AcceptorTypeOK,
              HandlerTypeOK, AcceptorStages
<1>4. CASE AcceptAborted
  <2>1. /\ BacklogIsQueued' /\ backlog' \in Seq(Conns)
        /\ stage' \in [Conns -> Stages] /\ Running' = Running
    BY <1>4, DequeueStep DEF AcceptAborted
  <2>2. metrics' \in [CounterNames -> Nat]
    BY <1>4, CountType DEF AcceptAborted, AcceptorTypeOK
  <2>3. metrics'["active_connections"] = metrics["active_connections"]
    BY <1>4 DEF AcceptAborted, Count, CounterNames
  <2>4. ActiveGauge'
    BY <2>1, <2>3, GaugeSame
  <2>5. permits' \in Nat
    BY <1>4 DEF AcceptAborted, ReleasePermit, AcceptorTypeOK, HandlerTypeOK
  <2> QED BY <1>4, <2>1, <2>2, <2>4, <2>5 DEF AcceptAborted, MoveAcceptor,
              AcceptorTypeOK, HandlerTypeOK, AcceptorStages
<1>5. CASE AcceptFails
  <2>1. metrics' \in [CounterNames -> Nat]
    BY <1>5, CountType DEF AcceptFails, AcceptorTypeOK
  <2>2. metrics'["active_connections"] = metrics["active_connections"]
    BY <1>5 DEF AcceptFails, Count, CounterNames
  <2>3. Running' = Running
    BY <1>5 DEF AcceptFails, Running
  <2>4. ActiveGauge'
    BY <2>2, <2>3, GaugeSame
  <2>5. AcceptorTypeOK'
    BY <1>5, <2>1 DEF AcceptFails, MoveAcceptor, AcceptorTypeOK, HandlerTypeOK,
                      AcceptorStages
  <2>6. BacklogIsQueued'
    BY <1>5 DEF AcceptFails, BacklogIsQueued
  <2> QED BY <2>4, <2>5, <2>6
<1>6. CASE RetryAccept
  <2>1. permits' \in Nat
    BY <1>6 DEF RetryAccept, ReleasePermit, AcceptorTypeOK, HandlerTypeOK
  <2>2. AcceptorTypeOK'
    BY <1>6, <2>1 DEF RetryAccept, MoveAcceptor, AcceptorTypeOK, HandlerTypeOK,
                      AcceptorStages
  <2>3. ActiveGauge' /\ BacklogIsQueued'
    BY <1>6 DEF RetryAccept, ActiveGauge, Running, BacklogIsQueued
  <2> QED BY <2>2, <2>3
<1> QED BY <1>1, <1>2, <1>3, <1>4, <1>5, <1>6 DEF LoopProgress

\* Dropping the acceptor closes the listener and resets what it held.
LEMMA DropAcceptorStep ==
  ASSUME AcceptorTypeOK, ActiveGauge, BacklogIsQueued, DropAcceptor
  PROVE  AcceptorTypeOK' /\ ActiveGauge' /\ BacklogIsQueued'
<1> USE DEF client, input, output
<1>1. stage' \in [Conns -> Stages]
  BY DEF DropAcceptor, AcceptorTypeOK, HandlerTypeOK, Stages
<1>2. Queued' = {} /\ Running' = Running
  BY DEF DropAcceptor, Queued, Running, AcceptorTypeOK, HandlerTypeOK
<1>3. BacklogIsQueued'
  BY <1>2 DEF DropAcceptor, BacklogIsQueued, Queued
<1>4. ActiveGauge'
  BY <1>2, GaugeSame DEF DropAcceptor
<1>5. backlog' \in Seq(Conns)
  BY DEF DropAcceptor
<1> QED BY <1>1, <1>3, <1>4, <1>5 DEF DropAcceptor, MoveAcceptor, AcceptorTypeOK,
           HandlerTypeOK, AcceptorStages

\* A new connection waits at the end of the queue.
LEMMA ConnectStep ==
  ASSUME AcceptorTypeOK, ActiveGauge, BacklogIsQueued, NEW c \in Conns, Connect(c)
  PROVE  AcceptorTypeOK' /\ ActiveGauge' /\ BacklogIsQueued'
<1> USE DEF client, input, output, shared
<1>1. backlog \in Seq(Conns) /\ stage \in [Conns -> Stages]
  BY DEF AcceptorTypeOK, HandlerTypeOK
<1>2. /\ backlog' \in Seq(Conns) /\ Len(backlog') = Len(backlog) + 1
      /\ \A i \in 1..Len(backlog) : backlog'[i] = backlog[i]
      /\ backlog'[Len(backlog) + 1] = c
  BY <1>1, AppendProperties DEF Connect
<1>3. stage' = [stage EXCEPT ![c] = "queued"] /\ stage[c] = "away"
  BY DEF Connect, MoveTo
<1>4. Queued' = Queued \cup {c} /\ c \notin Queued /\ Running' = Running
  BY <1>1, <1>3 DEF Queued, Running
<1>5. DOMAIN backlog = 1..Len(backlog) /\ Len(backlog) \in Nat
      /\ DOMAIN backlog' = 1..(Len(backlog) + 1)
  BY <1>1, <1>2
<1>6. \A i \in DOMAIN backlog : backlog[i] \in Queued
  BY DEF BacklogIsQueued, Queued
<1>7. \A i, j \in DOMAIN backlog' : backlog'[i] = backlog'[j] => i = j
  <2> SUFFICES ASSUME NEW i \in DOMAIN backlog', NEW j \in DOMAIN backlog',
                      backlog'[i] = backlog'[j]
               PROVE  i = j
    OBVIOUS
  <2>1. CASE i \in DOMAIN backlog /\ j \in DOMAIN backlog
    BY <1>2, <1>5, <2>1 DEF BacklogIsQueued
  <2>2. CASE i \notin DOMAIN backlog \/ j \notin DOMAIN backlog
    BY <1>2, <1>4, <1>5, <1>6, <2>2
  <2> QED BY <2>1, <2>2
<1>8. {backlog'[i] : i \in DOMAIN backlog'} = Queued \cup {c}
  <2>1. {backlog[i] : i \in DOMAIN backlog} = Queued
    BY DEF BacklogIsQueued, Queued
  <2>2. \A i \in DOMAIN backlog' : backlog'[i] \in Queued \cup {c}
    BY <1>2, <1>5, <1>6
  <2>3. \A q \in Queued \cup {c} : \E i \in DOMAIN backlog' : backlog'[i] = q
    <3> SUFFICES ASSUME NEW q \in Queued \cup {c}
                 PROVE  \E i \in DOMAIN backlog' : backlog'[i] = q
      OBVIOUS
    <3>1. CASE q = c
      BY <1>2, <1>5, <3>1
    <3>2. CASE q \in Queued
      <4>1. PICK i \in DOMAIN backlog : backlog[i] = q
        BY <2>1, <3>2
      <4> QED BY <1>2, <1>5, <4>1
    <3> QED BY <3>1, <3>2
  <2> QED BY <2>2, <2>3
<1>9. BacklogIsQueued'
  BY <1>4, <1>7, <1>8 DEF BacklogIsQueued, Queued
<1>10. ActiveGauge'
  BY <1>4, GaugeSame DEF Connect
<1>11. stage' \in [Conns -> Stages]
  BY <1>1, <1>3 DEF Stages
<1> QED BY <1>2, <1>9, <1>10, <1>11 DEF Connect, AcceptorTypeOK, HandlerTypeOK

\* The loop's task hears of shutdown and gives its permit back.
LEMMA StopStep ==
  ASSUME AcceptorTypeOK, ActiveGauge, BacklogIsQueued, StopAccepting
  PROVE  AcceptorTypeOK' /\ ActiveGauge' /\ BacklogIsQueued'
<1> USE DEF client, input, output
<1>1. permits' \in Nat
  BY DEF StopAccepting, ReleasePermit, AcceptorTypeOK, HandlerTypeOK
<1>2. AcceptorTypeOK'
  BY <1>1 DEF StopAccepting, MoveAcceptor, AcceptorTypeOK, HandlerTypeOK, AcceptorStages
<1>3. ActiveGauge' /\ BacklogIsQueued'
  BY DEF StopAccepting, ActiveGauge, Running, BacklogIsQueued
<1> QED BY <1>2, <1>3

\* A task's step, which leaves the loop alone.
LEMMA TaskKeeps ==
  ASSUME AcceptorTypeOK, ActiveGauge, BacklogIsQueued, NEW c \in Conns,
         Progress(c) \/ ReadTimeout(c), UNCHANGED acceptorVars
  PROVE  AcceptorTypeOK' /\ ActiveGauge' /\ BacklogIsQueued'
<1> USE DEF acceptorVars
<1>1. HandlerTypeOK' /\ ActiveGauge'
  BY TaskStep DEF AcceptorTypeOK
<1>2. BacklogIsQueued'
  BY TaskSets, QueueSame DEF AcceptorTypeOK
<1>3. completion' \subseteq completion /\ notified' \subseteq notified
  BY TaskShape DEF AcceptorTypeOK, DropHandler, DropPermit
<1> QED BY <1>1, <1>2, <1>3 DEF AcceptorTypeOK

\* A client's step on its connection, which leaves the loop alone.
LEMMA ClientKeeps ==
  ASSUME AcceptorTypeOK, ActiveGauge, BacklogIsQueued, NEW c \in Conns,
         Client(c), UNCHANGED acceptorVars
  PROVE  AcceptorTypeOK' /\ ActiveGauge' /\ BacklogIsQueued'
<1> USE DEF acceptorVars
<1>1. HandlerTypeOK' /\ ActiveGauge'
  BY ClientStep DEF AcceptorTypeOK
<1>2. UNCHANGED <<stage, shared>>
  BY ClientShape
<1>3. BacklogIsQueued'
  BY <1>2 DEF BacklogIsQueued
<1> QED BY <1>1, <1>2, <1>3 DEF AcceptorTypeOK, shared

\* Whoever owns the loop and whichever senders there are besides it, the types,
\* the gauge and the queue are right to begin with.
LEMMA AcceptorFresh ==
  ASSUME NEW senders \in SUBSET {"main", "acceptor"}, AcceptorInit(senders)
  PROVE  AcceptorTypeOK /\ ActiveGauge /\ BacklogIsQueued
<1>1. HandlerTypeOK /\ ActiveGauge
  BY FreshType, AcceptorAssumption DEF AcceptorInit, Stages
<1>2. BacklogIsQueued
  BY DEF AcceptorInit, BacklogIsQueued
<1> QED BY <1>1, <1>2 DEF AcceptorInit, AcceptorTypeOK, AcceptorStages

-----------------------------------------------------------------------------
(* The permits                                                             *)

\* Nobody takes or gives back a permit.
LEMMA PermitsSame ==
  ASSUME PermitsConserved, permits' = permits, HoldsPermit' = HoldsPermit,
         SlotHolders' = SlotHolders
  PROVE  PermitsConserved'
BY DEF PermitsConserved

\* The loop gives its permit to the task it spawns.
LEMMA AcceptSets ==
  ASSUME AcceptorTypeOK, BacklogIsQueued, Accept
  PROVE  /\ Head(backlog) \in Conns \ SlotHolders
         /\ SlotHolders' = SlotHolders \cup {Head(backlog)}
         /\ Subscribed' = Subscribed \cup {Head(backlog)}
<1>1. /\ Head(backlog) \in Conns /\ stage[Head(backlog)] = "queued"
      /\ stage' = [stage EXCEPT ![Head(backlog)] = "spawned"]
  BY BacklogHead DEF Accept
<1>2. stage \in [Conns -> Stages]
  BY DEF AcceptorTypeOK, HandlerTypeOK
<1> QED BY ONLY <1>1, <1>2 DEF SlotHolders, Subscribed, Running

\* A connection that was reset while it waited never held a permit.
LEMMA AbortedSets ==
  ASSUME AcceptorTypeOK, BacklogIsQueued, AcceptAborted
  PROVE  /\ Head(backlog) \in Queued
         /\ stage' = [stage EXCEPT ![Head(backlog)] = "ended"]
         /\ SlotHolders' = SlotHolders
         /\ Subscribed' = Subscribed
<1>1. /\ Head(backlog) \in Conns /\ stage[Head(backlog)] = "queued"
      /\ stage' = [stage EXCEPT ![Head(backlog)] = "ended"]
  BY BacklogHead DEF AcceptAborted
<1>2. stage \in [Conns -> Stages]
  BY DEF AcceptorTypeOK, HandlerTypeOK
<1>3. Subscribed' = Subscribed /\ SlotHolders' = SlotHolders
  BY ONLY <1>1, <1>2 DEF SlotHolders, Subscribed, Running
<1> QED BY <1>1, <1>3 DEF Queued

\* Dropping the acceptor ends no task.
LEMMA ReleaseSets ==
  ASSUME AcceptorTypeOK, DropAcceptor
  PROVE  SlotHolders' = SlotHolders /\ Subscribed' = Subscribed
BY DEF DropAcceptor, SlotHolders, Subscribed, Running, AcceptorTypeOK, HandlerTypeOK

\* A connection that starts to wait holds no permit.
LEMMA ConnectSets ==
  ASSUME AcceptorTypeOK, NEW c \in Conns, Connect(c)
  PROVE  SlotHolders' = SlotHolders /\ Subscribed' = Subscribed
BY DEF Connect, MoveTo, SlotHolders, Subscribed, Running, AcceptorTypeOK, HandlerTypeOK

\* The loop acquires, hands over and gives back one permit at a time.
LEMMA LoopPermits ==
  ASSUME AcceptorTypeOK, BacklogIsQueued, PermitsConserved, LoopProgress \/ AcceptFails
  PROVE  PermitsConserved'
<1> USE DEF handlerVars, client, input, output, shared, MoveAcceptor
<1> USE SlotHoldersFinite
<1>1. CASE Subscribe
  BY <1>1 DEF Subscribe, HoldsPermit, PermitsConserved, SlotHolders, Subscribed, Running
<1>2. CASE AcquirePermit
  <2>1. SlotHolders' = SlotHolders
    BY <1>2 DEF AcquirePermit, SlotHolders, Subscribed, Running
  <2> QED BY <1>2, <2>1 DEF AcquirePermit, HoldsPermit, PermitsConserved,
             AcceptorTypeOK, HandlerTypeOK
<1>3. CASE Accept
  <2>1. Cardinality(SlotHolders') = Cardinality(SlotHolders) + 1
    BY <1>3, AcceptSets, FS_AddElement
  <2> QED BY <1>3, <2>1 DEF Accept, HoldsPermit, PermitsConserved,
             AcceptorTypeOK, HandlerTypeOK
<1>4. CASE AcceptAborted
  <2>1. SlotHolders' = SlotHolders
    BY <1>4, AbortedSets
  <2>2. permits \in Nat /\ permits' = permits + 1 /\ HoldsPermit /\ ~HoldsPermit'
    BY <1>4 DEF AcceptAborted, ReleasePermit, HoldsPermit, AcceptorTypeOK, HandlerTypeOK
  <2> QED BY <2>1, <2>2 DEF PermitsConserved
<1>5. CASE AcceptFails
  <2>1. SlotHolders' = SlotHolders
    BY <1>5 DEF AcceptFails, SlotHolders, Subscribed, Running
  <2> QED BY <1>5, <2>1 DEF AcceptFails, HoldsPermit, PermitsConserved
<1>6. CASE RetryAccept
  <2>1. SlotHolders' = SlotHolders
    BY <1>6 DEF RetryAccept, SlotHolders, Subscribed, Running
  <2> QED BY <1>6, <2>1 DEF RetryAccept, ReleasePermit, HoldsPermit, PermitsConserved,
             AcceptorTypeOK, HandlerTypeOK
<1> QED BY <1>1, <1>2, <1>3, <1>4, <1>5, <1>6 DEF LoopProgress

\* A task gives back its permit when it stops to count as a holder.
LEMMA TaskPermits ==
  ASSUME HandlerTypeOK, PermitsConserved, NEW c \in Conns,
         Progress(c) \/ ReadTimeout(c), UNCHANGED acceptor
  PROVE  PermitsConserved'
<1> USE SlotHoldersFinite DEF HoldsPermit
<1>1. CASE SlotHolders' = SlotHolders /\ permits' = permits
  BY <1>1 DEF PermitsConserved
<1>2. CASE /\ c \in SlotHolders /\ SlotHolders' = SlotHolders \ {c}
           /\ permits' = permits + 1
  <2>1. Cardinality(SlotHolders') = Cardinality(SlotHolders) - 1
    BY <1>2, FS_RemoveElement
  <2>2. permits \in Nat /\ (HoldsPermit <=> HoldsPermit')
    BY DEF HandlerTypeOK
  <2> HIDE DEF HoldsPermit
  <2> QED BY <1>2, <2>1, <2>2 DEF PermitsConserved
<1> QED BY <1>1, <1>2, TaskSets

\* The loop's permit is free again when the loop stops.
LEMMA StopPermits ==
  ASSUME AcceptorTypeOK, PermitsConserved, StopAccepting
  PROVE  PermitsConserved'
<1>1. SlotHolders' = SlotHolders
  BY DEF StopAccepting, SlotHolders, Subscribed, Running
<1>2. permits \in Nat /\ permits' = permits + 1 /\ HoldsPermit /\ ~HoldsPermit'
  BY DEF StopAccepting, MoveAcceptor, ReleasePermit, HoldsPermit, AcceptorTypeOK,
     HandlerTypeOK
<1> QED BY <1>1, <1>2, SlotHoldersFinite DEF PermitsConserved

\* Before anything is accepted every permit is free.
LEMMA PermitsFresh ==
  ASSUME NEW senders, AcceptorInit(senders)
  PROVE  PermitsConserved
<1>1. SlotHolders = {} /\ ~HoldsPermit
  BY DEF AcceptorInit, SlotHolders, Subscribed, Running, HoldsPermit
<1> QED BY <1>1, FS_EmptySet, AcceptorAssumption DEF PermitsConserved, AcceptorInit

-----------------------------------------------------------------------------
(* Live and left connections                                               *)

\* Connections that were served, or turned away, and hold no channel any more.
Left == {c \in Conns : stage[c] \in {"released", "ended"}}

\* A task leaves the live connections once, and no other does with it.
LEMMA TaskLeaves ==
  ASSUME HandlerTypeOK, NEW c \in Conns, Progress(c) \/ ReadTimeout(c)
  PROVE  \/ Subscribed' = Subscribed /\ Left' = Left
         \/ /\ c \in Subscribed
            /\ Subscribed' = Subscribed \ {c}
            /\ Left' = Left \cup {c}
<1> USE DEF HandlerTypeOK, Subscribed, Running, Left
<1>1. CASE DropHandler(c)
  BY <1>1 DEF DropHandler, MoveTo
<1>2. CASE DropPermit(c)
  BY <1>2 DEF DropPermit, MoveTo
<1>3. ASSUME c \in Subscribed,
             NEW to \in {"reading", "writing", "reporting", "unguarded"},
             stage' = [stage EXCEPT ![c] = to]
      PROVE  Subscribed' = Subscribed /\ Left' = Left
  BY <1>3
<1> QED BY <1>1, <1>2, <1>3, TaskShape

\* A connection that is accepted was not served before, and there is a slot for
\* it: the permit the loop holds is not a task's.
LEMMA AcceptAdmits ==
  ASSUME AcceptorTypeOK, BacklogIsQueued, PermitsConserved, Accept
  PROVE  \E c \in Conns :
           /\ c \notin Subscribed \cup Left
           /\ Cardinality(Subscribed) < MaxConnections
           /\ Subscribed' = Subscribed \cup {c}
           /\ Left' = Left
<1>1. stage \in [Conns -> Stages] /\ permits \in Nat
  BY DEF AcceptorTypeOK, HandlerTypeOK
<1>2. /\ Head(backlog) \in Conns \ SlotHolders
      /\ stage[Head(backlog)] = "queued"
      /\ Subscribed' = Subscribed \cup {Head(backlog)}
  BY AcceptSets, BacklogHead DEF Accept
<1>3. stage' = [stage EXCEPT ![Head(backlog)] = "spawned"]
  BY DEF Accept
<1>4. Left' = Left /\ Head(backlog) \notin Subscribed \cup Left
  BY <1>1, <1>2, <1>3 DEF Left, SlotHolders
<1>5. Cardinality(Subscribed) < MaxConnections
  <2>1. HoldsPermit
    BY DEF Accept, MoveAcceptor, HoldsPermit
  <2>2. Cardinality(Subscribed) \in Nat
    BY SlotHoldersFinite, FS_CardinalityType
  <2> QED BY <1>1, <2>1, <2>2, SlotHoldersFinite, AcceptorAssumption
          DEF PermitsConserved
<1> QED BY <1>2, <1>4, <1>5

\* A connection that was reset in the queue, or all that the listener held, go
\* without having been served.
LEMMA TurnedAway ==
  ASSUME AcceptorTypeOK, BacklogIsQueued, AcceptAborted \/ DropAcceptor
  PROVE  \E cs \in SUBSET Conns :
           /\ cs \cap (Subscribed \cup Left) = {}
           /\ Left' = Left \cup cs
           /\ Subscribed' = Subscribed
<1>1. stage \in [Conns -> Stages]
  BY DEF AcceptorTypeOK, HandlerTypeOK
<1>2. CASE AcceptAborted
  <2>1. /\ Head(backlog) \in Queued /\ Subscribed' = Subscribed
        /\ stage' = [stage EXCEPT ![Head(backlog)] = "ended"]
    BY <1>2, AbortedSets
  <2>2. /\ Left' = Left \cup {Head(backlog)}
        /\ {Head(backlog)} \cap (Subscribed \cup Left) = {}
        /\ {Head(backlog)} \in SUBSET Conns
    BY <1>1, <2>1 DEF Left, Queued, Subscribed, Running
  <2> QED BY <2>1, <2>2
<1>3. CASE DropAcceptor
  <2>1. stage' = [c \in Conns |-> IF stage[c] = "queued" THEN "ended" ELSE stage[c]]
    BY <1>3 DEF DropAcceptor
  <2>2. Left' = Left \cup Queued /\ Queued \cap (Subscribed \cup Left) = {}
    BY <1>1, <2>1 DEF Left, Queued, Subscribed, Running
  <2>3. Subscribed' = Subscribed /\ Queued \in SUBSET Conns
    BY <1>3, ReleaseSets DEF Queued
  <2> QED BY <2>2, <2>3
<1> QED BY <1>2, <1>3

\* Clients neither admit nor end connections.
LEMMA PeerLeavesAll ==
  ASSUME HandlerTypeOK, NEW c \in Conns, Connect(c) \/ Client(c)
  PROVE  Subscribed' = Subscribed /\ Left' = Left
<1>1. CASE Connect(c)
  BY <1>1 DEF Connect, MoveTo, HandlerTypeOK, Subscribed, Running, Left
<1>2. CASE Client(c)
  BY <1>2, ClientShape DEF Subscribed, Running, Left
<1> QED BY <1>1, <1>2
=============================================================================
