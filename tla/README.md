# mini-redis: specifications, model checking, proofs

TLA+ models of the key-value server in `src/` (Rust, Tokio), TLC runs that check
them on small instances, and TLAPS proofs for every size. `PROJECT.json` maps
every definition to the lines it models and lists the runs, the hazards and the
theorems. Paths below are relative to the repository root.

## 1. The system

One process serves TCP clients that send RESP frames holding `GET` and `SET`.

| component | state | operations | talks to |
|---|---|---|---|
| server binary, `src/bin/server.rs` | its place in the shutdown sequence; ends of two channels | run the accept loop or Ctrl+C in one `select!`, then send, drop, drop, wait, report | owns the acceptor; channels to every task |
| accept loop, `src/acceptor.rs` | permit held, receiver, listener | acquire a permit, accept, retry, spawn, stop | spawns a task per connection; semaphore, metrics |
| connection handler, `src/handler.rs` | connection, receiver, completion sender, permit, guard | read with a timeout, execute, respond, report a read error, end | database, metrics, its client |
| metrics, `src/metrics.rs` | seven relaxed counters | increment, decrement, read | written by loop and handlers, read by `main` |
| database, `src/database.rs` | a map under a mutex | get, set | shared by all handlers |
| command parser, `src/parse.rs`, `src/command.rs` | position in an array frame | arguments, `finish`, `from_frame`, `apply` | handler, database |
| frame codec, `src/frame.rs` | cursor | `check`, `parse`, lines, decimals | connection |
| connection, `src/connection.rs` | read buffer, write buffer | `read_frame`, `write_frame` | socket |
| requester, `src/requester.rs` | a connection | connect, get, set, each with timeouts | server, over TCP |
| command-line client, `src/bin/client.rs` | none | one call | a requester |
| configuration, logging | none | | |

Tasks interact in five ways: the database mutex; the atomic counters; the
semaphore, whose permit moves from the loop into a task; the broadcast channel
that carries one shutdown message to the receivers existing when it is sent; and
the completion channel, which carries nothing and closes when its last sender is
dropped.

What is hard about it:

- *Shutdown.* Four ownership rules have to fit: who is subscribed at the moment of
  the send, who holds completion senders, in what order a task drops its guard,
  sender and permit, and what is dropped with the accept loop's future wherever it
  happens to stand.
- *Permits.* One is reserved before there is a connection, and there are eight
  ways for a connection or an accept attempt to end.
- *`select!`* chooses freely between what is ready, so shutdown and timeouts race
  frames that are already there.
- *Clients* pipeline, stop reading, shut one side, reset, or say nothing.
- *Callers* give calls up: half a request may stay on the wire, a response may come late,
  and a SET nobody waits for is still executed. A requester is used again after every error
  but a timeout.
- *Writing.* Frames pass through a buffer that large payloads go around, sockets take part of
  a write, and what is not flushed may wait for ever.
- *Framing.* The buffer is parsed again after every read, from a stream cut
  anywhere; the decoder trusts an earlier structural check; limits are inclusive
  here and exclusive there.

What makes each part correct:

| part | correct when |
|---|---|
| server | every task hears of shutdown; `main` waits for all of them, only for them, and not for ever; what it reports is final |
| accept loop | never more handlers than permits, no permit lost, nobody waits for ever |
| handler | a connection's requests are executed once each, in order, atomically, and answered in order |
| metrics | the gauge is the number of guards, the counters account for the traffic |
| command parser | accepts the grammar and nothing else |
| codec, connection | frames come back as they were encoded, however the stream is cut; nothing waits unflushed; limits are exact; no panic |
| requester | a call takes effect at most once and gets the answer to itself; one that failed may still take effect; every call returns |

## 2. The modules

```
Command ── CommandParsing                     KVService, ConnectionPool, CallService
   │                                          (abstract specifications)
Handler
   │                                          Wire ──┬── Framing
Acceptor ──┬── Server ── Requester                   └── MCConnection
           │                                                │
           └── Embedded                              Connection

proofs:

AcceptorTheorems ──┬── ServerTheorems ── RequesterTheorems
                   │                                          ConnectionTheorems ──┐
                   └── EmbeddedTheorems                                            ├── FramingTheorems
                                                                       Recursion ──┘
ParsingTheorems
```

The `MC*` modules define values for constants, and let TLC evaluate the two hypotheses of section
4 there and `IsUtf8` against the code points that UTF-8 spells (`TextsAreCharacters`); each `.cfg`
is one run. A module of theorems extends the module it is about.

**Command** is pure: the argument parser (`NextBytes`, `NextString`, `Finish`), the
two `from_parse` functions, `FromFrame`, and a command's `Response` and `Effect`.
`Try` is the `?` operator. A byte string is an opaque payload of which the code asks
whether it is UTF-8 and whether it spells `GET` or `SET`; each question is a constant
set. **CommandParsing** makes one call a step, for TLC.

**Handler** is all connection tasks over the shared state. A step is what a task
does between two points where it can be suspended or observed; in between it locks
the mutex at most once and otherwise bumps counters. `stage[c]` is the program
counter:

| stage | in the code |
|---|---|
| `away`, `queued` | not connected; in the listener's queue |
| `spawned` | before `ActiveConnectionGuard::new`, `set_nodelay` included |
| `reading` | in the `select!` of `run` |
| `writing`, `reporting` | in `write_frame` of a response, of a read error |
| `unguarded` | `run` has returned and dropped its guard, the handler is still there |
| `released` | socket, receiver and completion sender are dropped, the permit is not |
| `ended` | all is dropped |

The last three are steps of their own because `main`, the loop and other tasks can
observe what is dropped in between; their order is Rust's, locals before the
parameter `self` and fields in declaration order. A client's inputs are messages:
a frame, `Malformed` (the reader rejects it) or `Partial` (never finished). `sent`
and `parsed` are the two ends of that stream, `fetched` is how far the read buffer
has got: it tells a frame that is already buffered, which `read_frame` returns at
its first poll and no timeout can overtake, from one that has yet to come.
`Connection` is the model of the bytes below. The client's actions are
`Send`, `CloseSend`, `Reset`, `ReadReply`.

**Acceptor** adds the accept loop and the listener's queue. `HoldsPermit` is true in
`select` and `backoff`. An accept error is either a reset of the waiting connection,
retried at once, or any other, retried after the pause. `DropRun` and `DropAcceptor`
are for whoever owns the loop.

**Server** is the binary. The loop is polled by `main` itself, so it takes steps only
while `main = "serving"`; Ctrl+C drops its future in whatever stage it is. The loop's
own way to stop cannot be taken here: `main` is the only sender and sends afterwards.

**Embedded** is a program that runs the loop in a task of its own, as the integration
tests do, and sends the message while the loop runs.

**Requester** puts callers of `Requester` in place of the server's arbitrary clients, against
the whole server. A user connects, calls `get` and `set` one at a time, gives calls up, drops
the requester and connects again. `phase[u]` is where it is: `away` (no requester), `idle`,
`writing` and `reading` (inside a call), `stale` (its last call was given up). `places` records
at which position of which connection the request of a call went, which is all that is needed
to say later what became of it. Every action is one of the server's client actions plus a
change of the user's own variables: a write is a `Send`, a read a `ReadReply`, dropping the
socket a `CloseSend` or, with something unread, a `Reset`. A request in `Huge` is more than the
server buffers: it is `Malformed` to the server, and its write may still be under way when the
server refuses it (`Overrun`); the model has them as SETs of a value, and too long a key takes the same
way. `GiveUpWriting` leaves nothing or a part of the request on the
wire, `GiveUpReading` an answer nobody will read; both are the timeouts, and the caller dropping
the future. A connection attempt that times out is an `Open` followed by `Drop`. The
command-line client is a user with one call.

The callers keep the one rule the code states (`src/requester.rs:15`): after a timeout or a
cancelled call, drop the requester. That is an assumption on the environment; the model does
not assume it for any other error, and `IdleIsClean` says why that is enough.

**Connection** is one direction of a connection, both ends: `write_frame` through the
`BufWriter` and `read_frame` on what the socket delivers. `written`, `ends` and `asked` are
history; `rest`, `pending`, `flushed` and `wire` are the bytes of the current frame still in
`write_data`, in the buffer, already flushed of these, and taken by the socket. `Collect`,
`WriteThrough` and `Flush` are what a `BufWriter` does with a piece that fits, that is as large
as the buffer, and that does not fit; the socket takes any part of what it is offered. `HangUp`
is a failed, cut-off or dropped write. `WriteTail` is a peer that is no `Connection`. The codec
is a parameter (`Encoding`, `Decoded`): the runs give it `Wire`'s, `ConnectionTheorems` any that
has `Codec`, and `FramingTheorems` `Wire`'s again, with the proof that it has `Codec`.

**Wire** is the codec on sequences of bytes, with `i64`, the nesting limit and the array
limit as constants. `Check` and `ParseData` follow the two passes of the code, and
reading past the end, where the code would panic, is the verdict `Panic`. `usize` is
taken to be 64 bits wide, so that a nonnegative `i64` plus two always fits.
The code's recursion is a function of the layers of arrays that are left: `Checks(src)[left]` and
`Decodings(src)[left]` give the answer for every position at once, `CheckFrame` and `DecodeFrame`
are one call, with the layer below for its recursive calls, and `Elements` is the loop over an
array's elements. The check begins with `MaxArrayDepth` layers; decoding has no limit of its own,
and as a layer takes a byte, the length of the input is one it cannot exhaust. `Encodings` is
`write_data` in the same form, on `FramesWithin` a number of layers.
`IsUtf8` says that every byte belongs to a character, by the ranges of bytes that UTF-8 allows.
**Framing** feeds the decoder one byte at a time.

The abstract specifications:

- **KVService**: each connection's requests are executed in order, once each, in one step on one
  map, and answered in order. Connections end at any moment, several at once when the listener
  goes with a queue of them; bad input ends one with an error answer.
- **ConnectionPool**: a bounded set of live connections, with draining.
- **CallService**: calls of users on a map. A call takes effect at most once, in one step after
  it began; what it returns is what its effect found; a failed call may take effect later.

`Handler` and `Server` implement `KVService`, `Server` and `Embedded` implement
`ConnectionPool`, `Requester` implements `CallService`.

## 3. The runs

| run | instance | question |
|---|---|---|
| `server` | 3 clients, 2 permits, one SET each, 1 accept error, symmetry | permits, shutdown protocol, refinement of `ConnectionPool` |
| `server_liveness` | 2 clients, 1 permit, up to 2 SETs each, 1 accept error | shutdown completes; nobody waits for ever |
| `handler` | 2 tasks, 3 inputs in all, 2 each, of {GET, SET, GET without key, malformed, unfinished}, symmetry | refinement of `KVService`, metrics |
| `embedded` | 2 clients, 2 permits, 2 SETs in all, 1 accept error | completion, permits, pool and shutdown with a loop that still runs |
| `command_parsing` | all arrays of up to 4 arguments of 8 kinds | the grammar, the two errors |
| `framing` | all inputs up to 13 bytes over 10 bytes, at most 4 before a line feed, 3-bit integers | check against decoder, limits, stability, round trip |
| `framing_lines` | all inputs up to 8 bytes over 11 bytes, 5-bit integers | exact decimals, round trip of numbers and texts |
| `connection` | up to 2 frames of 8 kinds and 8 tails, a write buffer of 4 bytes, a read buffer of 11, every cut | same bytes, same frames, same end |
| `connection_progress` | simple strings of 4 sizes | a frame that was begun arrives |
| `requester` | 2 users, 2 connections, 3 calls in all, 2 each, 1 reset, symmetry | refinement of `CallService`; reuse of a requester |
| `requester_shutdown` | 2 users, 1 call each of {GET, SET, too large a SET}, 1 permit, shutdown | the report against the calls |
| `requester_patience` | 2 users, 1 call each, 1 permit, shutdown | every call returns |

All pass. What they show:

- *Shutdown of the binary is right.* Dropping the loop's future before the send leaves no
  window for a late subscriber (`HandlersHearShutdown`); the completion channel closes
  exactly when it should (`SendersTrackTasks`); the report is final
  (`FinalReportQuiescent`, `FinalReportStable`). A client that does not read blocks `main` for
  ever, as `write_frame` has neither a timeout nor a shutdown branch (documented at
  `src/handler.rs:76`, `src/bin/server.rs:102`); `ShutdownCompletes` says that nothing else does:
  either `main` gets done, or from some point on every task that is left is in such a write
  (`HeldUp`). Without that alternative the run fails.
- *Embedding differs in one respect.* With the loop in its own task, a connection accepted
  after the send is subscribed too late (`src/acceptor.rs:116`) and only its read timeout
  ends it, ten minutes by default. `ShutdownCompletes` of `Embedded` therefore rests on
  fairness of the timeouts, and fails without it; that of `Server` does not. Also, a message
  sent before the loop's first poll (`src/acceptor.rs:77`) is lost and the loop never
  stops. The property is therefore about messages sent after the first poll, and says that
  the loop hears of these wherever it stands, in the wait for a permit or the pause after an
  error too; a loop that subscribes anew for each permit breaks it. The run does not check for
  deadlock because of the message that is lost.
- *Requests are atomic and in order*, including those whose answers could not be written:
  `KVService` executes a request when its answer is fixed, not when it is delivered.
- *Calls are atomic too*, for all their timeouts, resets and reconnects. A `set` that failed may
  take effect after its caller has reconnected and read the old value; it does so at most once
  (`ImplementsCalls`). An answer is never taken for that of another call.
- *Only a timeout spoils a requester.* After a server error, a broken connection or a write that
  failed, the next call on the same requester either finds a clean connection or fails
  (`IdleIsClean`). The mutant that goes on after a timeout breaks it.
- *The final report accounts for the calls* when the users are requesters, with the slack that
  failed calls leave (`ReportCountsCalls`).
- *Nothing waits in a write buffer* (`ReturnedIsFlushed`, `FramesArrive`), and a write that was
  cut off leaves a prefix the reader tells from an orderly end (`ReadsTheStream`).
- *The codec's two passes agree*, so the unchecked slices of `parse_data` are safe, and
  verdicts do not depend on how much has arrived beyond them, so parsing again after every
  read is right. A frame of exactly the buffer limit is read.

**Bounds** and why they suffice. `MaxInputs` bounds what a client writes: two requests make
pipelining, a request behind bad input, and a write blocked by an unread answer happen; the
shutdown protocol of `server` depends on where a task is and not on how many requests it has
had, so one each is enough there, for three clients. `MaxInAll` = 3 of `MCHandler` keeps one
connection pipelining while the other asks, and 2 of `MCEmbedded` lets one connection block on
its second response; in the former the shutdown message counts as sent from the
start, which a task may notice at any read or never. `SendWindow` = 1 is how many unread answers
the sockets hold. Two connections for one permit (three for two) make one wait for the other's
slot, and let one be accepted around the shutdown of another. The embedding run needs two
permits: the loop hears of shutdown only while it holds one, so with a single permit it never
stops while a task runs. `MaxAcceptErrors` = 1 is one retry, from each stage of the system; the
requester runs have none. In `requester`, three calls are a SET that was given up, a call of its
caller after reconnecting and one of the other user, in any order; a connection is used once, so
two connections let one of the users reconnect or both be connected, and `MaxResets` = 1 adds
one reset by the network; `Serving` leaves shutdown to the other two runs. `Capacity` = 4 is
less than most frames and `MaxBuffered` = 11 is met exactly, by one less and by one more.
In `framing`, `ArrayLimit` = `MaxInt` = 3 and
`MaxBytes` = 13 reach arrays of two elements and what an array of three would be, which is too
many, and three nested arrays, which is one layer too many; `MaxLine` = 4 leaves room for a
marker, a sign or a leading zero, a digit and CR, so that nulls, negative lengths and empty
arrays and bulk strings come up; `MaxExtra` is a byte behind a finished frame. Numbers of
several digits and texts that are not ASCII are in `framing_lines`. Longer input is for the
proofs. `MaxArgs` is the
longest request. The cfgs with `CHECK_DEADLOCK FALSE` are of systems that really stop:
handlers whose clients are gone, a parser that has parsed, an input at its bound, and the
embedding program described above. In `server*`, `requester*` and `connection*` deadlock is
checked, so `main` is never stuck with nothing left to happen, and both ends of a connection
always have something to do until they are done.

**Fairness** is weak fairness of what the runtime polls: the steps of `main`, of the loop and
of every task. Inputs are bounded, so a task that keeps choosing the frame over the shutdown
message runs out of frames; a real `select!` is random, and with an endless stream of
requests the same conclusion needs strong fairness. Read timeouts are timers of the runtime;
`ShutdownCompletes` of `Server` does without them, `WaitingIsOver` names them as its hypothesis
(`TimeoutsFire`), and `Embedded` and the requesters' `FairCallSpec` assume them. The latter adds
that a call which can go on does (`Exchange`); nobody has to begin a call or give one up, so
`CallsReturn` does not rest on the calls' own timeouts. `FairSpec` of `Connection` is that the
socket takes what is written and somebody polls `read_frame`. No client, no accept error and no
signal is ever obliged to happen, and no client has to read: what may then last for ever is the
alternative in the properties, writes that wait for their clients (`HeldUp`, and for a waiting
connection `AllSlotsHeldUp`). Each property fails without its alternative.

**Mutants.** Every property has one: a plausible bug in a mapped definition, such as a guard
dropped twice, a leaked permit, a receiver created when the task first runs, a sender
`main` forgets to drop, that TLC finds to violate it. They are the operators marked
`Mutant:` and nothing else uses them.

## 4. The proofs

The theorems hold for any finite set of connections, any limit, inputs, payloads, users, calls,
frames and buffer sizes, under the named assumptions of the modules: `PayloadAssumption`,
`ParsingAssumption`, `HandlerAssumption`, `AcceptorAssumption` (finiteness, naturals, and that
the two owners are no connections), `RequesterAssumption` (also: the marks of a call that is
unanswered, pending or failed are no replies of the server), `ConnectionAssumption`,
`WireAssumption` and `FramingAssumption` (what arrives are bytes).

**ParsingTheorems**: `GrammarAccepted`, for all frames of any set: each way through
`FromFrame` is matched with the shape of the arguments that takes it (`ItemsMeaning`,
`ArrayMeaning`). `TooShortReported` says the same of `EndOfStream`, under `Completable`: some
argument can be the name of a GET and two may be added, or else nothing could complete a
request that is too short. The run evaluates `Completable` for its instance.

**AcceptorTheorems** is what both owners of the loop share. First what the tasks execute: a frame
yields a command with a UTF-8 key or a rejection (`FromFrameType`); execution keeps the types
(`ExecutionType`); a SET is what the next GET of the key finds (`ReadYourWrites`). Types and
gauge of the tasks are inductive together (`TasksInvariant`). The gauge needs the types, and the
types need the gauge: that a decremented counter is still a natural follows from the handler
having been counted. Then one lemma for each kind of step (of a task, a client, the loop, dropping the loop) and each thing
it may disturb: the types and the queue (`TaskStep`, `ClientStep`, `LoopStep`, `StopStep`), the
permits (`TaskPermits`, `LoopPermits`, `StopPermits`), the sets of live and of ended connections
that are the abstract pool (`AcceptAdmits`, `TaskLeaves`, `TurnedAway`, `PeerLeavesAll`).

**ServerTheorems**, in layers, each an inductive invariant relative to the ones below:

1. `Layer1` = `TypeOK`, `ActiveGauge` and `BacklogIsQueued` (the queue lists the `queued`
   connections, each once: without it an `Accept` could spawn a task that runs already).
2. `PermitsConserved`, from layer 1: each action moves at most one permit, and the
   cardinality of `SlotHolders` moves with it.
3. `Layer2` = `SendersTrackTasks`, `HandlersHearShutdown`, `Closed` (the loop is stopped once
   `main` serves no more, and dropped once it detaches) and `FinalReportQuiescent`. The
   message reaches all because the loop that would subscribe late is stopped; the report is
   quiescent because no sender means no subscribed task and the gauge counts a subset of
   these.
4. `FinalReportStable` and `ImplementsPool` are step by step from the layers. That a
   connection is admitted below the limit is layer 2 of this list: the permit the loop
   holds is one of `MaxConnections`.

Then what is served: `ServerImplementsService` and `TasksImplementService`. The invariant is
`Progressed`: in each stage, how many answers have been written or prepared for how many
requests parsed (one more while a response is being written, an error answer only in front of
bad input). From it a `Serve` is an `Execute`, a read error that is reported is a `Complain` or a
hangup, everything a task does afterwards is nothing to the service, and dropping the loop hangs
up on the whole queue at once. `TaskServes` is the step of a task, `LoopServes` that of the loop.

The counters follow: `ServerIsCounted` and `TasksAreCounted`, from `Progressed` and the bound on
inputs, which makes the requests counted finitely many. `ServeCounted` and `RespondCounted` add
one element to the sets whose cardinality the counters are; all other steps leave the sets and
the counters as they are.

**EmbeddedTheorems**: the same for a loop in a task of its own. `Sound` is layer 1 and
`PermitsInvariant` layer 2. For `CompletionIsFinal` the invariant is `Senders` (the completion
senders are those of the live tasks, and of the loop until it is dropped) with `StaysClosed`: a
new sender is a clone of the loop's, so that once all are gone none comes back. The refinement of `ConnectionPool` (`PoolImplemented`) differs in
what ends admission: the loop's own decision, not that of `main`.

**RequesterTheorems**: `CallersAreClients`: every step of the composition is a step of the
server or a stutter of it, so all theorems about `Server` hold of it. `CallTypes` is its type
invariant. Then four invariants, each relative to the ones before:

1. `Turn` says for each phase of a call which of five states the connection is in (quiet,
   requested, refused, executing, replied), or that it is dead; no two requesters share a
   connection (`OwnConn`). `ServerTurn` is what the server can do to these states, `OwnTurn`
   what the user can. `CleanWhenIdle` is `IdleIsClean`. `Known` is `Turn` with the types and the
   invariants of the server.
2. `Ledger`: every request that was written is where the place of its call says (`Entered`), no
   two calls have the same place (`Alone`), and every input of a connection is the request of
   some call (`Owned`).
3. `Books`: the place of the call under way is the last on its connection (`Here`), it alone has
   no result (`Waits`), what there is to be read is its answer or the last word of a server that
   is gone (`Expects`), and whoever returned an answer was served (`Returned`).
4. `Shaped`: the effects of `CallService`, which are computed from the places, are one per call.

`CallsImplemented` is then step by step. A `Serve` is `TakeEffect` of the one call whose place it
serves: `Ledger` gives the call, and that it has had no effect. A response that is read is
`Return` of what the call's effect found, or `Fail`: `Expects` and `Progressed` say that there is
nothing else to read. Everything else is nothing to the calls, or begins or fails one.

`CallsAreCounted` is `ReportCountsCalls`: places are a one-to-one correspondence between the
calls that took effect and the requests served on all connections, which `ServerIsCounted` counts;
every call that returned is one of these, and its response is one of those written.

**ConnectionTheorems**, for any encoding: `WireOrdered` and `FlushedOnReturn` from `WriterInv`.
`BufferCorrect` and `StreamIsRead` have the hypothesis `Codec`: an encoding is recognised as
its frame whatever follows, a proper part of it is too short to tell, no part of a tail is taken
for a frame, and what was rejected stays rejected. TLC evaluates it for the codes of both
connection runs, with the frames and tails of the run as what follows; `WireIsACode` below proves
it of the wire format in general. The invariants are `StreamInv` (the stream is the
encodings in order, then perhaps a tail), `ReaderInv` (the frames are the first of these, the
buffer is what arrived behind them) and `EndInv`, for how reading ends: every frame returned was
all on the wire and fitted the buffer; after the end nothing can follow that could still be read,
because the writer is closed and the next frame is not all there, or because it is larger than
the buffer, however much of it is still to be written (`NothingFollows`); and the buffer, which
does not change any more, has the verdict that the reader ended with. That makes the end a
function of the bytes: `InsideFrame` and `InsideTail` say what the buffer can be in the middle of
the stream and behind its last frame.

**FramingTheorems** is about the codec, for inputs of any length over any bytes, and any integer
width, nesting limit and array limit that `WireAssumption` admits (the code's array limit fits its
integer type, and is not zero).

The definitions of `Wire` are recursive functions, so each first needs the equation that defines
it (`ElementsSteps`, `ChecksSteps`, `EncodingsSteps` and so on). `Exists` of **Recursion** is that
such a function exists: for every n there is an approximation that is right up to n, these agree
where they overlap, and their diagonal is the function. Induction over data is done there once,
in its set form: `Nat` is well founded, so a set of naturals that has 0 and with each number the
next is all of `Nat` (`Induct`). Each lemma about a recursive function below defines the set of
the layers, elements or digits for which it holds and shows it to be all of `Nat`.

The invariant of `Framing` is `Received` (`TheBuffer`): the result is the decoder's answer for
the bytes in the buffer, and as long as no byte is extra it was "incomplete" for all shorter
parts. What is left are statements on `Parse`, for all inputs:

1. `CheckOutcome`, `DecodingsOutcome`, `ParseOutcome`: an answer is a failure or names a position
   behind what was read and not behind the input.
2. `LineStable`, `CheckStable`, `DecodingsStable`, and so `ParseStable`: in an input that goes on
   behind another (`Extends`), every answer but "incomplete" is the same, from the lines up
   through the elements of an array to all layers. `TheVerdicts` is `VerdictsAreStable`.
3. `DecodeFollows`: where the check accepts, decoding with as many layers as there are bytes left
   gives "other" or a frame `FramesWithin` the layers of the check that ends at the same position,
   and never panics.
   `TheCheck` and `TheLimits` are `DecodingFollowsTheCheck` and `DecodedWithinLimits`.
4. `SumsAreSpelled`: the accumulator holds exactly the number in range that the digits spell, if
   there is one, by induction over the digits: the first digits of a number in range are in range
   themselves, so stopping at an overflow loses nothing. The magnitude of the least value is not in
   range, which is why the sign goes into every step. With it `NumberSpells`, and `TheIntegers` is `DecimalsAreExact`.
5. `FrameStands`: where the encoding of a frame stands in an input, check and decoder return it
   and the position behind it, by induction over the layers of the frame and, in an array, over its
   elements (`FramesStand`, `ArrayStands`). `RoundTrip` is the case of an input that is
   nothing else. `TheRoundTrip` is `EncodingRoundTrips`, with `TheLimits`: only what is
   within the limits has an encoding.

`WireIsACode` is `Codec` for the wire format, with all frames within the limits and, as tails,
all byte sequences of which no part is taken for a frame (`NoFrames`): recognition before anything
from 5 and 2, incompleteness of the parts because an answer for a part would, by 2, be the answer
for the whole, whose position lies behind the part. So the theorems of `ConnectionTheorems` hold
with no hypothesis on the code for connections that use the codec: `WireStreamIsRead`.

Only model-checked: all liveness (`ShutdownCompletes`, `WaitingIsOver`, `FramesArrive`,
`CallsReturn`: fairness and `ENABLED` are out of the prover's reach). All other properties of the
runs are theorems. That `IsUtf8` is UTF-8 is checked and not proved: the proofs use of it only that
decoder and encoder mean the same by it.

## 5. Not modelled

- A requester that is used again after a timeout or a cancelled call. The code asks callers not
  to; what would go wrong is what the mutant of `IdleIsClean` shows.
- The same task writing behind half a frame: a failed write ends the task, and `Respond` of
  `Handler` writes a whole frame or fails. Pieces are in `Connection`.
- Durations: a timeout is a step that may happen when its condition holds.
- Relaxed memory order: `main` reads the counters after the completion channel has ordered
  it after every task, and nothing else in the program reads them.
- Logging, error texts, a poisoned mutex (nothing panics under the lock), running out of
  memory. A reset that overtakes an answer is modelled where somebody reads it, in `ReadError`
  of `Requester`.

## 6. Plan

Done: all components with state, the three abstract specifications, and the proofs of
section 4, with which every safety property of the runs is a theorem.

Left, in the order of what they would add: requesters whose callers break the rule about timeouts,
to say how far the damage goes; the durations of the timeouts, where one bounds another.
