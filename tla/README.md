# go-nuts in TLA+

A model of the parts of go-nuts that decide what happens to a message and to a
process that is going down: how a failed delivery is disposed of, with and without
a `Retry`, what a dead letter carries, when the floor-age breaker acts, how a
consumer is started, supervised and stopped, which retry schedules are accepted,
how a connection survives rotation and loss, and how a service shuts down. TLC checks the models
on small instances; TLAPS proves the central safety properties for every value of
the constants.

Run one model with `tlc -config <run>.cfg <module>`, check the proofs of a module
with `tlapm <Module>Proofs.tla`. `PROJECT.json` lists the runs, the source lines
behind every definition, the findings and the hazards.

## 1. The system

go-nuts is a Go library for services on NATS JetStream. A service connects
(`connect.go`), puts its background loops and connections into a `ShutdownGroup`
(`shutdown.go`, `drain.go`), runs one `jsconsumer.Run` per durable consumer, and
lets `jsconsumer.Retry` dispose of every delivery its handler fails on.

| Component | State | Operations | Interacts with |
|---|---|---|---|
| `Retry` (`jsconsumer/retry.go`) | failure clocks per stream sequence, claim budget (last claim, its floor) | `Settle`, `DeadLetter`; inside: `noteFailure`, `shouldQuarantine`, `terminate`, `capture`, `awaitRedelivery` | reads the monitor, publishes to the DLQ, DoubleAcks the message, calls `OnSettle` |
| `FloorMonitor` (`jsconsumer/floor.go`) | stalled or not, the floor, since when | `pollOnce`/`observeFloor` on a ticker, `FloorStall` | asks the server for consumer info; shared by all attempts of one `Run` |
| `Runner`, `Run` (`jsconsumer/jsconsumer.go`) | consume loop, handler context, stop once, attempt context, retry delay | `Start`, `Stop`, `Run`, the cancellation watcher | nats.go's consume loop, the monitor's poll |
| `Schedule` (`jsconsumer/schedule.go`) | none | `RungBefore`, `CumulativeTo`, `TimeToDeadLetter`, `LongestRung`, `Validate` | `NewRetry` and `Config.validate` refuse what it rejects |
| `ShutdownGroup` (`shutdown.go`) | closed, first error, loops, connections | `Go`, `AddConn`, `Shutdown`, `Err` | `Drain`, the loops' functions |
| `Drain` (`drain.go`) | none of its own | `Drain` | nats.go's connection and its status listener |
| durable consumer (external) | delivery count, pending timer, ack floor | deliver, expire, acknowledge | everything in `jsconsumer` |
| `Process` (`jsconsumer.go`) | none | decode, handle, dispose | `Retry`, `KeepInProgress` |
| `KeepInProgress` (`natsmsg/keepinprogress.go`) | ticker, tick count, done and finished channels | start, tick, `stop` | the server's lease on the delivery |
| `backoff.Policy` | none | `NakOrTerm`, `DelayFor`, `IsFinalDelivery`, `IsInterrupted` | an alternative to `Retry` |
| `DeadLetter` (`natsmsg/deadletter.go`) | the headers of the copy | `DeadLetter`, `keepsHeaderOnCapture`, `dlqHops` | the DLQ stream, replay tools |
| `Connect` (`connect.go`) | lame-duck flag; TLS files on disk | `Connect`, the lifecycle handlers, `TLSConfigFromFiles` | nats.go, the servers, whoever rotates certificates |
| `Publisher`, trace headers (`natsmsg`) | none | publish, inject, extract | producers |

What is hard about it:

- *Interleaving.* Replicas hold different deliveries of one message once a lease
  has expired. `Run` and the watcher stop the same `Runner`. `Go`, a failing loop
  and `Shutdown` race for the group. Two registrations drain one connection.
- *Failure between steps.* `terminate` publishes to the DLQ, then DoubleAcks: the
  process may die, the publish may fail or only its PubAck be lost, the DoubleAck
  may fail or only its confirmation be lost.
- *Deliveries nobody sees.* The server counts a delivery that died on the wire, in
  a dropped buffer or with a process; at `MaxDeliver` nothing comes back.
- *Timing.* A drain window that ends as the handler returns, or between a capture
  and the Term that follows it; a consumer-info reply judged long after the server
  gave it; a budget of one claim per window; a heartbeat against the lease.
- *State that outlives its owner.* The monitor's stall over the attempts of `Run`;
  origin headers over a chain of captures; a lame-duck notice over a reconnect; a
  certificate and a key replaced while a handshake reads them.
- *Ordering.* Join before drain; join before recreate; record before `wg.Done`.

What makes each component correct:

- *Retry*: a message is never removed without having been processed or captured;
  what `OnSettle` is told is true; the last delivery never slips away silently; a
  retried message really comes back.
- *Breaker*: never early: the stall is real and recent (when a poll can tell), the message itself burned
  the window, one claim per window; the clocks stay bounded.
- *Process, KeepInProgress, Policy*: a running handler keeps its delivery, a wedged
  one does not, the handler's `stop` returns, nothing is given up uncaptured, and delays
  never shrink.
- *DeadLetter*: a record tells the truth about its origin and its hops, carries what
  the application set and nothing the broker would obey, and is never suppressed.
- *Connect*: what is down comes back, with current TLS files, and a disconnect is
  rated as what it was.
- *Runner*: attempts do not overlap, nothing outlives `Run`, handlers get their
  drain window, cancelling ends `Run`.
- *Schedule*: an accepted schedule means what `Validate` promises about it, to the
  message as it is served, not only to the sum of the rungs.
- *ShutdownGroup, Drain*: join before drain, nil means clean, one answer, it ends,
  and connections are closed when it does.

## 2. Modules

    JetStream <- Retry <- RetryProofs          MessageFate (abstract)
                                               Retry implements MessageFate
    Breaker <- BreakerProofs
    Runner  <- RunnerProofs
    Schedule <- ScheduleProofs
    Heartbeat, Backoff <- Process <- ProcessProofs
    Capture <- CaptureProofs
    Connect <- ConnectProofs
    Drain <- ShutdownGroup <- ShutdownGroupProofs

Operators commented `Mutant:` are plausible bugs of the definition that follows
them. No specification uses them; `PROJECT.json` names, for every checked property,
the mutant that breaks it.

### JetStream and Retry

`JetStream` is the durable consumer (external), modelled from how `jsconsumer` uses
it and from what `internal/brokersemantics` measures: every delivery counts, an
unacknowledged one comes back when its rung expires until `MaxDeliver`, and an
acknowledgement of *any* delivery of the message settles it.

`Retry` runs several replicas on it. `phase` is the Runner's state as the handler
feels it (up, draining, cancelled, down); `buffer` the deliveries pulled ahead
(`PullMaxMessages`); `pc`, `cur`, `cause` the one delivery in flight. `Settle`
decides in one step, since it only reads local memory; `terminate` continues in
`CaptureOk`/`CaptureFails` (the DLQ publish) and `DoubleAckOk`/`DoubleAckFails`,
because the world moves between them. Both failing steps have two outcomes: the
request was lost, or only its confirmation was. `terminate` runs under a context
that shutdown does not cancel, so only `Crash` cuts it short. Whether the breaker
trips is an input here, constrained by the conditions of `shouldQuarantine` that do
not depend on time; `Breaker` models the others.

`MessageFate` is the promise with everything else hidden: a message is removed only
after it was processed or copied. `NeverADrop` says that `Retry` implements it, with
`copied` the messages that have a copy in `dlq` and `removed` the settled ones.

### Breaker

`FloorMonitor` and the time-dependent half of `Retry`, in discrete time. A poll is
two steps: the server answers (`PollStart` records the reading), the process judges
it later (`ObserveFloor`) or never gets it (`PollFails`); either way the ticker's
interval counts from then at most (`Answered`), since `pollFloor` makes its ticker after
the first poll and one that fires during a request is taken when it ends. A Settle is `Fail`
(delivery and `noteFailure`), `Judge` (`shouldQuarantine` up to the budget) and
`Claims` or `NoClaim`, and polls interleave with them. `Tick` waits for a Settle in
progress: it is a few locked memory accesses, and a tick stands for minutes. `Tick`
also respects the poll's ticker and its timeout. The attempts of one `Run` share the
monitor and the `Retry`: `LoopLost` ends the poll and the deliveries, `Consume` is
the next attempt's `Start` up to the point where handlers run, `Attach` the rest of
it with `pollFloor`'s first sample; none of them touches the stall. `claims`, `passedAt`, `firstAt`
and `failedSince` are history: what was true of the stream when a claim was made.
Interruption by shutdown is in `Retry`, not here: an interrupted Settle is a
`NoClaim` that does not dispose.

### Heartbeat, Backoff and Process

`Heartbeat` is the goroutine of `KeepInProgress`: `hb` is where it is in its loop,
`tickReady` the channel of the ticker, `done` the channel `stop` closes. `TakeTick`
may be chosen with `done` closed, as Go's `select` may. What a call of `InProgress`
does to the server is left to the module that composes it. `Backoff` is the
arithmetic of `Policy`, with `MaxDuration` for `math.MaxInt64`.

`Process` puts both on a durable, for a consumer without a `Retry`: an undecodable
payload is Termed (`DecodeFails`), otherwise the heartbeat starts, the handler runs
as long as it likes and acknowledges, or fails and disposes of the delivery as
package `backoff` documents: `IsInterrupted` and `IsFinalDelivery` gate a capture, a
capture that fails leaves the delivery alone, then `NakOrTerm`. `Interrupt` may fall
before, between and after these. Acks, Naks, Terms and extensions may be lost.
`HandlerReturns` is the deferred `stop`, `ProcessReturns` its join. nats.go marks a
message disposed of after it has published the disposition (`ackd`), so that an
`InProgress` may follow a Nak and replace its delay with a whole lease; the model
has that, and only a later redelivery comes of it.

### Capture

`log` is what each stream stores. `DeadLetter` copies a stored message to the DLQ of
its stream; a second capture of the same message, the capture of a DLQ record into a
parking stream and a replay upstream make chains. Every header kind the code treats
differently is one key: the application's, the broker's, the five origin headers
(stream, sequence and timestamp are one: same source, same fate), hops, delivery
count, and provenance nobody here wrote. Producers may forge any of it. `first`,
`captures`, `seen` and `genuine` are history.

### Connect

Certificates are generations. `Dial` to `ServerDecides` is one handshake, which reads
the CA, the certificate and the key as separate steps while `RotateFile` and
`RotateServer` go on. nats.go's callbacks run in order, later than the events:
`queue` holds them with the level each deserves (`due`, history), `RunCallback` is
the handler with its `lameDuckPending`.

### Runner

One `Run` over its attempts. `Start` is `StartConsumes` (`Consume` has been called:
handlers may run) and `StartReturns` (monitor attached, poll and watcher started),
or `StartFails`. `stop` is the body behind the `sync.Once` of `Runner.Stop`;
`StopReturns` is what every caller of `Stop` waits for: loop and poll. `asked`
remembers which consumer a poll's request went to, `elapsed` which drain windows
ran out. The time a loop survived is an input (`AttemptOver` may reset the delay),
as is whether a Start error is retryable.

### Schedule

The arithmetic of `schedule.go` as operators, durations as signed integers that wrap
round past `MaxDuration` (`math.MaxInt64`) at every addition of `CumulativeTo`'s loop. A behaviour picks one schedule that `NewRetry` and `Validate` accept
and replays it: the handler fails at any moment of its lease, deliveries get lost,
the server redelivers when the lease expires and the stream discards what is too old.
The properties compare what `Validate` computed with what the message lived through.

Three times are not in `Validate`'s sums, and the code says so of two (`retry.go` 284,
401). `lag` is the backlog before the first delivery: the stream's age runs from the
publish. `onTop` collects what a heartbeat adds to a lease and the waits after lost
terminal deliveries. `noticed` is when the monitor's poll first saw the stall: the
breaker's stall clock starts there, and not at the failure. `DeadLetterInTime` grants
the first two on top of the bounds it checks, `RecoveryWindowIsSafe` is about messages
with none of the second, `PinIsBounded` counts from the notice. A breaker with this
message alone in one process, readable polls and a free budget must act when it may
(`noticed` is a time); any other may trip on a stall as old as one likes, or never
(`noticed` is -1: other messages' stalls and claims, restarts, `BreakerObserve`). The
failure clock starts at the first failure the process saw.

What an accepted schedule does not promise, and the replay shows: a `FloorAge` equal to
`TimeToDeadLetter` is accepted, and since the stall is noticed after the first delivery
the ladder is spent before the breaker acts; `LongestRung` stops at the dead-letter
delivery, so the rungs behind it may exceed `FloorAge`; a handler with a heartbeat may
take a message past `FloorAge` before the delivery it would have recovered on.

The client-side ladder (`NakDelay`, `Factor`) is left out: no `Config` produces one.

### Drain and ShutdownGroup

`Drain` has the four places where a call can be overtaken: the IsClosed check, the
listener, `nc.Drain`, the wait. `ShutdownGroup` makes every critical section of
`g.mu` one step and every call outside it another: a loop's failure is stored, then
`g.cancel`, then `wg.Done`. A connection may be registered twice. Nil connections,
which `AddConn` ignores, are left out.

## 3. Runs

All runs say `CHECK_DEADLOCK FALSE`: settled messages, a returned `Run`, a finished
shutdown or the bound on the clock are ends the system really reaches.

| Run | Bounds | What it shows |
|---|---|---|
| `retry` | 1 message, 2 replicas with buffers of 2, 3 deliveries (1 in reserve), breaker enforcing, 1 stop or crash, fair | Stale deliveries run beside current ones on another replica, with a stop or a crash at any point: no drop, true reports, no silent strand; a retried message comes back and every message ends |
| `breaker` | 1 process, 2 sequences, window 2, poll interval 1, clock 5, 1 restart, reliable polls and acks | The budget, fresh claims, and claims on messages that failed the whole window |
| `breaker_unreliable` | 3 sequences, room for 2 clocks, TTL 1, clock 2, 1 restart or lost loop; polls fail, acks get lost | The stall clock is never early all the same, across a recreated consumer too; the sweep keeps the cap |
| `runner` | 3 attempts, delays 1..3, fair | Attempts do not overlap, `Run` returns drained, handlers get their window, no reply of an old consumer reaches the shared monitor; cancelling ends `Run`; a closed loop is released |
| `schedule` | rungs 1..3, up to 2 of them, `MaxDeliver` up to 4, backlog 0 or 2, a poll up to 1 late, extensions 0 or 1 | A recovery in time is never quarantined; the ladder is spent within its bound and before the stream discards, up to what the code says comes on top; a message that alone pins the floor is served or disposed of at least once a `FloorAge` once the breaker could act |
| `process` | 2 workers, 2 deliveries, lease 3, 2 extensions, delays that outgrow a duration or are capped below it, limited and unlimited policies, fair | `stop` always returns, whichever way the heartbeat went; a running handler keeps its delivery unless two extensions in a row are missed or its runway is over; a wedged one loses it; a given-up message was captured and had all its deliveries |
| `capture` | 2 sources, 1 shared Msg-Id, 2 publications or replays, 2 captures per DLQ | Origin, hops and application headers of every record; every capture that reached the broker is stored |
| `connect` | 1 rotation of each file and of the servers, 4 notices or disconnects, fair | Disconnects are rated right; identities are current; a connection comes back |
| `shutdown` | 2 loops, 2 callers, 2 connections, 2 registrations, fair | Join before drain, nil means clean, one answer, teardown is no failure, failures cancel, Shutdown ends |

Why these bounds are enough. Two replicas are needed for a stale delivery to meet a
current one; a third repeats the second. Three deliveries with one in reserve give
each kind of delivery the code tells apart: before the terminal ones, terminal with
deliveries left, and at the cap. A window of 2 with a clock of 5 has room for two
whole windows and a claim in each. Three sequences over a cap of two force a sweep.
Two attempts make an overlap possible, the third an overlap across a gap. Two workers
let a redelivery run beside a handler that lost its lease, and two deliveries make one
that is final and one that is not. Two captures per DLQ are the shortest chains of
each kind (again, onwards, after a replay), with both captures knowing different
things. One rotation gives every order of the files, the servers and the reads; four
events give a notice, its disconnect, and both again. Ladders
shorter and longer than the number of deliveries, bounds that bind and that do not,
thresholds inside and outside the ladder, and times on top that exceed the margin of a
bound all occur in `schedule`. `breaker_blind` has a window of 3: the age a stall keeps
beyond its end must fit between the poll interval and the window.
For the invariants that are proved (section 5) the bounds do not matter.

Every module with state has a `TypeOK`, and every one but `Capture`'s is proved
(`TypeCorrect`); `Capture`'s holds on the same instance when added to the cfg as an
INVARIANT.

### Fairness

- `Retry`: handlers return, loops dispatch, a wound-down loop ends, a stopped
  process is replaced, and the server serves and times out. Which way a handler, a
  publish or an ack goes is left open, and so is every stop and crash. This is what
  the library assumes: `Run` supervises its loop, an orchestrator its process.
- `Runner`: goroutines run and timers fire; a request is answered or times out; a
  handler returns once its context is cancelled, which `Start` demands of it. For
  the end of the poll the fairness is strong: a poll whose context is done may
  still pick its ticker, but Go's `select` chooses at random among ready cases.
- `Process`: time passes, the server acts on expired leases, the heartbeat's goroutine
  runs, and `Process` returns once its heartbeat has finished. Nothing is assumed of
  handlers, nor of which ready case a `select` takes: that is what `WedgedIsReleased`
  and `StopEnds` are about.
- `Connect`: nats.go dials again and a handshake goes on (`MaxReconnects` is -1 and
  `ReconnectWait` finite); a rotation that began is completed on both sides, without
  which no client could come back.
- `ShutdownGroup`: goroutines run, timers fire, deferred functions complete. Nothing
  is assumed of the loops' functions, of the connections, or of who calls what.

## 4. Disagreements between the code and its comments

Three runs show a comment or a check that the code does not keep. `PROJECT.json`
quotes the lines.

- `breaker_blind`: "the consumer is genuinely stuck", "late, never early". The monitor
  outlives the consume loop, and `Start` calls `Consume` before `attach`. In the trace
  the message at the floor is acknowledged and the loop is lost before a poll sees the
  floor move; the next message fails in the gap and again after it, and is claimed on
  the old stall, aged to `FloorAge`, while the durable has stood at its new floor for
  less. With `BreakerEnforce` it is dead-lettered. `ClaimsOnStuckConsumer` accepts a
  claim on a floor that really stood for a window, and one on a stall that ended no
  longer ago than polls take to tell. A poll that cannot read consumer info leaves the
  last stall ageing in the same way.
- `breaker_recovered`: a claimed message "has burned FloorAge of retries". A success
  whose ack was lost does not reset the clock.
- `schedule_overflow`: the sum of the rungs is not saturated, so a ladder whose total
  exceeds a `time.Duration` passes the bounds it breaks, and the stream discards the
  message uncaptured, with no backlog and nothing on top. With 24h rungs that takes a
  `MaxDeliver` of more than 100000; the run shows it with 4-bit durations.

Smaller ones, met while modelling and visible in the models, without a run:

- `retry.go` 85, "nothing reached the DLQ" for a stranded message: an earlier delivery
  may have been captured with its DoubleAck failing, or this capture's PubAck may be
  what was lost.
- `jsconsumer.go` 496, "buffered ones ... redeliver on AckWait": not a final delivery.
- `retry.go` 908, "one message per FloorAge, whatever the cause": the budget is per
  process, and replicas share a durable.
- `deadletter.go` 280, "only an absent one is filled in": the origin is one block, and a
  later hop fills in nothing. `OriginIsFirstHop` is what the code does and what the
  text above the marker wants; filling in would mix two messages' origins (the mutant
  `OriginFieldByField`).
- `deadletter.go` 26 gives `DefaultJoinTimeout` as 10s; `shutdown.go` 28 has 15s.
- `DelayFor` returns `NakDelay` for a first delivery even above `MaxDelay`, so that the
  second delay may be shorter. `DelaysGrow` excludes it.

## 5. Proofs

Each theorem holds for every value of the constants that the ASSUMEs of its module
admit; those are what the constructors accept (`NewRetry`, `NewFloorMonitor`), plus
the disjointness of the "nothing here" values.

- `RetryProofs`. `TypeCorrect` includes that a replica holds a delivery exactly when
  its handler is busy. `ReportsTrue` needs `WorkDone`: a replica about to DoubleAck
  has its copy in the DLQ, one about to Ack has processed its message; and that
  `dlq`, `settled` and `processed` only grow, so a true report stays true.
  `FinalAccounted` rests on the same invariant: a holder lets go of the last delivery
  only in a step that settles, has processed, flags or loses the message.
  `Refinement` (`Retry` implements `MessageFate`) goes step by step, with `WorkDone`
  giving `Remove` its guard.
- `BreakerProofs`. `BudgetHolds`: the budget lets a claim through as soon as the
  floor differs from the last claim's, which alone would allow two claims in one
  window. What keeps them apart is the monitor: a stall at another floor began after
  the last claim, so it cannot be `FloorAge` old before a window has passed. A lost loop
  and its successor keep both the stall and the budget, so they change nothing.
  After a restart the new process's first stall began after the restart, so after
  every earlier claim. The invariant states both, and that a verdict about to be
  spent was reached in this tick. The argument rests on no tick passing inside a Settle.

  `StallClockHolds` rests on the durable only growing (`Grows`): a reading under way and
  a stall that stands are never ahead of it (`Behind`), so what the history says of the
  floor before them and the message after them is not rewritten. `ClocksAreBounded`
  counts the clocks, one per sequence: `noteFailure` sweeps before it adds.

  `FreshHolds` and `BurnedHolds` are claims about the code under a hypothesis each, and
  the runs show that each is needed. A claim is decided on a stall that the durable left
  at most one poll interval and two requests ago, if consumer info is readable and the
  loop stays up (`breaker_blind` drops the latter). Two requests, because the last
  sample may have been read a request before it was judged, and the next one may be
  under way. A claimed message has failed for a whole window with no success in between,
  if acknowledgements land (`breaker_recovered` drops that) and one process serves the
  durable: with two, another may succeed between this one's failure and its claim, in
  which case the message is dead-lettered although it was processed.
- `RunnerProofs`. One invariant gives `NoOverlap`, `RepliesAreCurrent`,
  `DrainedOnReturn` and `WindowKept`: attempts above the current one are untouched,
  those below are wound down, and the current one is where `Run`'s location says.
  Only then can a poll be known to ask the attached consumer.
- `CaptureProofs`. A DLQ record may descend from a replayed copy in a source stream, so
  the invariant speaks of every stored message: `ChainHolds` says that a message that
  was captured carries the marker, its first capture's origin and its count, and an
  honest one that never was carries neither. `DeadLetterKeeps` then has two cases,
  first hop and later hop. `NothingSuppressed` needs only that a copy has no Msg-Id: the
  retry of a capture whose PubAck was lost is stored a second time, never taken for a
  duplicate.
- `ShutdownGroupProofs`. The invariant orders the stages of `Shutdown` (no loop
  starts and no registration is made once the group is closed; answers come after
  all drains), and says that every failure has been stored before its goroutine can
  be counted as ended. From it follow `DrainsClose`, `JoinFirst`, `NilIsClean` and
  `SameAnswer`. `TeardownHolds` is an action property: the only step that can store a
  premature return looks at `closed` first, under the lock.
- `ProcessProofs`. `RunwayHolds` is arithmetic over the heartbeat's ticks. While a handler
  runs, the age of its delivery is what its ticks took plus what the ticker has run
  since (`OnTime`), and the lease that no Nak touched has at least an `AckWait` left,
  counted from the last extension that landed (`LeaseLasts`). A lease that runs out with
  fewer than two misses would need an `AckWait` shorter than three intervals, unless the
  tick cap is spent. `GivenUpHolds` needs `FinalIsCaptured`: an uninterrupted final
  delivery reaches `NakOrTerm` only through its capture, and interruption never goes
  away. `DelaysHold` first shows that `Power`, a recursive function, has a value for
  every exponent, and that powers of a factor above 1 grow.
- `ScheduleProofs`. The loop of `CumulativeTo` has a value for every delivery
  (`CumulativeSteps`). Up to its terminal delivery the replay is on time but for what is
  on top (`OnSchedule`): a delivery starts at `CumulativeTo` of it plus `onTop`, and
  what `Validate` compared with that total bounds it (`RecoveryHolds`,
  `DeadLetterArrives`). `PinHolds` needs no sum: an eligible message
  that failed without being quarantined failed less than a `FloorAge` after one of its
  two clocks, and each wait since is a rung no longer than `FloorAge`. The first two
  are about schedules with `Fits`: every sum the loop forms is at most `MaxDuration`.
  `schedule_overflow` shows the promise broken without it, and `ShortLaddersFit` gives a
  condition anyone can check: the deliveries times the longest rung are a duration. The
  types and `PinHolds` hold with and without it.
- `ConnectProofs`. Callbacks run late and in order, so the invariant rates the queue and
  not the log: the flag that the next disconnect will find is known from what stands
  before it (`QueueIsRated`). `IdentityHolds` needs what a handshake knows after each
  read (`HandshakeReads`): what it holds is at least as new as when it began, and a
  matching pair once it is past the comparison.

Every safety property that a passing run checks is proved, for every value of the
constants and under the hypotheses named above. Only model-checked: everything under
fairness (`RetriedComesBack`, `EveryMessageEnds`, `CancelEndsRun`, `ClosedLoopIsReleased`,
`FailureCancels`, `ShutdownEnds`, `WedgedIsReleased`, `StopEnds`, `Reconnects`), since the prover
reasons neither about fairness nor about ENABLED; and `Capture`'s `TypeOK`, which the
proofs there do not need. The library's induction theorems take an operator as a
parameter and cannot be used; what is recursive here (`CumulativeTo`, `Power`) is a
function over the naturals, and each induction is done by taking the least number for
which the claim fails (`Least`). What no property claims is not proved either: in
particular, nothing bounds the claims of several processes on one durable together.

## 6. Assumptions and what is left out

- `CaptureReserve` is a number of deliveries, not of capture attempts: deliveries that
  are lost, die with a process or are interrupted on the last rungs use it up without
  an attempt. The model has all of these; no property says that a first capture has
  the whole reserve behind it.
- A confirmed DoubleAck settles the message, also after the final delivery expired.
- Deliveries carry metadata; the code's paths for a delivery count of 0 are left out.
- A handler runs one delivery at a time per loop, as nats.go's `Consume` does, out of
  nats.go's buffer; every delivery the server makes has a count of its own, so no two
  handlers work on the same one.
- `FinalDeliveryAccounted` and `EveryMessageEnds` count a final delivery dropped from a
  stopped loop's buffer, or held by a process that dies, as lost (`gone`): the code does
  lose it. They say that nothing else is.
- BackOff entries and AckWait are positive.
- A lost loop finds its durable as it left it. Deleting the durable on the server,
  which starts its counts and its floor over, is left out of `Breaker`.
- `Heartbeat`: a goroutine takes its tick before the next unit of time. `Factor` is an
  integer. A message without a reply subject, which ends its heartbeat at once, is left
  out.
- The handler in `Process` is the one package `backoff` documents; a handler that Terms
  after a failed capture would break `GivenUpIsCaptured`, as `DeadLetter` warns.
- `Connect`: lame-duck notices reach established connections only; a rotation replaces
  the certificate, then the key. `WithNATSOptions`, which may override `MaxReconnects`
  and the handlers, is left out, as are connections without TLS files.
- `Capture`: a stream's duplicate window never closes, the strictest case for
  `CapturesAreStored`. A forged hop count is not a number. `landed` counts the captures
  that reached the broker: whether the caller was told so changes nothing there, and a
  caller that got an error may capture again.

Not modelled:

- Logging, metrics, spans, message texts and the wording of violations.
- `natsmsg.Publisher` and trace headers: a single synchronous publish, and reads and
  writes of two headers; no state that a later step could find wrong.
- `SubjectToken` and the error classifiers of `drain.go` and `jsconsumer.go`: pure
  predicates and string functions, which are inputs here (whether an error is
  retryable, whether a loop closed in a shutdown).
- `natsmsgtest` and `internal/brokersemantics` are test code; the latter is the
  evidence for `JetStream`.

## 7. Plan

Done: every component with a state or a protocol of its own, in the order in which they
decide a message's fate.

Next, models: `ShutdownGroup` composed with `Runner` in time (the join timeout against
the drain window and a capture that is detached from shutdown, which `retry.go` 1081
and `deadletter.go` 25 discuss); the client-side ladder in `Schedule`; a durable deleted
and recreated under a monitor.

Next, proofs: `Capture`'s types; a bound on the claims of several processes together,
`Processes` times the budget of one, which follows from `BudgetHolds` but no run states;
that `Process` and `Breaker` implement `MessageFate` on their own durables.
