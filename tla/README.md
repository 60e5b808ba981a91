# ApexPulse in TLA+

ApexPulse turns a Counter-Strike telemetry stream into live match state, win
predictions and WebSocket frames. A simulator emits events, a broker carries
them, a consumer dispatches them to handlers, and the handlers keep windows, a
state store, a DuckDB history and predictions up to date; an API pushes all of
it to a dashboard. Offline, a booster is trained on the history and saved as a
checkpoint, which the engine loads. This directory holds specifications of that
program, TLC configurations that check them on small instances, and proofs of
the parts that matter most.

Backend paths are written without their prefix `src/apexpulse/`, dashboard
paths without `frontend/src/`; both are relative to the root of the repository.

## 1. Inventory

Everything on the backend runs in one asyncio event loop per process. Tasks
interleave only where one suspends, so a *step* of these specifications is the
code between two suspension points. Which awaits really suspend matters: a
`queue.get()` on a non-empty queue does not, the SQLite and memory stores do
not, `broker.publish()` does not, Redis and a poll in a thread do. Processes
meet in the state store (a SQLite file or a Redis server), in Kafka, in the
DuckDB file and in the files of a checkpoint.

| Component | State | Operations | Hard parts | What makes it correct |
|---|---|---|---|---|
| In-memory broker (`broker/memory.py`) | running flag, next offset, queue per group, drop counter | start, stop, publish, consume (an async generator), flush | takeover of a group by a second generator, `finally` blocks that run late in a task of their own, full queues, restart | order, at most once per group, every loss counted, iterations end |
| Kafka broker (`broker/kafka.py`) | running flag, producer queue, consumers; the cluster keeps log and offsets | the same interface | auto-commit, a poll in a thread whose await is cancelled, stop() closing consumers under their generators, crashes, lost sessions, messages of other clients | the promise of the in-memory broker until a fault; of what was polled, one message per interruption at most is lost after it |
| Consumer (`stream/consumer.py`) | stop request, handlers, counters | on, run, stop, dispatch | failing handlers, stop and cancel at each suspension, runs in sequence | handlers see every event in order, counters exact |
| Live command (`cli.py live`, `producer/replay.py`) | main task and consumer task | replay, flush, stop, await | flush counts queued messages only; stop is read only on a message | what it drained was handled; it ends if its limit is reached (section 6 has the rest) |
| Windows (`stream/window.py`) | deque of samples per signal and match | append, evict, observe, reset, metrics | boundaries of the span, reset between rounds | momentum is that of the round's last span of kills, and of ticks |
| Tracker (`stream/tracker.py`) | window per match | handle | interleaved matches, failing writes, restarts | snapshots and histories are exact |
| State manager, keys (`storage/match_state.py`, `keys.py`) | none of its own | save, append_round, drop, discovery, scan | read-modify-write over suspensions, one key space | discovery exact, scans return current data |
| State stores (`storage/state.py`) | rows with expiry | get, set, delete, keys, sweep | time boundaries, two processes on one file | an unexpired value survives and is returned |
| Simulator (`producer/simulator.py`) | match, round, bomb, money, gear | the event generator | coincident timers, overtime, the loss ladder | valid events, scores add up, money conserved, it ends |
| Schemas (`schemas/`) | none | validation | combinations of fields | used as properties of the simulator |
| WebSockets (`api/connections.py`, `broadcaster.py`, `routes/stream.py`) | registry of sockets, counters | connect, disconnect, broadcast, prune, close_all | a socket registered before its welcome, a read that raises in between, pruning against its own task, dead peers | who stays gets every frame in order, who vanishes is removed |
| API process (`api/app.py`, `dependencies.py`, `routes/health.py`) | the demo task, store, manager, engine | startup, shutdown, demo loop, health | a store error in the demo, release under running tasks, a probe that suspends | the demo plays on, a signal ends the process, nothing is released under a user |
| DuckDB sink (`storage/duckdb_sink.py`) | tick buffer, three tables, columns | handle, flush, stop, migration, training view | crash with a buffer, upsert against append, inserts by position | no tick is lost silently, labels belong to their round |
| Features (`features/`) | none | extract, build frame, split | two paths that must agree, rounding of the split | the model is served the features it was trained on |
| Checkpoint and training (`ml/training.py`, `cli.py`) | three files | fit, save, load, validate | three writes without a transaction, readers meanwhile, splits recomputed later | an engine is one training, metrics are of matches nothing was fitted on |
| Engine (`inference/engine.py`, `ml/calibrator.py`) | calibrator, latency statistics | predict, predict_batch | batch rows against batch indices, a rolling window | a batch is its states one by one, the calibrator keeps the order |
| Worker (`inference/worker.py`) | window per match, counters, last scored event | handle, score, publish, store | published and then not stored, cancellation, restart | every tick is accounted for, the store holds the newest announced prediction |
| Drift and calibration reports (`ml/drift.py`, `calibration.py`) | none | histograms, PSI, severities, bands | degenerate quantiles | every row is counted, certain cases are judged so |
| Dashboard (`hooks/useWebSocket.ts`, `hooks/useMatchStream.ts`) | current socket, retry timer, reducer state | connect, retry, reconnect, reduce | late close of an abandoned socket, a constructor that throws, missed frames, server restarts | one connection, it comes back, what is shown does not step back |
| Configuration, logging, containers, CI | none | read at start | none | not modelled |

How they interact: the simulator's events go through the replayer into a
broker topic; `TelemetryConsumer` iterates the broker's generator and awaits
each handler in turn (tracker, sink, inference worker); the tracker and the
worker write to the state store; the worker publishes to a second topic. The
API reads the store, and in demo mode its own task calls the tracker, the
engine and then the broadcaster for each event; a page receives a welcome and
the frames after it. `dataset` fills the sink, `train` reads its view and writes
the checkpoint, `serve`, `predict` and `validate` read it.

## 2. Modules

| Module | Models | Notes |
|---|---|---|
| `TopicFanout` | what a broker promises for one topic (`broker/base.py`) | abstract: publish, and deliver in ascending order, never to two members of a group |
| `InMemoryBroker` | `broker/memory.py` | one topic; a subscriber is one generator |
| `KafkaBroker` | `broker/kafka.py`; client library and cluster are external | one partition, one group; a second implementation of `TopicFanout`, until a fault |
| `TelemetryConsumer` | `stream/consumer.py` | EXTENDS `InMemoryBroker`; its steps are joint steps with the generator it iterates |
| `LivePipeline` | `cli.py live` with `producer/replay.py` | EXTENDS `TelemetryConsumer` |
| `Roster` | the two teams (`schemas/enums.py`) | shared by the two modules below |
| `MatchSimulator` | rounds and match control of `producer/simulator.py` | random draws are choices; durations in ticks |
| `Economy` | money and equipment of `producer/simulator.py` | |
| `SlidingWindow` | one window of `stream/window.py` | operators, and the reference definition they are compared with |
| `MatchTracker` | `stream/tracker.py`, snapshot and history writes | EXTENDS `SlidingWindow` |
| `MatchDirectory` | key space, discovery, drop and scan of `storage/match_state.py` | |
| `StateStore` | the three backends of `storage/state.py` | a behaviour starts from a deployment: a backend and its processes |
| `DuckDBSink` | buffering, upserts and the training view of `storage/duckdb_sink.py` | |
| `WebSocketHub` | registry, per-socket tasks, demo task, broadcaster | |
| `ApiLifecycle` | `api/app.py`, `api/dependencies.py`, `routes/health.py` | EXTENDS `WebSocketHub`: the process around the hub |
| `InferenceWorker` | `inference/worker.py` | |
| `Dashboard` | the two hooks, with an abstract server | |
| `ModelLifecycle` | `ml/training.py`, `features/dataset.py` (split), the loading half of `inference/engine.py`, and the commands that run them | |
| `Features` | `features/extractor.py`, `features/dataset.py` (columns), schema migration of the sink | exact fractions |
| `Numbers` | what the two modules below take from Python and numpy: sorting, distinct values in order, running sums | operators only, written so that they can be reasoned about |
| `Scoring` | predict, predict_batch and statistics of `inference/engine.py`, `ml/calibrator.py` | |
| `Reports` | `ml/drift.py`, `ml/calibration.py` | |
| `*Proofs` | theorems (section 5) | eight modules; each EXTENDS the components it is about |
| `MC*` | values of the constants for TLC, and the composition of the parts of a run | they EXTEND the components, so that TLC also evaluates the assumptions of the proofs; no behaviour of their own |

`PROJECT.json` maps each definition to the lines it stands for. Definitions
introduced with "Mutant:" are plausible mistakes in the code; each is kept next
to the definition it replaces, and used to confirm that a property notices it.

### Correspondence, module by module

**InMemoryBroker.** `registry[g]` is the generator that owns
`_queues[topic][group]`; a queue outlives its entry because the generator holds
a reference to it. `pc` says where a generator is suspended: before its first
step, in `queue.get()`, at `yield`, left by its caller with `aclose()` still to
run (`abandoned`), or finished. `Subscribe` is the code before the loop and, on
a broker that is not running, the `finally` block as well. `Resume` is the loop
condition and a `get()` that suspends only on an empty queue. `Wake` does not
read `_running` again, as in the code. `Release` is the `finally` block: it
pops whatever queue the *group* has, not the generator's own. `received`,
`since` and `shed` are history variables. Topics share only `_running` and the
sum of the drops, so one topic is modelled.

**KafkaBroker.** The same places of a generator, with `polling` (suspended in
`to_thread(consumer.poll)`) and `returned` (the thread has a message, the event
loop has not resumed the generator): a cancellation between the two loses it.
`PollReturns` stores the offset to commit before anyone has seen the message, as
the client does under the configuration in the code; `AutoCommit`, `Assign`,
`Revoke`, `Evict`, `Deliver` and `FailDelivery` are the cluster and the client
library. `StopRequest` and `StopEnd` are `stop()` before and after the flush;
`StopEnd` closes every consumer, whatever its generator is doing. `Crash` takes
the whole process. `interrupted` counts the messages taken from a caller. `Intrude`
lets another client of the cluster write to the topic: a message without a value is
passed over (`PassOver`), one whose key or header does not decode ends the generator
(`Undecodable`); `publish()` writes neither. `Assign` starts at the end of the log
whenever the group has committed nothing (`auto.offset.reset` is "latest"); what such
an assignment jumps over, after the group's first one (`begin`) and without having been
handed to anybody (`taken`), is kept in `skipped`.

**TelemetryConsumer.** `Run`, `Receive`, `Handle`, `Leave` and `CancelRun` are
the pieces of `run()` between suspensions, `RequestStop` is `stop()` called by a
signal handler or another task. `next` and `leaving` are program points of the
task that the code passes without suspending; keeping them as states of their
own admits more interleavings than asyncio does. `Receive` computes the outcome
of one message (parse failure, stop request, dispatch) in one step. `handlers` is
the dictionary of lists, `todo` the list a dispatch still has to await, typed
handlers first; `Due`, `Awaiting` and `Active` are what the property says of them.

**LivePipeline.** `main` is the program counter of the command. The replayer
suspends only after a tick, so between ticks it publishes a burst (`busy`) in
which the consumer does not run. `Flush` is the poll of `flush()` and its
deadline. `Starved` says what keeps the command from ending: its consumer waits in
`get()` on an empty queue, below its limit, with everything published accounted for.
The printing at the end is left out.

**MatchTracker.** One step runs up to the next store call that may suspend.
`Handle` updates or releases the window and reaches the first store call;
`SetSnapshot`, `GetHistory`, `SetHistory` and `Finalise` are the store calls that
follow. Failures, expiry, restarts and shed events are bounded by constants. A
restart empties the windows and reads the topic again from an earlier position.

**MatchDirectory.** A key is the sequence of its parts between colons; parsing
and building keys are modelled by what they do on parts. `live_snapshots()` is
`ScanKeys` and one `ScanRead` per match, in any order (the code reads them
sorted). Match ids contain no colon in the run: see section 6.

**StateStore.** `deployment` is chosen at the start. Only SQLite's `get()` takes
two transactions when the row has expired; the history variable `robbed` marks
keys whose fresh row such a late DELETE took, which can only happen with two
processes on one file.

**MatchSimulator, Economy.** The numbered sections of `_simulate_live_round` are
the actions: `LiveTick` and `Clock` are the tick and the clock, `Engage` the duel
(1), `Resolve` the four ways to decide the round or to plant (2 to 5), tried in
the code's order, and `RoundEnd` the code after the loop. Health, position and
weapon choice are left out of both; `Economy` replaces the course of a round by
what pays or costs.

**WebSocketHub, ApiLifecycle.** One task per socket, one demo task, the lifespan
and a probe. `suspends` (chosen at the start) is whether store calls suspend. A
broadcast takes its targets, sends to all of them, awaits all of them, and
prunes the ones that failed. `phase` is where the lifespan is: `Startup` may
leave the engine unset or fail on the store; `Signal` is the server closing
every socket; `EndLifespan` cancels and awaits the demo, which raises if the
demo had died; `Shutdown` is `close_all()` and the stop of the store. uvicorn is
external: it resumes the lifespan only when the tasks of sockets and requests
are over. A welcome whose read raises closes a socket its client still wants, in the
step of its registration (`ConnectFails`, a store that does not suspend) or in one of its
own (`WelcomeFails`).

**DuckDBSink.** No call suspends: one event is one step, with the flush it may
trigger. What the columns hold, and the migration of a table that an older build
created, is in `Features`.

**InferenceWorker.** One step runs up to `store.set()`, the only await that
suspends: `Score` is a tick scored and published, `PublishRaises` the same with a
broker that refuses, `SetReturns`, `SetFails` and `Cancelled` the ends of the
write; a write that failed or was cancelled may have been applied. `Restart`
keeps the store only and may set the stream back.

**Dashboard.** A slot is a WebSocket object with its frames in flight; closing
one moves it to `closing` until its onclose runs. `Closed` is onclose with the
scheduled retry, `ClosedLate` the onclose of an abandoned socket, `Retry` the
timer, `Reconnect` the button, `Enable` and `Disable` the effect and its cleanup.
`valid` says whether `new WebSocket` takes the url that was set; if not, `Connect` is a
failed attempt with a retry to come.
`Reduce` is the reducer, frame type by frame type. The server plays match after
match under one id, may stop and come back, and sends a throttled subset of
state frames.

**ModelLifecycle.** `Save` writes one file in two steps (torn, complete), in the
order of `SaveOrder`; `CrashTrain` may stop it anywhere. A reader opens and reads
the three files one at a time (`Read`) while a save may run. What a file holds is
the record of the training that wrote it: its data, the matches its trees were grown
on (`learned`), those early stopping looked at to choose their number (`watched`, the
whole test side), those its calibrator was fitted on and those its metrics are of, the
number of trees and the build whose features it used; the files may start as those of
an older build. `Validate` recomputes the split on the data of the day.

**Features.** A snapshot is reduced to the aggregates the fifteen features are
made of. `Extract` is the live path, `Offline` the path from a stored row, and
`Start`, `WriteTick` and `OldBuildWrites` build the table the rows are read from.

**Scoring, Reports.** What the booster says of a state is given, in grid units;
the calibrator's interpolation, the batch bookkeeping, the rolling latencies and
their percentiles are computed as in the code. In `Reports` the logarithm of a
PSI is left out: it is told apart as zero, as the constant for a shifted
constant, or as positive.

## 3. Runs

A run composes the parts of the system that answer one kind of question. Where
parts do not share state, a variable `part` is chosen in the initial state and
the others stay as they are: the behaviours of a run are then those of its parts,
and its state space is the sum of theirs.

| Run | Question | Distinct states | Verdict |
|---|---|---|---|
| `InMemoryBroker_core` | order, capacity, duplicates, accounting, refinement of `TopicFanout`, end of iterations after a stop | 349,640 | holds |
| `Telemetry_paths` | simulator (rounds, economy), consumer over the broker, the command `live` with limits of zero, below, at and above what the match delivers | 256,367 | holds |
| `Consumer_full` | `live` ends whatever its limit (here 0) | | violated |
| `Storage_parts` | tracker, stores, directory, DuckDB sink | 2,288,058 | holds |
| `MatchTracker_demo` | a history belongs to one play | | violated |
| `Api_process` | the hub with two clients, and the whole life of the process with one client, a probe and a signal | 387,760 | holds |
| `Api_released` | a process that ended released its store | | violated |
| `Serving_faults` | Kafka transport, inference worker and page under crashes, failures, lost connections and restarts | 1,511,283 | holds |
| `Dashboard_stale` | a snapshot of a freezetime has no stale gauge beside it | | violated |
| `Model_checkpoints` | checkpoints, features, scoring, reports | 827,232 | holds |
| `Model_validate` | `validate` scores held-out matches only | | violated |
| `Model_drift` | a disjoint sample has a PSI above zero | | violated |

Deadlock is not checked: in each of these the system may stop. The calls in a
behaviour are bounded, and a broker, consumer, command, match, sink, process or
page that has done its work does nothing more.

### Bounds

* Broker: three generators, two in one group, two starts, capacity 2, three
  messages. Two members of a group are what takeover needs, a third generator
  shows that groups do not disturb each other, three messages fill a queue of
  two, two starts let a generator outlive a restart. The proofs remove these
  bounds.
* Consumer: two runs, two handlers (typed and wildcard), six payloads of which the
  fifth is malformed, of which three are published before a run begins
  (`AnyFrom`), so that a run that starts late, a parse failure in the middle and a
  limit of one event are all met. Live command: two ticks among the events before
  the malformed payload, so that there is a burst before, between and after ticks,
  with limits of 0, 2, 3, 5 and 7: the first two that are not zero are reached, with 5 the
  replayer stops at the malformed payload and the consumer one event short of it, 7 is
  larger than the match of six, and 0 asks for all of it. The queue of three never sheds here, as one of 10,000
  does not shed what a burst publishes; events shed by a full queue are in
  `InMemoryBroker_core`, and the theorems on the consumer hold with them.
* Simulator: one CT against two Ts, first to three, a tie possible after four
  rounds, a bomb that outlives the round clock. Economy: the same teams,
  the prices and rewards of `schemas/constants.py` and `schemas/enums.py`, four
  rounds, a cap of 6000 instead of 16000 so that four rounds reach it.
* Tracker: two matches alternating or in sequence, two rounds each with an event
  exactly one span old, or four rounds against a history cap of three; one
  failure, one expiry, one restart, one shed event. The real cap is 64 and
  `round_number` is at most 64, so the cap never bites in the code; the model's
  smaller cap exercises it.
* Stores: two keys, two values, a clock of four units, lifetimes none, 1 and 2,
  four deployments. Sink: two matches of two rounds, a batch of three against
  four or more ticks, one failed flush, two crashes.
* Hub: two clients (the second on every match, or on another one), four events,
  one store failure. Process: one client, the same topic, one probe, one signal.
* Kafka: two generators of one group, a producer queue of one, three messages,
  two processes, one crash or lost session, any number of cancellations the two
  generators allow: one generator can be cut off with a message acknowledged and
  the other take over. One message of another client, at any place of the log. The proof
  removes these bounds.
* Worker: seven events of two matches, with a freezetime tick, a match end and a
  second match under the first id; every wiring; three faults, so that a write may
  fail, its worker restart and its event be delivered again.
* Page: two sockets at once (an abandoned one and its successor), four frames a
  match, two plays, two frames in flight, two faults, a url that opens or throws. One attempt is told apart
  from none, which is all the status depends on.
* Checkpoints: three matches, test fractions of one and three quarters, so that a
  later split can be wider or narrower, two trainings, one crash.
* Features: forty snapshots that take each group of fields to both ends and
  beyond, two rows. Scoring: four scoreable states below, at, between and above the
  breakpoints and one that is not scoreable, batches of up to three, a window of
  three latencies. Reports: six training samples: a constant, two with two distinct quantiles
  or values, of which one is repeated live, and three with more; up to three live rows,
  two bands.

### Fairness

* Broker: weak fairness of `Wake`, `Resume`, `Finalise`. asyncio runs every
  ready task; a caller that holds a message returns for the next one. Nobody has
  to publish, subscribe, cancel, start or stop, and `Abandon` is never required.
* Consumer: weak fairness of the run loop's steps (handlers return) and of the
  generator's. Command: weak fairness of each of its two tasks.
* Simulator: the generator is iterated to its end, so its next step is taken.
* API: weak fairness of the demo task, of each socket's task, of each pending send,
  of the lifespan and of a probe's answer. A send ends either because it succeeds
  or because the server closes a peer that stops answering the protocol's pings;
  without the second, a client that is gone would stop everything. Nobody has to
  connect, ask or send a signal.
* Kafka: weak fairness of the end of `stop()` (its flush has a timeout), of a poll
  that finds its broker stopped (it has a timeout), of the resumption of a
  generator with what poll() gave it (a yield, a message passed over or one that does not
  decode) and of its `aclose()`. Nothing is required of the cluster.
* Page: timers fire, the browser reports what became of a connection, and a server
  that is up accepts. The network may break connections as often as the bound
  allows, and nobody has to press anything.

## 4. Properties

The hazards in `PROJECT.json` say what can go wrong and where; each names the
properties that would show it. The main ones:

* `StreamInOrder`, `AtMostOncePerGroup`, `EveryOffsetAccounted`: a consumer gets
  ascending offsets, never one that another of its group gets, and misses only
  what its full queue refused and `dropped` counted.
* `QueueDiscipline`: a sentinel is never followed by a message, and the registry
  only names live generators that were not told to stop. It is what makes it
  harmless that `finally` pops by group.
* `StopEndsIteration`: after the last stop a registered generator ends, even if
  its queue was full and got no sentinel: it then finds `_running` false. It is
  not claimed for a generator whose group was taken over (section 6).
* `OneLossPerInterruption`: auto-commit acknowledges before anything is handled,
  and of what a group was handed that can cost one message per interruption. Apart from it
  stands what a group without a commit skips by starting at the end of the log again
  (section 6). `FanoutUntilFault`: up
  to the first crash or lost session Kafka implements `TopicFanout`;
  `StopEndsPolling`: a generator in a poll ends after a stop.
* `DispatchExact`, `QueuedEventIsDispatched`, `DrainedMeansHandled`,
  `CommandEnds` for the consumer and the command. `CommandEnds` says when `live` ends:
  it does, or its consumer is starved for good. `LiveTerminates` leaves the second half
  out and fails (section 6).
* `EventsValid`, `ScoresRight`, `MatchOver`, `GearValid`, `BuyConserves`,
  `LosersArePaid` for the simulator.
* `MomentumExact`: the stored momentum counts, of the round's kills, those within one
  span of the last kill heard, and of its ticks those within one span of the last tick,
  by definition and from the topic. `HistoryExact`: a history holds each round
  once, in order, the newest ones. `StoreExact`: no sweep, restart or read loses a
  value before its time, and listings agree with reads, except for what `robbed`
  marks. `DiscoveryExact`, `TicksAccounted`, `LabelOfItsRound` for what is kept.
* `StreamKept`, `DemoPlaysOn`, `ReleasedUnderNobody`, `SignalEndsProcess` for the
  API: who stays gets every frame and one welcome, also beside sockets whose welcome raised;
  the demo is held up by no socket, and shutdown
  happens under nobody.
* `PredictionsAccounted`: the counters of a worker add up to the ticks it saw, and
  bound what is on the prediction topic. `StoredIsLatest`: the store is never older
  than the last confirmed write, and never ahead of the topic.
* `OneConnection`, `ShownInOrder`, `Reconnects` for the page.
* `IntactLoadIsLatest`: no calibrator of an earlier training maps a later booster.
  `ServedFeaturesMatch`: the engine checks the features in the metadata, not those
  of the booster; the order of the three writes is what makes that enough, unless a
  save runs during the load (the property excludes that case, which can fail).
  `ReportedUnfitted`: metrics are of matches no tree was grown on and no breakpoint was
  fitted on, though all of them are matches early stopping watched (section 6).
* `FeatureContract`: training reads back from any table what serving computes, and
  the features are bounded and symmetric. `ScoringExact`: a batch is its states one
  by one, the statistics are exact, the calibrator reorders nothing.
  `ReportsSound`: every row is counted, and the cases that are certain are judged so.

## 5. Proofs

Every theorem holds for every value of the constants that satisfies the
assumptions of the module, which are named and stand where the constants are
declared. What they ask for, and why the code gives it:

* Brokers (`BrokerAssumption`, `KafkaAssumption`): finitely many generators, positive
  capacities. Consumer (`ConsumerAssumption`): finitely many handlers, the n-th run
  iterates the n-th generator, no event has the type that stands for `None`. Command
  (`LiveAssumption`): the ticks are events.
* Simulator (`EconomyAssumption`, `SimulatorAssumption`): disjoint, non-empty, finite
  teams; positive prices and a helmet that fits into the armour reserve; plant
  moments before the end of a positive clock; a first-to of at least two with its
  regulation length.
* Storage: finitely many processes per deployment and one for the memory backend
  (`StoreAssumption`); in a feed of the sink no event comes twice and a match ends
  after its last tick (`FeedsAssumption`, the order of the simulator); a round that
  ends has a number (`TopicsAssumption`). Two theorems have a hypothesis of their
  own, because the code does not enforce it: `Plain`, ids without a colon, and
  `OnePlayPerId`, a match id is played once. Section 6 says what happens otherwise.
* Windows: a round starts once and before its ticks and kills, nothing that resets a
  window comes between, each kind comes in the order of time, and a tick has a number
  of its own (`RoundsAssumption`, the order in which the simulator emits a match and
  the broker keeps it); the value for "no window" is not a window (`AbsentAssumption`).
* API (`HubAssumption`): the events of the topic are numbered in ascending order, as
  the simulator numbers them.
* Page (`DashboardAssumption`, `ScriptAssumption`): finitely many sockets; ticks of a
  live round are scored, and a `round_end` or `match_end` frame follows them before
  a tick that is not live, which is what the simulator and the API make.
* Checkpoints (`LifecycleAssumption`): proper fractions and at least two matches to
  calibrate on. Worker (`WorkerAssumption`): typed events.
* Features (`FeaturesAssumption`): the game's constants are positive, no side has more
  living players than a team has, and the bomb's timer runs exactly when it is planted,
  which the schema and the simulator see to.
* Engine (`ScoringAssumption`): the booster's values and the breakpoints are
  probabilities, and breakpoints rise, as an isotonic fit makes them. Reports
  (`ReportsAssumption`): positive numbers of bins and bands, a training sample that is
  not empty.

| Module | Theorem | Statement |
|---|---|---|
| `InMemoryBrokerProofs` | `BrokerTypeCorrect` | `Spec => []TypeOK` |
| | `QueuesAreDisciplined` | `Spec => []QueueDiscipline` |
| | `StreamsKeepOrder` | `Spec => []StreamInOrder` |
| | `NoSecondDelivery` | `Spec => []AtMostOncePerGroup` |
| | `NothingLostSilently` | `Spec => []EveryOffsetAccounted` |
| | `BrokerImplementsFanout` | `Spec => FanoutSpec` |
| `ConsumerProofs` | `ConsumerInvariant` | `ConsumerSpec => []ConsumerInv` |
| | `DispatchAlwaysExact` | `ConsumerSpec => []DispatchExact` |
| | `DrainedAlwaysHandled` | `LiveSpec => []DrainedMeansHandled` |
| `SimulatorProofs` | `EconTypeCorrect` | `EconSpec => []EconTypeOK` |
| | `GearAlwaysValid` | `EconSpec => []GearValid` |
| | `BuysConserveValue` | `EconSpec => BuyConserves` |
| | `LosersAlwaysPaid` | `EconSpec => LosersArePaid` |
| | `SimInvariant` | `SimSpec => []SimInv` |
| | `EventsAlwaysValid` | `SimSpec => []EventsValid` |
| | `ScoresAlwaysRight` | `SimSpec => []ScoresRight` |
| `StorageProofs` | `StoreInvariant`, `StoresAreExact` | `StoreSpec => []StoreInv`, `StoreSpec => []StoreExact` |
| | `DirectoryInvariant` | `Plain` implies `DirectorySpec => []DirectoryInv` |
| | `DiscoveryAlwaysExact` | `Plain` implies `DirectorySpec => []DiscoveryExact` |
| | `SinkInvariant` | `SinkSpec => []SinkInv` |
| | `TicksAlwaysStored` | `SinkSpec => []TicksAccounted` |
| | `LabelsAlwaysRight` | `OnePlayPerId` implies `SinkSpec => []LabelOfItsRound` |
| | `HistoryInvariant` | `TrackerSpec => []HistoryInv` |
| | `HistoriesAreExact` | `TrackerSpec => []HistoryExact` |
| | `MomentumInvariant` | `TrackerSpec => []MomentumInv` |
| | `MomentumAlwaysExact` | `TrackerSpec => []MomentumExact` |
| `ApiLifecycleProofs` | `ApiInvariant` | `ApiSpec => []ApiInv` |
| | `RegistryAlwaysMatches` | `ApiSpec => []RegistryMatchesTasks` |
| | `NothingOutlivesTheState` | `ApiSpec => []ReleasedUnderNobody` |
| | `StreamsAlwaysKept` | `ApiSpec => []StreamKept` |
| `ServingProofs` | `KafkaInvariant`, `KafkaTypeCorrect` | `Spec => []KafkaInv`, `Spec => []KafkaTypeOK` |
| | `AtMostOneLossEach` | `Spec => []OneLossPerInterruption` |
| | `KafkaImplementsFanout` | `Spec => FanoutUntilFault` |
| | `WorkerInvariant` | `WorkerSpec => []WorkerInv` |
| | `TicksAlwaysAccounted` | `WorkerSpec => []PredictionsAccounted` |
| | `StoreAlwaysLatest` | `WorkerSpec => []StoredIsLatest` |
| `ModelLifecycleProofs` | `LifeInvariant` | `Spec => []LifeInv` |
| | `ServedFeaturesAlwaysMatch` | `Spec => []ServedFeaturesMatch` |
| | `IntactLoadsAreLatest` | `Spec => []IntactLoadIsLatest` |
| | `SoundInvariant` | `Spec => []SoundInv` |
| | `ReportedNeverFitted` | `Spec => []ReportedUnfitted` |
| | `FeaturesInvariant` | `FeatSpec => []FeaturesInv` |
| | `FeatureContractHolds` | `FeatSpec => []FeatureContract` |
| | `ScoringInvariant` | `ScoringSpec => []ScoringInv` |
| | `ScoringAlwaysExact` | `ScoringSpec => []ScoringExact` |
| | `ReportsInvariant` | `ReportsSpec => []ReportsInv` |
| | `ReportsAlwaysSound` | `ReportsSpec => []ReportsSound` |
| `DashboardProofs` | `DashInvariant` | `DashSpec => [](DashInv /\ ShownInv)` |
| | `OneConnectionAlways` | `DashSpec => []OneConnection` |
| | `FramesShownInOrder` | `DashSpec => ShownInOrder` |

**In-memory broker.** `StepKinds` first reduces the actions to eight kinds of
step, since `Subscribe`, `Wake` and `Resume` each choose between joining, parking,
yielding and ending. The invariant is `BrokerInv`:

* `TypeOK` and `Disciplined`, that is `QueueDiscipline` plus "a generator whose
  body has not run holds nothing". The addition is needed at `Join`: registering
  a queue that held a sentinel would let messages follow it.
* `StreamIncreasing`, about `Stream(s)`, what a generator received followed by
  what is queued for it. Yielding does not change a stream, a put appends the
  largest offset so far, ending truncates. `received` alone would not be
  inductive.
* `AtMostOncePerGroup`, because a step adds to a stream at most the newest
  offset, only for the registered generator, of which a group has one.
* `Accounts`, per generator: the refused and the streamed offsets make up
  `since .. offset - 1` while it is registered, and the length of the stream is
  what contiguity predicts as long as nothing was refused.
* `Counted`: `dropped` is the number of (generator, offset) pairs refused; the
  pairs a publish adds are new because refused offsets are below `offset`.

For the refinement, a yield is a `Deliver` of the head of the queue: it is below
`offset`, above everything received (`StreamIncreasing`), and in no other stream
of the group (`AtMostOncePerGroup`).

**Consumer.** A step of the consumer is a step of the broker, so `BrokerInv` comes for
free (`ConsumerStepsBroker`), and `ReceiveKinds` reduces what the loop does to
fetching, waiting or ending. `DispatchExact` compares what a handler saw with what it
was due. That is not inductive while an event is in dispatch: `InDispatch` says
that this is the last event dispatched, and that the handlers still to be awaited want
it, once each, and were registered before it came; `Sighted` then lets what is due
exceed what was seen by exactly that event. `DispatchOrder` puts everything dispatched,
also in earlier runs, before what is queued: a later run begins with an empty queue
(the broker's `IdleIsFresh`), and a queue only gets new offsets. The counters need `Tallied`: the loop has counted every message it
was given, but for one that it took and dropped because it was told to stop.

**Live command.** `LiveInv` adds where the two tasks are in relation to each other:
the one generator keeps its registration from the first offset on (`OwnsGroup`), a
consumer that left of itself had handled all that was to be replayed (`CaughtUp`), and
what `flush()` found drained stays handled (`StaysDrained`), because nothing is
published afterwards and a stop is read only after the dispatch that is under way.

**Economy.** `GreatestExists` gives the maximum that `_affordable_weapon` takes of
a finite set of prices, `WeaponForType` and `LoadoutSound` say what a purchase
costs and leaves; the rest goes action by action.

**Simulator.** Validity of an event is not inductive: a `round_end` is valid because
of how the round stood when it was decided, several steps earlier. `RoundInv` says
that until a tick is resolved both sides are alive and that the plant and the end of
the clock lie ahead, so that a plant lands on exactly its moment; `DecisionInv` says
that a decision describes the round it ends (`Stands`) until the event is emitted;
`ScoreInv` ties scores to round numbers and says that no round begins once the match
is decided, which is where `RoundsToWin > 1` is used.

**Stores.** `RowsAreWritten`: a row is the last one set, or none, and none early only
if it was robbed. `DeletesAreLate`: what a process alone with its file is about to
delete has expired, and stays expired, since nobody else can write in between.

**Directory.** `KeysApart` is the fact the key scheme is for: keys of different matches
and of different facets differ, and only a match's own key parses back to its id.
`EntriesOwn` says that this key holds the match's current snapshot, `ScanSound` that a
scan under way holds one snapshot of each match it is done with, seen since it began;
a write during the scan can replace what a match has, not what was read.

**Sink.** `BufferFresh` says that the buffer holds each tick once and none that was lost
(so appending it stores each tick once), `BufferExact` where every handled tick is,
`RecordedMatchComplete` that a match row is written behind its last tick. For labels,
`RoundsRecorded` says that every handled `round_end` has left a row of its key.

**Histories.** `append_round` removes the entry of its number, inserts, sorts and cuts.
`Keeps` says what comes of it: a history is the last `MaxTracked` of the results
recorded, oldest first, and every recorded result that is not in it is older than
all that are. The second half is what makes it inductive: an entry that was cut off may
never come back. The operators on sequences are shown to keep it in a chain of
lemmas (`UptoSplits`, `InsertedInOrder`, `InsertedHolds`, `CappedKeepsLast`). In the
step from the read to the write the pending history is kept by the same predicate.

**API.** `ReleasedUnderNobody` needs that sends are pending only while a broadcast
awaits them (`SendsAreAwaited`), and the registry's agreement with the tasks needs
that a send awaited in vain had lost its client (`LostHadLeft`): pruning then never
removes a client that is still there.

**Streams.** `StreamKept` compares an inbox with the broadcasts since its client was
accepted, with a welcome somewhere in between (`WithFrame`). It is proved from `ApiInv`
and four facts about a broadcast under way: whoever is awaited watches the match and
had not yet been sent its newest frame (`AwaitedWatch`), that frame is the one of the
event in hand (`SendingNewest`), nothing stored or sent is newer than that event
(`NothingNewer`), and without suspensions a client is welcomed before it can be sent
anything else (`WelcomedAtOnce`).

**Kafka.** `OneLossPerInterruption` speaks of what is committed; what is stored and
about to be committed must be counted, too (`Claimed`), because the commit happens
in the background. `RiskBounded` bounds what is claimed and neither handled nor in a
caller's hands (nor unusable, nor skipped) by the number of interruptions, and `Anchored` says that the owner
reads on exactly where the group's offsets say, so that a poll claims one message
and hands it to a caller at once. For the refinement, `TakenOnce` says that until the
first fault every message yielded, or returned by a poll and about to be, lies before
the place where the group reads on (`Handover`); no step but a poll moves that place,
and a poll takes exactly the message that lies there, so it was handed to nobody else.

**Worker.** `StoringIsFramed`: what is being stored was published first, and is not
counted yet, so the number of frames exceeds the counter by at least one while a write
is pending. Without it, counting a confirmed write could pass the number of frames.

**Checkpoint.** `SaveLeaves` says which files a save under way has replaced,
`OldPairs` that no booster of another build lies beside metadata of this one,
`IntactFiles` that between saves that ended all files are of one training, and
`ReadsFiles` that a reader holds what the files hold as long as no save runs. `OldPairs`
is the fact the order of the writes is for.

**Reports of a checkpoint.** `SoundInv` carries what the splits of `train_model()`
establish (`Sound`: both sides non-empty and disjoint, the calibrator's half apart from
the one the metrics are taken on, the whole test side watched by early stopping) through files and readers. It rests on
lemmas about taking the last matches of a finite set and on Python's rounding to even:
a share of at least two matches, cut to one at least and to all but one at most, leaves
neither side empty.

**Momentum.** The code keeps a window by appending and by evicting from the left;
`MomentumAt` counts, in the topic, the kills of the tick's round within one span of the
last of them, and the ticks likewise. Between
the two stands `Held`, the positions a window is due to hold: those since the last
boundary of the match (`Segment`) that were heard and are within the span of the last of
their kind. `Holds` says that a buffer lists the events of a set of positions in order,
and `Follows` that both buffers of a window do. An eviction keeps a suffix, and since
times ascend it is the suffix of the span (`AppendEvictingHolds`); a start resets both
sides (`ObserveFollows`); other matches and shed events leave them alone
(`OthersFollow`, `SegmentStays`). `RoundIsSegment` is where `RoundsAssumption` is used:
what was heard since the boundary is exactly what is of the round. `MomentumInv` adds
that a snapshot stored, or about to be, is that of the tick it names, and is conditional
on no round start having been shed and no restart, as the property is.

**Features.** `PathsAgree` takes the fifteen features one by one: where the offline
expression is another one (a ratio with a guard, a clip, a filled column), the two
fractions are equal for every snapshot. For the table, `MigratedColumns` computes what a
migration leaves of any of the two column lists: the names of the schema, in its order,
so that an insert by position and a read by name speak of the same cell. `RowHolds` then
follows each row from the build that wrote it to the one that reads it.
`FeaturesBounded` and `FeaturesMirrored` are again one feature at a time.

**Scoring.** `InOrderEnumerates` makes the rows of a matrix an enumeration of the
scoreable indices, so that the row of an index is unique and each answer goes back to the
state it was computed for (`BatchRows`). `Newest` is the inductive fact about the
latencies: what is kept is the end of what was recorded, of the window's length
(`NewestKept`). A percentile rests on `SortedPlaces`: sorting gives each element a place
of its own, and as many elements as its place says are no greater (`PlacedCounts`).
That the calibrator keeps the order (`ApplyKeepsOrder`) is proved by levels: the map lies
at or above a breakpoint's value from that breakpoint on, and at or below it before
(`LevelBetween`), and within one segment it rises because the segment does.

**Reports of drift and calibration.** `Sums` is a recursive function, of which
`SumsExist` and `SumsObey` give the defining equation; what is proved about it is by
looking at the least number a fact fails for (`LeastOf`, `Upward`), since the library's
induction theorems cannot be instantiated. `OneBand` and
`OneBin` say that a row lies in exactly one band and one bin, which with `PartsCounted`
makes the bins add up to the rows. `LargestShare` bounds the weighted mean of the gaps by
the largest (`Mediant`, that a ratio between two others is no more than one of them).
`Repeated` counts a sample repeated n times: every bin has n times its rows, so the shares
are those of training and the PSI is zero. A constant sample has one quantile
(`ConstantEdges`), and a sample that is not has edges that ascend (`EdgesAscend`).

**Page.** With `OneConnection` only one pipe can still deliver, so the order of what is
shown follows from the order in that pipe (`InOrder`), from its frames in relation to
what is shown (`Ahead`) and from both lying behind the server (`EverythingPast`). A
welcome that comes late, behind frames sent after it was taken, is the one exception
(`late`). That the gauge is never of a round that was decided takes `Announced` and
`Announcing`: between what sets the gauge and the next tick without a live round, some
frame of the pipe, or one still to be sent, settles it.

What stays with TLC, and why:

* Liveness (`StopEndsIteration`, `QueuedEventIsDispatched`, `CommandEnds`, `MatchOver`,
  `DemoPlaysOn`, `SignalEndsProcess`, `StopEndsPolling`, `Reconnects`): it rests on
  fairness and ENABLED, which are out of the provers' reach.
* The properties of the runs that end in a violation: they are false, and TLC shows how.

Every other property a run checks is stated by a theorem above.

## 6. Where the code and its documentation differ

Six are shown by a run of their own:

* `live --max-events 0` never returns (`Consumer_full`), and neither does a limit above
  the events the consumer is given: a match that is shorter, or one event malformed or
  shed (`CommandEnds`). After the flush the
  consumer waits in `queue.get()`; `consumer.stop()` (`cli.py:267`) only sets an
  event that is read when a message arrives (`stream/consumer.py:126`). The help
  text of the option says that 0 runs the full match.
* The demo plays under one match id for ever, and `append_round` replaces by
  round number only, so a history mixes plays (`MatchTracker_demo`,
  `api/app.py:122`; `storage/match_state.py:76`).
* A demo task that died of a store error raises where the lifespan awaits it
  (`api/app.py:67`), and `state.shutdown()` is skipped (`Api_released`;
  `api/dependencies.py:80`).
* `validate` splits the data of the day with its own fraction, and can score
  matches the booster learned from (`Model_validate`; `cli.py:607`, `:571`).
* A feature with two distinct training quantiles has a single open bin, and a PSI
  of zero whatever is live (`Model_drift`, for which TLC takes the training sample
  0, 1, 1, 1, 1 and the live value 4; `ml/drift.py:222`, `:205`). A feature with one
  quantile has a PSI of zero as well if what is live is another constant (`:219`); the
  property leaves that case out.
* A page that missed a `round_end` frame shows the old reading through the next
  freezetime (`Dashboard_stale`; `hooks/useMatchStream.ts:84`, `:105`).

Met while modelling, and reflected in the properties:

* As long as a Kafka group has committed nothing, every assignment starts at the end of
  the log again (`broker/kafka.py:105-106`): after a crash, a rebalance or a lost session
  before the first auto-commit, what came in between is skipped, without bound and
  without a trace. `OneLossPerInterruption` keeps it apart (`skipped`).
* A key or header that is not UTF-8 raises in the generator (`broker/kafka.py:133`,
  `:139`) and ends its consumer's loop; a payload that does not parse is only counted
  (`stream/consumer.py:114-115`: "a single corrupt message on a topic should not end the
  run").
* Early stopping watches the test matches (`ml/training.py:249-256`), so the number of
  trees is chosen on the matches whose metrics are reported as held out. The comment at
  `:258-259` rules the like out for the calibrator only.
* A generator that lost its group's entry to a second `consume()` waits for ever
  after `stop()` (`broker/memory.py:95`, `:49`).
* A full queue gets no sentinel (`broker/memory.py:53`); together with a restart
  before the generator looks at `_running`, it goes on iterating
  (`broker/base.py:61-62` promises an end).
* The `finally` block of an earlier generator can unregister a later one of the
  same group (`broker/memory.py:106`), for instance between two runs of a consumer.
* `stop()` of a consumer is read only when a message arrives
  (`stream/consumer.py:90`, `:126`).
* Windows are reset on the first event of a round (`stream/window.py:158`); if
  the broker sheds it, two rounds share a window. Counts change only when an event
  of their own kind evicts (`stream/window.py:143`, `:166`).
* `is_live` compares with the phase "over", which no tick carries
  (`storage/match_state.py:60-61`).
* At the instant of expiry, `get()` and `keys()` of SQLite compare with different
  operators (`storage/state.py:193`).
* SQLite's `get()` deletes an expired row by key in a second transaction and can
  take a row that another process just wrote (`storage/state.py:181`), in the
  deployment that the comment at `:134` describes.
* The comment "Ts still lose if the bomb is down" (`producer/simulator.py:478`)
  stands over a line that gives that round to the Ts (`:480`).
* `TeamState.loss_bonus` forecasts the payout "should this team lose" from the losses
  so far (`schemas/models.py:139-140`); the simulator pays after recording the new
  loss, one rung higher.
* With a store that suspends, a broadcast can overtake the welcome frame
  (`api/connections.py:82`), which `api/ws_schemas.py:38` calls the first frame.
* One slow client holds up a broadcast to all (`api/connections.py:122` against
  the module's comment at `:12-13`).
* A store error ends the demo task for good (`api/app.py:124` against `:104-105`).
* Ids of `dataset` are reused from run to run (`cli.py:341` against `:325-326`);
  the ticks table has no key, so reused ids mix plays.
* The event schema admits a colon in a match id (`schemas/events.py:26`), which
  `storage/keys.py:53` then parses as a facet.
* `train --calibrate` prints a reliability table over rows that include those the
  calibrator was fitted on (`cli.py:446-455` against `ml/training.py:258-259`);
  the metrics stored with the checkpoint are of the other half.
* The match list and batches score without the momentum that a single match and a
  snapshot are scored with (`api/routes/matches.py:156`, `inference/engine.py:329`).
* A save that runs during a load can pair an old booster with new metadata, which
  the check of the features then accepts.
* The late close of an abandoned socket shows "closed" while a retry is pending
  (`hooks/useWebSocket.ts:156`).
* The final score and the log of rounds stay on the page when the next match begins
  under the same id (`hooks/useMatchStream.ts:111-120`), or when the page turns to
  another match; the history of readings mixes rounds after a missed `round_end`.

## 7. Not modelled, and what is left

Not modelled: what a fit learns and the isotonic regression behind a calibrator,
`ml/confidence.py` and the slices of `ml/benchmark.py` (statistics in floating
point, without control to check); Parquet export and `label_balance` of the sink;
parsing, wire formats, settings and logging, which keep no state; the stateless
HTTP routes; the validation of frames and the fetches of `lib/api.ts`, and the React
components, which only render; the commands of `cli.py` that are straight-line
scripts; containers and CI.

Left for later: the inference worker and the tracker composed behind one consumer,
where an event shed by the broker reaches neither.
