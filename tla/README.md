# A TLA+ model of hailstorm

hailstorm is a distributed load generator. A *controller* holds the
simulation a user defines (a Rune script with bot models, and for each model a
shape: how many bots should run as time goes by). *Agents* connect to it over
gRPC, directly or through other agents, receive the simulation, run their share
of the bots and report statistics. This directory models the parts of it that
keep state and interact, checks them with TLC on small instances, and proves
the central facts for all instances with TLAPS.

Paths below are relative to the repository (`src/...` is its Rust source).

## 1. Inventory

### Components, their state and operations

| Component (source) | State | Operations |
|---|---|---|
| **Id generator** (`src/simulation/sequential_id_generator.rs`) | last id generated, set of released ids | `next`, `release_id` |
| **Bot model** (`src/simulation/bot_model.rs`) | id generator; map internal id -> (believed state, address of the bot actor) | `spawn_bot`, `stop_bot`, `change_state`, `retain`, `remove_bot`, `contains_id`, counts |
| **Simulation actor** (`src/simulation/actor/simulation.rs`) | `start_ts`, registered shapes, agents count, bot models, script registry | command lists (stop, count, load, launch), `BotStateChange`, `InvokeHandler`, `FetchSimulationStats`, the tick every 1.5 s |
| **Bot actor** (`src/simulation/actor/bot.rs`, `src/utils/actix/weak_context.rs`) | the script's bot (taken while something runs), mailbox, interval task | `DoAction`, `TriggerHook`, `StopBot`, `ExecuteHandler`, `stopped` |
| **Simulation facade** (`src/simulation/facade/simulation.rs`) | addresses | `change_bot_state`, `invoke_handler` |
| **Script registry** (`src/simulation/bot/registry.rs`, `model_factory.rs`, `rune/`) | compiled unit, bot types | `load_script`, `reset_script`, `build_factory` |
| **Agent core** (`src/agent/actor.rs`) | count and time last sent, for each model and state | `send_data` every 3 s (what changed, and counts above 0 again after 25 s), command lists: to the simulation, then to the agent's own server |
| **Notifier** (`src/communication/notifier_actor.rs`) | frames (updates of this agent and of those behind it), upstream clients | collect a frame, hand all frames over every 5 s |
| **Metrics** (`src/agent/metrics/`) | a storage for each model and action: timers pending, histogram, ring of 60 snapshots | start/stop timer, snapshot, fetch |
| **Upstream client** (`src/communication/upstream/grpc.rs`) | connection (update sender, command sender), command stream | connect with backoff, reconnect when the stream ends, send update, forward command |
| **Server** (`src/communication/server_actor.rs`, `server.rs`, `downstream_agent_actor.rs`) | connections, each with its actor and the agents heard of through it and when | register, update (agents not heard of for 60 s are forgotten), cleanup of closed connections, broadcast and targeted commands |
| **Controller** (`src/controller/actor.rs`, `model/simulation.rs`) | wanted simulation (idle, ready, launched), last report of every agent | load, start, handle updates: record, expire after 60 s, align |
| **Ids on the wire** (`src/simulation/compound_id.rs`, `src/utils/varint.rs`) | none | encode and decode |
| **Shapes** (`src/simulation/shape.rs`) | none | parse a formula, evaluate it |
| **Script storage** (`src/simulation/rune/extension/storage/`) | values by bot id, storage name and key; initial values from CSV | read, write |
| **Builders, CSV and file storage, examples, site** | configuration, files | wiring and I/O |

### How they interact

All actors of a process share one thread (actix). A handler runs without
interruption up to its first `await`; messages queue in mailboxes of 16 places;
`send` waits for room, `try_send` fails without it; an actor whose addresses
are all dropped ends some time later and then runs `stopped`. Commands flow
controller -> server -> (network) -> upstream client -> agent core ->
simulation actor -> bots, and from an agent core on to its own server. Reports
flow the other way: agent core -> notifier/upstream client -> server ->
controller.

### What is hard

* **Lifecycle of bots.** A bot is an actor of its own. The simulation learns of
  its end by a message that comes later, may find a full mailbox, or never
  comes (a panic). Meanwhile ids are reused, loads drop every entry, and the
  tick counts.
* **Convergence of agents.** The controller decides from reports that are
  seconds old, and compares only a summary of the agent's state; commands may be
  lost with a connection.
* **Connections.** They break and are established again, with backoff; the
  command channel, the update channel and the registration at the agent core
  have separate lives.
* **Agents behind agents.** A command list waits for a simulation or for
  another connection while the next one does not; servers know agents from
  reports that expire, through connections that may be gone.
* **Deltas and buffers.** Statistics are sent only when they change; a loss is
  repaired by the refresh or not at all. Metrics buffers have limits.

### What makes each component correct

* Id generator: ids in use are never handed out; none is lost; the lowest free
  id is used.
* Bot model and simulation: the generator agrees with the entries; every live
  bot has its entry; the limit holds for actors, not only for entries; a bot
  ends after its Stopping hook; the wanted number is reached; a stopped
  simulation ends its bots.
* Upstream client: after a reconnection commands and updates flow again; one
  connection attempt is under way at a time; failures are retried.
* Controller: every agent that stays connected comes to run the wanted
  simulation, with the right agents count, and its share of each load.
* Server and agent core: a list reaches every agent it is meant for, once, and a
  broadcast is not undone by an older list; agents with a way to them are known.
* Reports: what is left out of a report can be told from former ones; losses are
  repaired; a snapshot comes once.
* Metrics: each timer counts once, for its action; a snapshot is final.

## 2. Plan

The order follows the importance of the behaviour: first the lifecycle of bots
on one agent (where load is generated), then the connection, then the whole
cluster, then statistics.

| Module | What | State |
|---|---|---|
| `LowestFreeId` | abstract specification of the id generator | done |
| `IdGenerator` | the generator as operators on a record | done |
| `SequentialIdGenerator` | the generator as a machine; implements `LowestFreeId` | done |
| `BotModel` | operators of a bot model, with its generator | done |
| `Simulation` | simulation actor, mailbox, bot actors | done |
| `Upstream` | the upstream client's connection and channels; implements `CommandStream` | done |
| `CommandStream` | abstract specification of what the core gets of its parent's commands | done |
| `Controller` | what the controller computes (alignment, records, commands) | done |
| `Cluster` | controller, server, links and agents composed | done |
| `MetricsStorage` | operators of one storage: timers, histogram, ring of snapshots | done |
| `MetricsManager` | the storages of all actions as a machine | done |
| `CompoundId` | ids in eight bytes, as variable-length integers | done |
| `BotIds` | the ids of a generator in compound ids | done |
| `AgentReports` | metrics and simulation read, what changed, frames, losses | done |
| `CommandRouting` | servers with their connections, agents behind agents, order of lists, expiry | done |
| `LoadShare` | the share of an agent | done |
| `Selection` | what a filter keeps of a sequence, as a recursive function | done |
| `OperatorLemmas` | lemmas about loops, selections, division and the generator's operators | done |
| `BotIds_proofs` (with `SequentialIdGenerator`, `CompoundId`), `Simulation_proofs`, `Upstream_proofs`, `AgentReports_proofs`, `Cluster_proofs` (with `LoadShare`), `CommandRouting_proofs`, `MetricsManager_proofs` | theorems | done |

Composition: `SequentialIdGenerator` and `BotModel` extend `IdGenerator`;
`Simulation` extends `BotModel`; `BotIds` extends the generator and
`CompoundId`; `MetricsManager` extends `MetricsStorage`; `Cluster` extends
`Controller` and `LoadShare`; it and `CommandRouting` take `Selection`. `CommandRouting` composes the servers, cores and
notifiers of several processes. `Cluster` uses
what `Upstream` establishes (a connection comes back; only the first one
forwards commands) in place of the actor itself, as `CommandRouting` does, and
keeps of an agent only
what it reports; `Simulation` has the rest of the agent, fed by any command
list that `Controller` generates.

Every invariant and every action property that a run checks is a theorem; what
is left to TLC is liveness (section 8).

## 3. Modules and code

### Id generator

`Generator` is the structure (`last`, `released`), `NextId`/`AfterNext` are
`next`, `AfterRelease` is `release_id` with its loop that lowers the counter
while the id below is released (written as the largest run of released ids
below the counter, not as recursion). `AreNextIds`, `AfterNextIds` and
`AfterReleases` are many calls at once; they let a tick be one step without
recursion. `CallsOfNext` and `CallsOfRelease` are the loops they stand for, as
recursive functions; `BatchIsLoop` and `ReleaseOrderIsIrrelevant` compare them.

### Simulation

`sim` is the actor's structure; `mailbox` its mailbox; `actors` the live bot
actors by address. An address is `<<model id, bot id, incarnation>>`: the
first two are the internal id, which is reused. For each action:

| Action | Code |
|---|---|
| `SendCommands`, `HandleCommands` | `SimulationCommandLst`: `StopSimulation`, `UpdateAgentsCount`, `LoadSimulation`, `LaunchSimulation` folded in order, for the lists the controller generates |
| `HandleBotStateChange`, `HandleInvokeHandler`, `FacadeRequest` | the handlers of those messages, and the facade that sends them |
| `TickRunning`, `TickStopped` | `tick`, the whole loop over shapes (count, `retain`, compare, stop or spawn), or the loop that stops all |
| `StartInterval`, `SendDoAction` | the random delay in `started`, then `run_interval_weak` |
| `HandleMessage`, `FinishRun` | a handler takes the bot and the mailbox waits (`AtomicResponse`) until it ends |
| `StopAfterHook`, `StopWhenDropped` | `ctx.stop()` after the hook; the end of an actor nobody holds. Both run `stopped`, a `try_send` to the simulation |
| `PanicInAction` | a panic in an action ends the actor without `stopped` |
| `ShapeMoves`, `ClockPassesStart` | time: shapes take other values, the start goes by |

A tick visits models in the order of a HashMap and stops or spawns whichever
bots come first: `StopOutcomes`, `SpawnOutcomes` and `Visited` give all the
results that some order can have. `reloaded` is a history variable: some load
found bots alive, the case where the code is known to lose them (finding 1).

### Upstream

`request` is the progress of the two futures that may establish a connection
(`started`, `finished`), `connection` where the connection's command sender
leads (`dummy`: to a channel whose reader was dropped; `core`: to the agent
core), `registered` whether the core took the registration. `Connect`, `Join`,
`Fail`, `TryAgain` are the loop of `EstablishConnection`; `RegisterAtCore` and
`Finished` are the continuation of `started` and the end of the stream;
`ForwardCommand`, `CoreHandles` and `SendUpdate` carry commands and updates.
`CommandStream` is what all of this is to the core: commands that were sent, in
their order, some of them lost.

### Controller and Cluster

`Controller` holds the pure part: `is_aligned`, `simulation_state_commands`,
`AfterUpdate`, `Retain`. `Cluster` makes it steps: `LoadSimulation`,
`StartSimulation` (the user), `HandleUpdates` (the whole handler, with the
alignment and the count), `Deliver` (the server hands one message to one
connection), `SendReport` (every 3 s), `HandleCommand`, and links that break,
agents that restart. Instants are kept as ages. `HandleCommand` is the upstream
actor's `try_send` to the agent core and what the core does with the list; the
`try_send` fails when their channel of 128 is full, which loses the list and is
noted in the history variable `missed`. Both `Cluster` and `CommandRouting` suppose
that the core took the registration of the first connection, which is not certain
(section 6).

### Command routing

A process is a number: 0 is the controller, `a` the agent a, connected to the
server of `a - 1`. A connection is `<<a, i>>`, the i-th of agent a. Instants are
ages again: `known[c][a]` is the age of `last_received_update` of agent a under
connection c.

| Action | Code |
|---|---|
| `Issue` | `DownstreamClient`: a list into the mailbox of the controller's server |
| `PollServer`, `Report` | one poll of `GrpcServerActor`, which takes its mailbox first and its streams after: each list is cleaned up for, targeted (`ConnectionsFor`) and becomes a future in `sends`; then updates, with the `expect`, the entries, and `retain` |
| `Serve`, `PassOver` | a future's next `send`, handled by the `DownstreamAgentActor` (which ends when its channel is closed), or failed because that has ended |
| `CoreHandles`, `SimulationHandles` | the handler of `ConnectedClientMessage`: to the simulation if the agent is meant, and when that has answered, or at once, to the agent's own server |
| `Connect` | `join` and `RegisterConnectedAgentMsg` |
| `LinkBreaks`, `AgentRestarts`, `TimePasses` | connections, processes and clocks |

The time that a list or an update travels is taken before the step that handles
it, so that what a break finds under way is what has not been handled; an update
left by a broken connection is `late`. The map of connections is iterated with
the older ones first: the order in which lists to one agent can overtake each
other most. Time is only told while some way is broken, since then entries age;
on a way that stands reports come every 5 seconds and make them young again.
What `Upstream` shows is used: a connection made again forwards nothing
(`forwards`). `PassedOn` is the `try_send` of an update to the notifier of the
server's own process: `full` says that it found that mailbox full and the update
was lost.

### Agent reports

`send_data` starts a fetch, `FetchActionMetrics` and `FetchSimulationStats` are
its two answers (in the order in which the fetches were made, since both
actors' mailboxes are queues), `Complete` the continuation: `Kept` is
`update_simulation_stats`, `last_sent` what it notes. `Notify` is the notifier's
`send_data`. Losses (a full mailbox, no upstream client, a broken connection) are
in `Complete` and `Notify`. The storage the controller hands updates to is the
user's; the model's (`view`) keeps the youngest count of each state. States are
independent of each other in the code, so that one model with one state and one
snapshot tells all that the properties ask.

At this commit the script-side timers are switched off
(`src/simulation/rune/extension/metrics/performance.rs:72-74`); the way of the
snapshots is modelled as it is from the storages on.

### Load share

`normalize_count` is the agent's share. `Cluster` applies it to the counts that
agents were told (`LoadIsShared`); its proofs are about all numbers.

### Metrics

`MetricsStorage` is the value of one storage: `pending` is the map of timers by
start, `StopTimer` runs `process_pending` at once, as the handler does. Its two
loops, over the instants (`process_pending`) and over the timers of one
(`ObserveAll`), are recursive functions. `Tally` says what a histogram should be: it
counts the timers of a set within the bounds of each bucket and adds their times.
`MetricsManager` has the storages by key, made when a timer of an action starts
first. What the script timed is kept in the timer (`timed`) to be compared with
the storage it is counted in.

### Compound ids

`to_varint`, `from_varint`, `from_varints` are the encoder and decoders of
`varint.rs`, `internal_id`, `global_id`, `from_internal_id` those of
`compound_id.rs`. A u64 is the sequence of its bytes; a panic is `Panic`. The
widths 32 and 7 are parameters, related as in the code (five groups hold a word,
four do not). The loops are recursive functions; `Parts` is the fold of
`Vec::from_varint` that cuts the bytes at end marks and drops zeros before an
integer; `Pow2` gives the weights that the shifts stand for. `BotIds` takes bot ids from the generator, and wider ones beyond
those that a run reaches.

## 4. Runs and bounds

| Run | Shows |
|---|---|
| `ids` | The generator agrees with the ids in use and implements the lowest-free-id allocator; the batch operators equal their loops, and releases commute. 7 ids and batches of 3: enough for released ids on both sides of a gap, which is where the collapsing loop could go wrong. The ids of bots, and others on both sides of each width of a word of 9 bits in groups of 2 (as many groups as 32 bits in groups of 7, the first one cut short as there), decode from the key of an entry; a global id exists for exactly the parts that fit together, and decodes. |
| `simulation_safety` | One model with a script that may not compile, starts, stops, resizes, panics, failed spawns, a full mailbox of the simulation. Ids stay exact, every bot has its entry, the bots not told to stop are at most `max_running`, a bot ends after one Stopping hook. |
| `simulation_liveness` | A stopped simulation ends its bots, a running one reaches the wanted count, with `max_rate` 1, a bot mailbox of 1 that refuses `StopBot`, a simulation mailbox of 1 that loses notices, a load over live bots, and facade requests for a custom state or a handler call. |
| `upstream` | One stream or attempt at a time, commands in order and once (as one stream of `CommandStream`), the connection comes back, updates flow; a command that finds room in the channel behind all that come before it reaches the core unless the stream ends (`CommandsArrive`). |
| `cluster` | One agent, three simulations (one does not load), breaks, late reports: only what was asked runs, records only get younger, the agent converges. |
| `cluster_count` | Two agents that come and go, with a message to one of them overtaking an older broadcast: those that stay, and lost no command, learn the count, and when all have, their shares of any load add up to it. |
| `metrics` | Two models with an action of one name: each timer counts once, where it belongs, in its bucket; snapshots are final and apart. |
| `agent_reports` | Fetches awaited together, late answers, reloads, losses: what is left out can be told, snapshots come once, counts above 0 become known. |
| `command_routing` | An agent behind an agent, lists to all, to one and to both, a break or a restart: once, the last broadcast last, not lost, agents known for good. |
| `shared_internal_id`, `upstream_reconnect`, `server_expect` | findings, section 6. |

Bounds and why they do not hide the interesting cases:

* `MaxCommands` (`Simulation`) 2: a launch and what follows it (a stop, a
  reload, another count). Between them ticks and bots act without bound.
* `MaxBotId` 3 with `MaxShape`, `MaxRunning` 2: one id more than bots wanted, so
  that a stopping bot and its successor are there together. A tick that would
  need more ids waits. `Incs`: {0} where no load finds live bots or the property
  says nothing after one; {0, 1} where one internal id has two actors.
* `BotMailbox` 3 or 1, `SimMailbox` 2 or 1 (16 in actix): small enough to be
  full. A `hooks` counter stops at 2, which is enough to tell once from twice.
* `MaxBreaks` 3, `MaxCommands` 4, `Channel` 2 (`Upstream`): a channel can be
  full, and commands come on three connections. `MaxAttempt` 1: the backoff is
  not told apart beyond the second attempt. `joins` stops at 2.
* `Cluster`: `Expiry` 2 periods, `MaxDelay` 1, or 0 in `cluster_count`, less
  than that: reports take less than 60 s. `MaxRequests` 3 and `MaxLaunches` 2 in
  `cluster`: a load, a start, and then another start or the load of another
  simulation, which the agent gets while it runs the first. A fourth request
  (its start) is left out of the run, as TLC does not end in time with it.
  `Wire` 1: a connection holds one message. `MaxFlight` is the number of
  messages the server has under way. It is 1 in `cluster`, where nothing overtakes,
  and 2 in `cluster_count`, so that a list for one agent overtakes an
  older broadcast that waits for another connection (the hazard
  of `server_actor.rs:167`). Lists that overtake each other on longer ways are the
  matter of `BroadcastsComeLast`. `MaxBreaks` counts breaks, restarts and lost
  commands alike. `MaxReports` 2: a batch may come in the wrong order.
* `MetricsManager`: `Hour` 3 and `MaxNow` 5 units, four timers, a ring of 1 (60
  in the code): a timer is given up, the ring is full, one is behind another.
  `LastBucket` 4 (19 in the code): one time is in a middle bucket, one in the last.
  The two models are interchangeable, hence symmetry (no liveness is checked there).
* `AgentReports`: `MaxCount` 2 (0, and two counts above it), `Refresh` 1,
  `MaxDelay` 1, two fetches awaited, one loss: a count is refreshed, changes while
  it is read, or is lost. The run passes with two states, too.
* `CommandRouting`: two agents, the second behind the first; two lists (one to
  be overtaken); one break; `Expiry` 2: an agent is forgotten. `MaxLists`,
  `MaxBreaks` and `MaxFetches` only bound what comes from outside.

`CHECK_DEADLOCK FALSE` is said where the bounds end all activity: a clock that
reached its end (`MetricsManager`), no more commands or failures (`Upstream`).

## 5. Fairness

* `Simulation`: messages are handled (weak fairness of `HandleMail`: actix polls
  an actor with mail). The timer fires every 1.5 s, sometimes with mail waiting,
  not always (strong fairness of `Tick`: mail is handled first). A script's run
  ends. Ends of actors are strongly fair because the interval task, which holds
  the address for a while in each round, disables and enables them. No fairness
  for commands, shapes, panics or the facade.
* `Upstream`: futures are polled, an attempt succeeds or fails, the pause of the
  backoff ends, the notifier's timer fires. None for failures or the parent.
* `Cluster`: agents report each period and handle what they are sent, links are established again (`ComesBack`), each connection takes the
  first message that waits for it when it has room (`DeliverTo`), clocks run. None
  for users, breaks, restarts or lost commands.
* `CommandRouting`: servers are polled, the first of the sends under way goes on,
  simulations handle their lists, notifiers report. Fairness is of the steps in
  which the update finds room on its way (`full` is FALSE), so that not every one of
  the updates that are repeated every 5 seconds is lost. None for connections, which
  need not be made again, for time, or for users.
* `AgentReports`: the interval comes, actors answer, an update is handed on
  without loss when nothing is lost (losses are bounded). Time passes.

## 6. Findings

1. `shared_internal_id`: a load drops all entries, with the addresses in them,
   and numbers from 1 again, while bots of the former simulation still run. Two
   live bots have one internal id, though the documentation calls it unique in
   the agent; the notice of the old bot then removes the entry of the new one.
2. `upstream_reconnect`: only the first connection gets a command channel with
   a reader; one that was made again never forwards a command. This is why
   `Converges` and `CountConverges` speak of agents whose connection is the first
   and stays.
3. `server_expect`: the server's actor takes the connection of an update from its map
   with `.expect("Connection not defined")` (`src/communication/server_actor.rs:93`).
   A connection breaks and leaves an update; the actor of the connection ends at
   the next list, the cleanup of the one after that drops the entry, both in one poll
   or before the update is read; the update finds no connection and the server's
   actor ends. In `CommandRouting` it stays `dead`, and all other properties of that
   module are checked with this case in it. Without a break it cannot happen:
   `ServersEndOnlyAfterABreak`.

Three more, for which no run is kept:

* The registration at the agent core is a `try_send` whose failure is logged only
  (`src/communication/upstream/grpc.rs:59-66`). With the core's mailbox full the
  first connection lasts and forwards nothing, against the words of `contract.rs:7-8`
  that finding 2 goes by. The mailbox has 16 places and an agent registers once for
  each parent, so that it takes more parents than that, whose connections come up
  before the core is polled. The run `upstream` has this case (`CoreMayBeFull`), and
  `ConnectionForwards` with the same constant is violated without a break;
  `upstream_reconnect` has a core with room, to show finding 2.
* Agent, model and bot as variable-length integers must fit in eight bytes
  (`src/simulation/compound_id.rs:246`). Agent ids are random 32-bit numbers, which
  mostly take five bytes; with one for the model two are left, so that an agent's
  16384th bot of a model makes `global_id` panic, in the tick of the simulation
  actor, though the comment at 227-230 promises an id that "encompasses all three
  components". `GlobalIdDecodes` says which ids exist, `GlobalIdsFit` proves it for all
  widths: `EveryBotHasAGlobalId` holds for short ids only.
* A user's broadcast is sent to one connection after the other, each waits for
  room in its channel without a time limit (`downstream_agent_actor.rs:37`), and the
  controller handles nothing until the broadcast is through
  (`controller/actor.rs:216`). An agent that stops reading while its connection
  stays open would keep the others from the wanted simulation for good, though the
  controller "ensures all agents converge" (`controller/actor.rs:29-30`). The model
  has no such agent.

Not findings, since no document says otherwise, but of note: `tick` counts the
entries, then drops the dead ones, and so may take a short number for the
expected one; the next tick repairs it (`ReachesWantedCount` holds). A facade
request "Stopping" or "Custom" changes the noted state only, so that a bot set
to "Stopping" is never told to stop and lingers (and one told later runs its
hook twice); "Stopped" takes a live bot's entry, which makes the actor end as
its address is dropped. `EveryBotHasItsEntry` and `EndsAfterOneStoppingHook` are
therefore checked without facade requests. `max_running` is the "maximum number of bots"
(`src/agent/builder.rs:22`) and applied to each model by itself: n models run up to
n times as many. A count of 0 that is lost is never sent again, and the counts of
a model that a load drops are never taken back (`AgentReports`). On a
connection made again an older list may come after a broadcast, hence the
premise of `BroadcastsComeLast`. Values that a script stores are kept by bot id
alone: bots of two models, or one after the other, share them.

## 7. What is proved

With TLAPS, for all values of the constants that satisfy the modules'
assumptions. These say what the code's types say and no more: bounds are natural
numbers, capacities at least 1, sets of agents and models finite.
`ClusterAssumption` adds that the server's map lists each agent once (`Order`)
and that reports take less than the 60 s after which they are forgotten
(`MaxDelay < Expiry`), `ReportsAssumption` that a snapshot is of one model.
Assumptions of single theorems are named below.

Hardly an invariant of the runs is inductive as it stands; the proofs strengthen
them to ones that are.

**Id generator** (`BotIds_proofs`): `TypeCorrect`, `GeneratorStaysExact`,
`NoIdIsSharedBySpawns`, `ImplementsLowest`. The invariant is `Exact(generator,
ids)`: the counter is the largest id known, released ids are below it, and the
ids in use are all others up to it. `OperatorLemmas` shows that each
operation keeps it, alone and in batches; the collapsing loop is covered by the
least number of a set, whose existence comes from well-founded induction on the
naturals.

`SpawnsOfATickAreALoop` and `ReleasesCommute` say, for batches of any size, that
the steps of `Simulation` which handle many bots at once are the loops of the code.
Both rest on `ExactIsUnique`: a set of ids in use leaves exactly one exact
generator, as the counter is the largest of them (it is never released itself) and
what is free below it is released. The loops keep the generator exact for the ids then in use (by the least index
at which they would not), and so does the operator for the whole batch. That the
loop of `next` returns the one set that `AreNextIds` admits is `LowestFreeAreUnique`:
of two sets of equal size, of free ids with every smaller free id in them, none has
an id that the other lacks.

**Compound ids** (`BotIds_proofs`): `VarintsRoundTrip`, `KeysNameTheirBots`,
`GlobalIdsNameTheirBots`, for any widths with `4 * Group < Word <= 5 * Group`.
`CompoundIdAssumption` says that agent ids are words and that an index of a model has
three groups at most (2^21 models in the code: with the five of a bot id they fit in
eight bytes), `BotIdsAssumption` that bot ids are words, as a u32 is. The argument
has four layers:

* Bytes. `ByteValue`: the byte of a group is twice a digit of the value to the base
  `2^Group`, also where the shift loses the highest bit of the word, since the group
  that has it is shifted the other way. `FilledBits` and `ResultLen`: the
  first byte of an integer of several bytes is not 0, and no digit is left out.
* One integer. `VarintShape`: at most five bytes, an end mark on the last only.
  `VarintRoundTrip`: after n bytes the loop of `from_varint` has the value divided
  by the weight of the groups to come (Horner's scheme).
* Many. `PartsAppend` says what one more byte does; `OneMoreVarint`, that the bytes
  of an integer end up in a part of their own, whatever came before, so that the
  parts are the encodings, one each (`PartsOfVarints`). Zeros before the first
  integer leave no part, which is why the padding to eight bytes does no harm
  (`EightBytesRoundTrip`); an integer that is 0 has its end mark and is no zero byte.
* The machine. Ids in use are words by `TypeOK`.

Around ids that do not exist: `GlobalIdsFit` (a global id exists exactly when the three integers
take eight bytes at most), `GlobalIdsDiffer` (two bots with one are the same bot) and
`ShortIdsAreGlobal`, which has `EveryBotHasAGlobalId` under the condition that the
largest agent, model and bot ids have eight groups in all: below 2^28, 128 and 2^21.
The condition is an assumption of that theorem only, and what
random agent ids mostly do not meet.

**Simulation** (`Simulation_proofs`), for any models, loads, limits and mailboxes:

* `StructuresKeepTheirTypes` and `GeneratorsAreExact`. `TypeInv` joins both: an
  entry's id is within bounds because spawning takes the next ids of an exact
  generator. One lemma for each operation of a bot model and each kind of outcome
  of a tick, then one for each action.
* `LiveBotsHaveEntries`, under `NobodyRequestsStopped`. The danger is the notice
  that waits in the mailbox while its id is handed out again: it would take the
  entry of the new bot. `EntriesInv` adds to `TypeInv` that indices of models
  differ, and that no notice in the mailbox names a live bot. It is inductive
  because only a tick starts bots, a tick runs when the mailbox is empty, and a
  bot that ends is the only live one with its id (by the entries). A load keeps
  it when no bot is alive; otherwise `reloaded` holds.
* `IdsAreUniqueUntilALoad`, from the same invariant: `UniqueInternalId`, which the run
  `shared_internal_id` violates, holds until `reloaded` does. Finding 1 is the only way
  to two bots with one id.
* `MaxRunningIsKept`, under `NobodyRequestsAnEnd`. The tick compares the limit
  with entries that are not noted as Stopping. `UntoldInv` adds to `EntriesInv`
  that a live bot noted so was told to stop. Untold bots therefore inject into
  the entries counted, and a tick spawns up to the limit at most.
* `BotsEndAfterTheirHook`, under `NobodyRequestsStates`. `StoppingInv` adds that a
  bot noted as Active was not told to stop, and that a bot's place on its way to
  the end (message in the mailbox, hook running, hook run) is told by its
  structure: one `StopBot` at most, and none once the hook runs.

The three assumptions say which states extensions send through the facade; they
are needed, as section 6 tells what such requests do. Those theorems cover other
requests, and the repository's own extensions.

**Upstream** (`Upstream_proofs`): `UpstreamTypes`, `NeverTwoConnections`,
`IsOneCommandStream`, `CommandsStayInOrder`, `FirstConnectionAlone`. `CommandStream`
speaks of what the core got. `InOrder` extends it to everything on its way: what the core got, the channel
and the wire, one after the other, increase and stay below what the parent will
send next. It holds because a connection that is made again begins with an empty
wire, and a command that is refused by the channel is lost, not tried again. It
also says that the next command handled is one that was sent and is younger than all
handled before, which makes `CoreHandles` a step of `CommandStream`, and all others
but `ParentSends` steps that are not seen. `FirstConnectionAlone` proves what the
models of the whole cluster take for granted, that no connection but the first forwards
(finding 2). `FirstInv` ties the number of connections made to the two futures that
make them: `started` tries until the first is there, and is done before the second.

**Agent reports** (`AgentReports_proofs`): `ReportsTypes`,
`LeftOutCountsCanBeTold`, `NoSnapshotTwice`. Several fetches are awaited together
and updates of one frame arrive in any order, so the argument is about ages:
fetches are answered in their order, at most one at an instant
(`ReadingsInOrder`), so that updates under way have different ages; the youngest
one that has a count is what the core noted as sent (`SentIsTold`), and that is
the count read last (`ReadIsSent`). `PlacesInv` says that a snapshot has one place.

**Cluster** (`Cluster_proofs`): `ClusterTypes`, `OnlyAskedRuns`, `NewsStayYoung`.
`ClusterInv` follows a pair of simulation and start wherever it can be: with the
controller, in each list the server is delivering, on each link, with each
agent. A list is always the controller's own, for some wanted simulation, so
that handling it whole gives the agent a pair that was asked for, or none. For
`NewsStayYoung`, the updates of a batch are folded in whichever order, and the
record after each is as young as before, or younger.

**Load share** (in `Cluster_proofs`), for all loads, ids and numbers of agents:
`ShareIsFair` (a share is the quotient, rounded down or up) and
`SharesLeaveNothing` (of the agents with the ids 0 to n - 1, to which any ids
that differ modulo n come down, as many round up as the division leaves). The
argument is about who does: `WhoGetsOneMore` says, those whose id lifts the rest
to n. The library has no facts about division, so `Division` of `OperatorLemmas`
states what its definition gives.

**Command routing** (`CommandRouting_proofs`), for a chain of any length, any number
of lists, breaks and restarts:

* `RoutingTypes`.
* `StandingStays` and `ServersEndOnlyAfterABreak`. `StandInv` adds that a server with
  a standing connection lives, and that before the first break everything stands and
  nothing is late, so that the server's `expect` can only fail after one (finding 3).
* `NoListTwice` and `LastBroadcastWins`. The places where a list can be are
  numbered along the chain (`At`): the mailbox of a server, its sends under way, a
  simulation, the next mailbox. `TokenInv` says that there is one copy of a list
  (`Unique`), behind all who have handled it (`PastOnce`), that on a way which was
  never broken no list older than a broadcast is behind it (`Ordered`), nor comes
  to an agent after it (`PastOrdered`). Only copies on standing connections are
  of interest: a former connection forwards nothing. Each action moves lists forward;
  `TokensMove` shows once, for any relation from former places to new ones that
  keeps a few facts, that the invariant stays, and each action gives its relation.
  The hard one is the poll, which makes several sends of a mailbox: `Poll` keeps
  their order, and what a connection that is served first gets of a broadcast is
  no matter for the agents of the others.

**Metrics** (`MetricsManager_proofs`), for any actions, executions, resolutions, and
capacities: `MetricsTypes`, `HistogramsAreExact`, `SnapshotsStayFinal`,
`SnapshotsStayApart`. The assumption about `Actions` says that a key is a model and a
name. Three layers:

* Values. `BucketHolds`: the bucket computed is the one whose bounds hold the value
  (the bounds double, so they grow). `TotalOfOneMore`: the time of a set does not
  depend on the order in which it is added up. With them `ObserveTallies`: observing
  a timer makes the histogram of a set that of the set with it.
* Loops. `ObserveAllTallies`: the timers of one instant, numbered from 0 on, go
  into the histogram once each. `InstantRecorded`: after an instant later than all
  that was recorded, the snapshots are final for the timers counted and apart.
  `ProcessPendingProgress` follows this through the settled instants.
* The machine. `IInv` says of each storage that it is good for the timers counted of
  its action (`StorageGood`): what is pending is later than all that was counted
  and than the last snapshot, and a timer that stopped is older than now. This is
  what makes a snapshot final: a timer that still runs is never settled in its own
  instant (`SettledBefore`, as an hour is not 0), and what is kept is behind all
  that is settled (`RetainedAfterSettled`). A fetch leaves `last_snapshot`, so the
  distance holds from the last snapshot fetched. TLC agrees that `IInv` holds on the
  instance of the run `metrics`.

Loops over sequences: SMT cannot use `SelectSeq` or `FoldLeft` of the libraries (an
operator as parameter). `Selection` and `Updated` are recursive functions instead;
`OperatorLemmas` shows that what such a loop's steps keep, all of its results have
(by the least index at which it fails: `UpTo`), and from that what a selection
keeps: elements, order, and nothing twice.

## 8. What is only model-checked

* Liveness (`StoppedSimulationEndsItsBots`, `ReachesWantedCount`, `ComesBack`,
  `UpdatesFlow`, `CommandsArrive`, `Converges`, `CountConverges`,
  `LoadIsShared`, `ListsArrive`, `AgentsBecomeKnown`, `NonzeroCountsBecomeKnown`): the
  proof system does not reason about fairness.
* That the code has the disagreements of section 6: single behaviours, which the runs
  that expect a violation find.

## 9. What is not modelled

* Scripts: compiling and running them is the Rune VM's. A model has a script
  that loads or not, and a run that ends, fails or panics.
* Shapes are real-valued formulas; a model takes any small value.
* Wire formats, generated types, logging, builders, CSV and environment access,
  and the script storage, a map from bot id, name and key to what was written.
* u32 overflow of ids needs 2^32 live bots. `Simulation` takes the 64-bit internal
  id as the pair it encodes, which `InternalIdDecodes` of `BotIds` justifies.
* Clocks: `SystemTime` is monotone and agrees between machines.
* Topologies other than a chain (`CommandRouting`), agents with several parents,
  and the orders of the server's map in which less can be overtaken.
* That an answer of an actor is lost with a full mailbox of 16 (`send` waits).
* A peer that stops reading its stream without closing it (section 6).
* How often the interval function runs: that a late interval does not come in a
  burst is modelled (`TimePasses` and `due` of `AgentReports`), and no property asks
  for it.
