----------------------------- MODULE Simulation -----------------------------
(***************************************************************************)
(* One agent's simulation: the SimulationActor (actor/simulation.rs), its  *)
(* bot models (bot_model.rs) and the BotActor of every bot (actor/bot.rs). *)
(*                                                                         *)
(* All of these are actors of one thread: a handler runs to its first      *)
(* await without interruption, messages wait in the mailbox of their       *)
(* actor, and a bot actor ends some time after what kept it alive is gone. *)
(* The simulation actor empties its mailbox before its timer runs.         *)
(***************************************************************************)
EXTENDS BotModel, Integers, Sequences

CONSTANTS
    Models,         \* the names of bot models
    AgentId,        \* the id of this agent
    Counts,         \* the agents counts the controller sends (u32, 0 included)
    MaxShape,       \* the largest value of a shape, a bound
    MaxRunning,     \* simulation_params.max_running, NoLimit when None
    MaxRate,        \* simulation_params.max_rate, NoLimit when None
    NoLimit,        \* the absent limit
    Loads,          \* the simulations that Load commands carry
    FacadeStates,   \* states requested through SimulationFacade, {} when unused
    MayPanic,       \* whether a bot's action may panic
    MayFailToSpawn, \* whether a script's `new' may fail
    BotMailbox,     \* capacity of a bot's mailbox (16 in actix), a bound
    SimMailbox,     \* capacity of the simulation's mailbox (16), a bound
    MaxCommands,    \* bound on the command lists and facade requests received
    MaxBotId,       \* bound on the bot ids of a model
    Incs            \* bound on the live actors that share an internal id

ASSUME SimulationAssumption ==
    /\ IsFiniteSet(Models)
    /\ AgentId \in Nat
    /\ Counts \subseteq Nat
    /\ MaxShape \in Nat
    /\ MaxRunning \in Nat \cup {NoLimit}
    /\ MaxRate \in Nat \cup {NoLimit}
    /\ NoLimit \notin Nat
    /\ FacadeStates \subseteq BotState
    /\ Loads \subseteq [valid : BOOLEAN, script : SUBSET Models, shapes : SUBSET Models]
    /\ {MayPanic, MayFailToSpawn} \subseteq BOOLEAN
    /\ MaxCommands \in Nat
    /\ {BotMailbox, SimMailbox, MaxBotId} \subseteq Nat \ {0}
    /\ Incs \subseteq Nat

VARIABLES
    sim,        \* the fields of SimulationActor
    mailbox,    \* its mailbox
    actors,     \* the live BotActors, by address
    shape,      \* the value of each model's shape function now
    received,   \* how many command lists and facade requests came
    reloaded    \* history: a load found bot actors of an earlier one alive

vars == <<sim, mailbox, actors, shape, received, reloaded>>
history == <<received, reloaded>>

-----------------------------------------------------------------------------
(* start_ts is None, ahead of the clock, or behind it. *)
StartTs == {"None", "future", "past"}

(***************************************************************************)
(* A SimulationCommandLst.  The controller sends a new agents count alone, *)
(* or the list that takes an agent to the state it wants: stop with reset  *)
(* and count; then load; then launch (generate_simulation_state_commands). *)
(***************************************************************************)
CountCommand == [type : {"Count"}, count : Counts]
IdleCommands == [type : {"Idle"}, count : Counts]
ReadyCommands == [type : {"Ready"}, count : Counts, load : Loads]
LaunchCommands ==
    [type : {"Launched"}, count : Counts, load : Loads, start_ts : StartTs \ {"None"}]

CommandLists == CountCommand \cup IdleCommands \cup ReadyCommands \cup LaunchCommands

StateChange(id, state) == [type |-> "BotStateChange", bot_id |-> id, state |-> state]

InternalIds == (0 .. (Cardinality(Models) - 1)) \X (1 .. MaxBotId)

SimMessages ==
    CommandLists
    \cup {StateChange(id, s) : id \in InternalIds, s \in BotState}
    \cup {[type |-> "InvokeHandler", bot_id |-> id] : id \in InternalIds}

(***************************************************************************)
(* A bot actor: whether the random delay of `started' is pending, whether  *)
(* the interval task awaits a DoAction (and holds the address), the        *)
(* messages in its mailbox, what the taken `bot' runs, whether a StopBot   *)
(* future waits for its hook or has it, and how often the Stopping hook    *)
(* ran to its end.                                                         *)
(***************************************************************************)
BotMessages == {"DoAction", "StopBot", "StopHook", "StoppingHook", "OtherHook", "Handler"}

BotActor ==
    [delay : BOOLEAN, task : BOOLEAN, mbox : Seq(BotMessages),
     run : BotMessages \cup {"none"}, stop : {"no", "waiting", "done"}, hooks : Nat]

NewBotActor ==
    [delay |-> TRUE, task |-> FALSE, mbox |-> <<>>, run |-> "none", stop |-> "no", hooks |-> 0]

Addresses == (0 .. (Cardinality(Models) - 1)) \X (1 .. MaxBotId) \X Incs

Live == DOMAIN actors

InternalId(addr) == <<addr[1], addr[2]>>

(* The addresses held in the maps of bot models. *)
Held(bots) == UNION {{Address(bots[m], id) : id \in BotIds(bots[m])} : m \in DOMAIN bots}

(* is_connected: the actor behind the address lives. *)
is_connected(model, id) == Address(model, id) \in Live

-----------------------------------------------------------------------------
NoBots == [m \in {} |-> {}]

Init ==
    /\ sim = [start_ts |-> "None", bot_types |-> {}, model_shapes |-> {},
              agents_count |-> 1, bots |-> NoBots]
    /\ mailbox = <<>>
    /\ actors = NoBots
    /\ shape = [m \in Models |-> 0]
    /\ received = 0
    /\ reloaded = FALSE

(* The clock passes the start of the simulation. *)
ClockPassesStart ==
    /\ sim.start_ts = "future"
    /\ sim' = [sim EXCEPT !.start_ts = "past"]
    /\ UNCHANGED <<mailbox, actors, shape, history>>

(* The shape of a model takes another value as time goes by. *)
ShapeMoves ==
    /\ \E m \in Models, v \in 0 .. MaxShape : shape' = [shape EXCEPT ![m] = v]
    /\ shape' # shape
    /\ UNCHANGED <<sim, mailbox, actors, history>>

-----------------------------------------------------------------------------
(* Commands for the simulation actor. *)
StopSimulation(s) ==
    [s EXCEPT !.start_ts = "None", !.bot_types = {}, !.model_shapes = {}]

(* The count is taken as it comes. *)
UpdateAgentsCountUnchecked(s, count) == [s EXCEPT !.agents_count = count]

UpdateAgentsCount(s, count) ==
    [s EXCEPT !.agents_count = IF count > 0 THEN count ELSE 1]

(* The models registered once the script was read: an invalid one keeps them. *)
TypesAfter(types, load) == IF load.valid THEN load.script ELSE types

(* The indices of `enumerate' over a HashMap's keys, in any order. *)
Orders(types) ==
    {f \in [types -> 0 .. (Cardinality(types) - 1)] :
        \A m, n \in types : f[m] = f[n] => m = n}

(***************************************************************************)
(* LoadSimulation: the shapes that parse are registered, the script is     *)
(* read, and every model gets a new BotModel.  `drain' drops the entries   *)
(* of the former ones, and the addresses in them, at once.                 *)
(***************************************************************************)
LoadSimulation(s, load, order) ==
    LET types == TypesAfter(s.bot_types, load) IN
    [s EXCEPT !.bot_types = types,
              !.model_shapes = @ \cup load.shapes,
              !.bots = [m \in types |-> NewBotModel(order[m])]]

LaunchSimulation(s, start_ts) == [s EXCEPT !.start_ts = start_ts]

(* The agent core sends a list; a full mailbox makes it wait. *)
SendCommands ==
    /\ received < MaxCommands
    /\ Len(mailbox) < SimMailbox
    /\ \E list \in CommandLists : mailbox' = Append(mailbox, list)
    /\ received' = received + 1
    /\ UNCHANGED <<sim, actors, shape, reloaded>>

(* The handler of SimulationCommandLst. *)
HandleCommands ==
    /\ mailbox # <<>>
    /\ Head(mailbox) \in CommandLists
    /\ LET list == Head(mailbox)
           stopped == IF list.type = "Count" THEN sim ELSE StopSimulation(sim)
           counted == UpdateAgentsCount(stopped, list.count)
       IN  IF list.type \in {"Count", "Idle"} THEN sim' = counted
           ELSE \E order \in Orders(TypesAfter(counted.bot_types, list.load)) :
                   LET loaded == LoadSimulation(counted, list.load, order) IN
                   sim' = IF list.type = "Ready" THEN loaded
                          ELSE LaunchSimulation(loaded, list.start_ts)
    /\ reloaded' = \/ reloaded
                   \/ Head(mailbox).type \in {"Ready", "Launched"} /\ Live # {}
    /\ mailbox' = Tail(mailbox)
    /\ UNCHANGED <<actors, shape, received>>

-----------------------------------------------------------------------------
(* Messages from bots and from the facade. *)

(* A bot actor's mailbox takes a message unless it is full. *)
HasRoom(addr) == Len(actors[addr].mbox) < BotMailbox

Deliver(addrs, msg) ==
    actors' = [a \in Live |-> IF a \in addrs
                              THEN [actors[a] EXCEPT !.mbox = Append(@, msg)]
                              ELSE actors[a]]

(* The message with which a hook for a state is requested. *)
HookOf(state) == IF state = "Stopping" THEN "StoppingHook" ELSE "OtherHook"

(***************************************************************************)
(* The handler of BotStateChange.  Stopped comes from an actor that ended, *)
(* or from the facade: the entry goes and its id is released.  Any other   *)
(* state comes from the facade: it is noted in the entry, and the bot is   *)
(* sent the hook (to an actor that is gone the request fails).             *)
(***************************************************************************)
HandleBotStateChange ==
    /\ mailbox # <<>>
    /\ Head(mailbox).type = "BotStateChange"
    /\ LET id == Head(mailbox).bot_id
           state == Head(mailbox).state
           owners == {m \in DOMAIN sim.bots : contains_id(sim.bots[m], id)}
       IN  IF owners = {} THEN UNCHANGED <<sim, actors>>
           ELSE \E m \in owners :
                IF state = "Stopped"
                THEN /\ sim' = [sim EXCEPT !.bots[m] = remove_bot(@, id[2])]
                     /\ UNCHANGED actors
                ELSE /\ sim' = [sim EXCEPT !.bots[m] = change_state(@, id[2], state)]
                     /\ Deliver({Address(sim.bots[m], id[2])}, HookOf(state))
    /\ mailbox' = Tail(mailbox)
    /\ UNCHANGED <<shape, history>>

(* The handler of InvokeHandler forwards the call to the bot, if there is one. *)
HandleInvokeHandler ==
    /\ mailbox # <<>>
    /\ Head(mailbox).type = "InvokeHandler"
    /\ LET id == Head(mailbox).bot_id IN
       Deliver({Address(sim.bots[m], id[2]) :
                   m \in {n \in DOMAIN sim.bots : contains_id(sim.bots[n], id)}},
               "Handler")
    /\ mailbox' = Tail(mailbox)
    /\ UNCHANGED <<sim, shape, history>>

(* An extension uses the facade for a bot it knows, and that may be gone by then. *)
FacadeRequest ==
    /\ received < MaxCommands
    /\ Len(mailbox) < SimMailbox
    /\ \A a \in Live : Len(actors[a].mbox) + Len(mailbox) < BotMailbox
    /\ \E addr \in Live, state \in FacadeStates :
          \/ mailbox' = Append(mailbox, StateChange(InternalId(addr), state))
          \/ mailbox' = Append(mailbox, [type |-> "InvokeHandler", bot_id |-> InternalId(addr)])
    /\ received' = received + 1
    /\ UNCHANGED <<sim, actors, shape, reloaded>>

-----------------------------------------------------------------------------
(* The timer of the simulation actor, which runs when its mailbox is empty. *)

AtMost(n, limit) == IF limit = NoLimit THEN n ELSE IF n <= limit THEN n ELSE limit

(* normalize_count: this agent's share of a count over all agents. *)
normalize_count(global_count) ==
    (global_count + (AgentId % sim.agents_count)) \div sim.agents_count

(* How many bots of a model this agent should run. *)
Wanted(m) == AtMost(normalize_count(shape[m]), MaxRunning)

(* The incarnation of an actor started for an id: the lowest that is free. *)
FreshInc(model, id) ==
    Least({k \in Incs : <<model.model_id, id, k>> \notin Live})

CanStart(model, id) == \E k \in Incs : <<model.model_id, id, k>> \notin Live

(* What the tick may do to a model: its new value, whom it stops and starts. *)
Outcome(model, stopped, started) ==
    [model |-> model, stopped |-> stopped, started |-> started]

(* Those of some bots whose actor lives and has room for StopBot. *)
Told(model, ids) ==
    {id \in ids : is_connected(model, id) /\ HasRoom(Address(model, id))}

(* One bot too few is stopped. *)
StopOutcomesOneShort(model, excess) ==
    {Outcome(stop_bots(model, ids, Told(model, ids)),
             {Address(model, id) : id \in Told(model, ids)}, {}) :
     ids \in {S \in SUBSET Active(model) : Cardinality(S) = excess - 1}}

(***************************************************************************)
(* stop_bot for `excess' active bots, or all there are, whichever the      *)
(* HashMap yields first.                                                   *)
(***************************************************************************)
StopOutcomes(model, excess) ==
    {Outcome(stop_bots(model, ids, Told(model, ids)),
             {Address(model, id) : id \in Told(model, ids)}, {}) :
     ids \in {S \in SUBSET Active(model) :
                 \/ Cardinality(S) = excess
                 \/ S = Active(model) /\ Cardinality(S) < excess}}

(* spawn_bot `missing' times, fewer bots coming of it when `new' may fail. *)
SpawnOutcomes(model, missing) ==
    {LET inc == [id \in ids |-> FreshInc(model, id)] IN
     Outcome(spawn_bots(model, ids, inc), {}, {<<model.model_id, id, inc[id]>> : id \in ids}) :
     ids \in {S \in SUBSET (1 .. MaxBotId) :
                 /\ AreNextIds(model.id_generator, S)
                 /\ \A id \in S : CanStart(model, id)
                 /\ \/ Cardinality(S) = AtMost(missing, MaxRate)
                    \/ MayFailToSpawn /\ Cardinality(S) < AtMost(missing, MaxRate)}}

(* The wanted number of bots is spawned, not what is missing of it. *)
TickOutcomesSpawningAll(m) ==
    LET running == count_active(sim.bots[m])
        model == retain(sim.bots[m], {id \in BotIds(sim.bots[m]) : is_connected(sim.bots[m], id)})
    IN  IF Wanted(m) < running THEN StopOutcomes(model, running - Wanted(m))
        ELSE IF Wanted(m) > running THEN SpawnOutcomes(model, Wanted(m))
        ELSE {Outcome(model, {}, {})}

(***************************************************************************)
(* The body of the loop of tick for one model.  The running bots are       *)
(* counted before the entries of dead actors are dropped.                  *)
(***************************************************************************)
TickOutcomes(m) ==
    LET running == count_active(sim.bots[m])
        model == retain(sim.bots[m], {id \in BotIds(sim.bots[m]) : is_connected(sim.bots[m], id)})
    IN  IF Wanted(m) < running THEN StopOutcomes(model, running - Wanted(m))
        ELSE IF Wanted(m) > running THEN SpawnOutcomes(model, Wanted(m) - running)
        ELSE {Outcome(model, {}, {})}

(* The loop ends at the first shape, in HashMap order, that has no model. *)
Visited ==
    LET known == sim.model_shapes \cap DOMAIN sim.bots IN
    IF sim.model_shapes = known THEN {known} ELSE SUBSET known

TickRunning ==
    /\ mailbox = <<>>
    /\ sim.start_ts = "past"
    /\ \E visited \in Visited :
       \E out \in [visited -> UNION {TickOutcomes(m) : m \in visited}] :
          /\ \A m \in visited : out[m] \in TickOutcomes(m)
          /\ sim' = [sim EXCEPT !.bots =
                        [m \in DOMAIN @ |-> IF m \in visited THEN out[m].model ELSE @[m]]]
          /\ LET stopped == UNION {out[m].stopped : m \in visited}
                 started == UNION {out[m].started : m \in visited}
             IN  actors' = [a \in Live \cup started |->
                              IF a \in started THEN NewBotActor
                              ELSE IF a \in stopped
                                   THEN [actors[a] EXCEPT !.mbox = Append(@, "StopBot")]
                                   ELSE actors[a]]
    /\ UNCHANGED <<mailbox, shape, history>>

(* Before the start, and once stopped, the tick stops every active bot. *)
TickStopped ==
    /\ mailbox = <<>>
    /\ sim.start_ts # "past"
    /\ LET bots == sim.bots
           told(m) == Told(bots[m], Active(bots[m]))
       IN  /\ sim' = [sim EXCEPT !.bots = [m \in DOMAIN bots |->
                                             stop_bots(bots[m], Active(bots[m]), told(m))]]
           /\ Deliver(UNION {{Address(bots[m], id) : id \in told(m)} : m \in DOMAIN bots},
                      "StopBot")
    /\ UNCHANGED <<mailbox, shape, history>>

-----------------------------------------------------------------------------
(* The bot actors. *)

Become(addr, bot) == actors' = [actors EXCEPT ![addr] = bot]

(* The random delay of `started' is over: the interval task begins. *)
StartInterval(addr) ==
    /\ actors[addr].delay
    /\ Become(addr, [actors[addr] EXCEPT !.delay = FALSE])
    /\ UNCHANGED <<sim, mailbox, shape, history>>

(* run_interval_weak: the task takes the address, sends DoAction and awaits. *)
SendDoAction(addr) ==
    /\ ~actors[addr].delay
    /\ ~actors[addr].task
    /\ HasRoom(addr)
    /\ Become(addr, [actors[addr] EXCEPT !.task = TRUE, !.mbox = Append(@, "DoAction")])
    /\ UNCHANGED <<sim, mailbox, shape, history>>

(* StopBot that stops the actor without a detour through the hook. *)
HandleMessageStopNow(addr) ==
    /\ actors[addr].run = "none"
    /\ actors[addr].mbox # <<>>
    /\ LET msg == Head(actors[addr].mbox)
           rest == Tail(actors[addr].mbox)
       IN  Become(addr,
                  IF msg = "StopBot" THEN [actors[addr] EXCEPT !.mbox = rest, !.stop = "done"]
                  ELSE [actors[addr] EXCEPT !.mbox = rest, !.run = msg])
    /\ UNCHANGED <<sim, mailbox, shape, history>>

(***************************************************************************)
(* A handler begins.  StopBot sends TriggerHook to its own actor and       *)
(* leaves a future; the others take the bot and hold the mailbox until     *)
(* they end (AtomicResponse), so that no message finds the bot occupied.   *)
(***************************************************************************)
HandleMessage(addr) ==
    /\ actors[addr].run = "none"
    /\ actors[addr].mbox # <<>>
    /\ LET msg == Head(actors[addr].mbox)
           rest == Tail(actors[addr].mbox)
       IN  Become(addr,
               IF msg = "StopBot"
               THEN [actors[addr] EXCEPT !.mbox = Append(rest, "StopHook"),
                                         !.stop = IF @ = "done" THEN @ ELSE "waiting"]
               ELSE [actors[addr] EXCEPT !.mbox = rest, !.run = msg])
    /\ UNCHANGED <<sim, mailbox, shape, history>>

(* What was run gives the bot back, in success or with an error. *)
FinishRun(addr) ==
    /\ actors[addr].run # "none"
    /\ LET bot == actors[addr] IN
       Become(addr,
           [bot EXCEPT !.run = "none",
                       !.task = IF bot.run = "DoAction" THEN FALSE ELSE @,
                       !.stop = IF bot.run = "StopHook" THEN "done" ELSE @,
                       !.hooks = IF bot.run \in {"StopHook", "StoppingHook"} /\ @ < 2
                                 THEN @ + 1 ELSE @])
    /\ UNCHANGED <<sim, mailbox, shape, history>>

Without(addr) == [a \in Live \ {addr} |-> actors[a]]

(* stopped: the simulation is told, unless its mailbox is full. *)
NotifyStopped(addr) ==
    mailbox' = IF Len(mailbox) < SimMailbox
               THEN Append(mailbox, StateChange(InternalId(addr), "Stopped"))
               ELSE mailbox

Idle(addr) == actors[addr].run = "none" /\ actors[addr].mbox = <<>>

(* The StopBot future has its answer and calls ctx.stop(). *)
StopAfterHook(addr) ==
    /\ Idle(addr)
    /\ actors[addr].stop = "done"
    /\ actors' = Without(addr)
    /\ NotifyStopped(addr)
    /\ UNCHANGED <<sim, shape, history>>

(* Nobody holds the address and nothing is pending: the actor ends. *)
StopWhenDropped(addr) ==
    /\ Idle(addr)
    /\ addr \notin Held(sim.bots)
    /\ ~actors[addr].delay /\ ~actors[addr].task /\ actors[addr].stop = "no"
    /\ actors' = Without(addr)
    /\ NotifyStopped(addr)
    /\ UNCHANGED <<sim, shape, history>>

(* An action panics, as random_action does for a bot without actions. *)
PanicInAction(addr) ==
    /\ MayPanic
    /\ actors[addr].run = "DoAction"
    /\ actors' = Without(addr)
    /\ UNCHANGED <<sim, mailbox, shape, history>>

-----------------------------------------------------------------------------
BotStep(addr) ==
    \/ StartInterval(addr) \/ SendDoAction(addr)
    \/ HandleMessage(addr) \/ FinishRun(addr)
    \/ StopAfterHook(addr) \/ StopWhenDropped(addr) \/ PanicInAction(addr)

HandleMail == HandleCommands \/ HandleBotStateChange \/ HandleInvokeHandler

Tick == TickRunning \/ TickStopped

Next ==
    \/ ClockPassesStart \/ ShapeMoves
    \/ SendCommands \/ FacadeRequest
    \/ HandleMail \/ Tick
    \/ \E addr \in Live : BotStep(addr)

Spec == Init /\ [][Next]_vars

(***************************************************************************)
(* Messages are handled, what a script runs ends, and the clock goes on.   *)
(* The timer fires every 1.5 s: it may find the mailbox busy, not for      *)
(* ever.  An actor that may end does: between two rounds of its interval   *)
(* task the runtime polls it at least once.                                *)
(***************************************************************************)
Fairness ==
    /\ WF_vars(ClockPassesStart)
    /\ WF_vars(HandleMail)
    /\ SF_vars(Tick)
    /\ \A addr \in Addresses :
          /\ WF_vars(addr \in Live /\ StartInterval(addr))
          /\ WF_vars(addr \in Live /\ HandleMessage(addr))
          /\ WF_vars(addr \in Live /\ FinishRun(addr))
          /\ SF_vars(addr \in Live /\ StopAfterHook(addr))
          /\ SF_vars(addr \in Live /\ StopWhenDropped(addr))

FairSpec == Spec /\ Fairness

-----------------------------------------------------------------------------
(* The structure of the simulation actor, its mailbox and the bot actors. *)
TypeOK ==
    /\ sim.start_ts \in StartTs
    /\ sim.bot_types \subseteq Models
    /\ sim.model_shapes \subseteq Models
    /\ sim.agents_count \in Nat \ {0}
    /\ DOMAIN sim.bots \subseteq Models
    /\ \A m \in DOMAIN sim.bots :
          /\ sim.bots[m].model_id \in 0 .. (Cardinality(Models) - 1)
          /\ \A id \in BotIds(sim.bots[m]) :
                sim.bots[m].bots[id] \in [state : BotState, inc : Incs]
    /\ mailbox \in Seq(SimMessages)
    /\ Live \subseteq Addresses
    /\ \A a \in Live : actors[a] \in BotActor
    /\ shape \in [Models -> 0 .. MaxShape]

(***************************************************************************)
(* After any spawns, failed spawns, stops, stale notifications and sweeps  *)
(* of dead actors, the generator of a model knows exactly the ids of the   *)
(* entries: spawn_bot never overwrites the entry of another bot.           *)
(***************************************************************************)
ModelsExact == \A m \in DOMAIN sim.bots : ModelExact(sim.bots[m])

(***************************************************************************)
(* As long as no load drops live bots, a bot actor that lives has its      *)
(* entry, so that the simulation can count it and stop it, and no other    *)
(* actor has its id.                                                       *)
(***************************************************************************)
EveryBotHasItsEntry == ~reloaded => Live \subseteq Held(sim.bots)

(* The actors of a model that nobody has told to stop. *)
Untold(m) ==
    {a \in Live : /\ a[1] = sim.bots[m].model_id
                  /\ actors[a].stop = "no"
                  /\ \A i \in DOMAIN actors[a].mbox : actors[a].mbox[i] # "StopBot"}

(***************************************************************************)
(* max_running bounds, for each model, the bot actors that have not been   *)
(* told to stop: the entries counted by the tick are all there are.        *)
(***************************************************************************)
UntoldWithinMaxRunning ==
    ~reloaded /\ MaxRunning # NoLimit =>
        \A m \in DOMAIN sim.bots : Cardinality(Untold(m)) <= MaxRunning

(***************************************************************************)
(* A bot that ends other than by a panic has run its Stopping hook, and    *)
(* once: no bot is dropped silently and none is told to stop twice.        *)
(***************************************************************************)
EndsAfterOneStoppingHook ==
    [][~reloaded' => \A a \in Live \ Live' :
          actors[a].run = "none" => actors[a].hooks = 1]_vars

(***************************************************************************)
(* A simulation that is stopped for good ends all of its bots, the ones    *)
(* dropped by a load included.                                             *)
(***************************************************************************)
StoppedSimulationEndsItsBots ==
    <>[](sim.start_ts # "past") => <>[](Live = {})

Steady(m, n) ==
    /\ ~reloaded
    /\ sim.start_ts = "past"
    /\ sim.model_shapes \subseteq DOMAIN sim.bots
    /\ m \in sim.model_shapes
    /\ Wanted(m) = n

(***************************************************************************)
(* A running simulation whose shape rests reaches the number of bots asked *)
(* of this agent, and stays there.                                         *)
(***************************************************************************)
ReachesWantedCount ==
    \A m \in Models : \A n \in 0 .. MaxShape :
        <>[]Steady(m, n) => <>[](Steady(m, n) /\ count_active(sim.bots[m]) = n)

-----------------------------------------------------------------------------
(* What documents and comments say, and the code does not do. *)

(***************************************************************************)
(* site/pages/02_simulation.mdx on `internal_id': a unique index of the    *)
(* bot inside the agent.  No two bots that live have the same.             *)
(***************************************************************************)
UniqueInternalId ==
    \A a, b \in Live : InternalId(a) = InternalId(b) => a = b
=============================================================================
