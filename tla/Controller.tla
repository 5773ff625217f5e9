----------------------------- MODULE Controller -----------------------------
(***************************************************************************)
(* What ControllerActor (controller/actor.rs, controller/model/            *)
(* simulation.rs) computes: the commands for a wanted simulation, whether  *)
(* a reported state is aligned with it, and the records of the agents      *)
(* after a batch of updates.  Pure operators; Cluster.tla makes them       *)
(* steps.  Instants are kept as ages, so that time need not be counted:    *)
(* an age grows as time passes, up to Expiry (the 60 seconds after which   *)
(* a record is dropped).                                                   *)
(***************************************************************************)
EXTENDS Integers, FiniteSets, Sequences, SequencesExt

CONSTANTS
    Agents,
    Sims,           \* simulation definitions a user may load
    GoodSims,       \* those whose script compiles and has a bot model
    Expiry,         \* the age at which a record is dropped, a bound
    MaxLaunches     \* bound on the start timestamps users choose

ASSUME ControllerAssumption ==
    /\ IsFiniteSet(Agents)
    /\ GoodSims \subseteq Sims
    /\ "None" \notin Sims
    /\ Expiry \in Nat \ {0}
    /\ MaxLaunches \in Nat

(* The start timestamps; 0 is none. *)
Launches == 0 .. MaxLaunches

(* grpc::AgentSimulationState; no agent ever reports Stopping. *)
Kinds == {"Idle", "Ready", "Waiting", "Running"}

(* SimulationState: the simulation wanted. *)
Wanted == [state : {"Idle"}, sim : {"None"}, start : {0}]
          \cup [state : {"Ready"}, sim : Sims, start : {0}]
          \cup [state : {"Launched"}, sim : Sims, start : Launches \ {0}]

Idle == [state |-> "Idle", sim |-> "None", start |-> 0]
Ready(s) == [state |-> "Ready", sim |-> s, start |-> 0]
Launched(s, l) == [state |-> "Launched", sim |-> s, start |-> l]

(* `passed' are the start timestamps that lie in the past. *)
is_aligned(wanted, kind, passed) ==
    \/ wanted.state = "Idle" /\ kind = "Idle"
    \/ wanted.state = "Ready" /\ kind = "Ready"
    \/ wanted.state = "Launched" /\ kind = "Running"
    \/ wanted.state = "Launched" /\ kind = "Waiting" /\ wanted.start \notin passed

-----------------------------------------------------------------------------
Stop == [type |-> "Stop"]
UpdateAgentsCount(n) == [type |-> "UpdateAgentsCount", count |-> n]
Load(s) == [type |-> "Load", sim |-> s]
Launch(l) == [type |-> "Launch", start |-> l]

(* The commands without the Stop that resets the agent. *)
simulation_state_commandsNoStop(wanted, n) ==
    <<UpdateAgentsCount(n)>>
    \o (IF wanted.state = "Idle" THEN <<Stop>> ELSE <<Load(wanted.sim)>>)
    \o (IF wanted.state = "Launched" THEN <<Launch(wanted.start)>> ELSE <<>>)

(* generate_simulation_state_commands, n being count_agents(). *)
simulation_state_commands(wanted, n) ==
    <<Stop, UpdateAgentsCount(n)>>
    \o (IF wanted.state = "Idle" THEN <<>> ELSE <<Load(wanted.sim)>>)
    \o (IF wanted.state = "Launched" THEN <<Launch(wanted.start)>> ELSE <<>>)

-----------------------------------------------------------------------------
(* The simulation of an agent, as far as it reports it. *)
Agent == [sim : Sims \cup {"None"}, start : Launches, count : {1} \cup 1 .. Cardinality(Agents)]

NewAgent == [sim |-> "None", start |-> 0, count |-> 1]

(* FetchSimulationStats. *)
kind(agent, passed) ==
    CASE agent.sim = "None" -> "Idle"
      [] agent.sim # "None" /\ agent.start = 0 -> "Ready"
      [] agent.sim # "None" /\ agent.start \in passed -> "Running"
      [] OTHER -> "Waiting"

(* The count of the controller is taken as it is. *)
AfterCommandCountUnchecked(agent, cmd) ==
    CASE cmd.type = "Stop" -> [agent EXCEPT !.sim = "None", !.start = 0]
      [] cmd.type = "UpdateAgentsCount" -> [agent EXCEPT !.count = cmd.count]
      [] cmd.type = "Load" ->
           [agent EXCEPT !.sim = IF cmd.sim \in GoodSims THEN cmd.sim ELSE agent.sim]
      [] cmd.type = "Launch" -> [agent EXCEPT !.start = cmd.start]

(***************************************************************************)
(* One command of a SimulationCommandLst.  A script that does not load     *)
(* leaves the registry as the reset left it, with no models.               *)
(***************************************************************************)
AfterCommand(agent, cmd) ==
    CASE cmd.type = "Stop" -> [agent EXCEPT !.sim = "None", !.start = 0]
      [] cmd.type = "UpdateAgentsCount" ->
           [agent EXCEPT !.count = IF cmd.count > 0 THEN cmd.count ELSE 1]
      [] cmd.type = "Load" ->
           [agent EXCEPT !.sim = IF cmd.sim \in GoodSims THEN cmd.sim ELSE agent.sim]
      [] cmd.type = "Launch" -> [agent EXCEPT !.start = cmd.start]

(* The commands of a list, one after the other. *)
AfterCommands(agent, commands) ==
    LET after[i \in 0 .. Len(commands)] ==
            IF i = 0 THEN agent ELSE AfterCommand(after[i - 1], commands[i])
    IN  after[Len(commands)]

-----------------------------------------------------------------------------
(* agents_state: for each agent, nothing or what it last reported. *)
Unknown == [state |-> "Unknown", age |-> 0]
Record == [state : Kinds, age : 0 .. (Expiry - 1)] \cup {Unknown}

RecordOf(update) == [state |-> update.state, age |-> update.age]

(* The record takes every update, as if none came late. *)
AfterUpdateAlways(record, update) == RecordOf(update)

(* An update changes the record when it is younger. *)
AfterUpdate(record, update) ==
    IF record = Unknown \/ update.age < record.age THEN RecordOf(update) ELSE record

(* retain: a record of 60 seconds is dropped. *)
Retain(record) == IF record.age >= Expiry THEN Unknown ELSE record

(* The agents whose record is there. *)
Recorded(records) == {a \in DOMAIN records : records[a] # Unknown}

(* The record after updates of its agent, one after the other. *)
Updated(record, updates) ==
    LET after[i \in 0 .. Len(updates)] ==
            IF i = 0 THEN record ELSE AfterUpdate(after[i - 1], updates[i])
    IN  after[Len(updates)]

(* align_agents_simulation_state with updates of one agent, in order. *)
AfterUpdates(records, a, updates) ==
    LET taken == [records EXCEPT ![a] = Updated(@, updates)] IN
    [b \in DOMAIN records |-> Retain(taken[b])]

misaligned_agents(records, wanted, passed) ==
    {a \in Recorded(records) : ~is_aligned(wanted, records[a].state, passed)}
=============================================================================
