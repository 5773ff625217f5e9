------------------------------ MODULE Cluster ------------------------------
(***************************************************************************)
(* A controller and the agents connected to it.  The controller            *)
(* (controller/actor.rs) sends the simulation a user wants to all agents   *)
(* and, each time an agent reports, sends it again to those whose last     *)
(* report differs.  Between them are the server (server_actor.rs), which   *)
(* sends a command to one connection after the other, and links that       *)
(* break.  Agents report every 3 seconds; reports come late, and those of  *)
(* a batch in any order.                                                   *)
(***************************************************************************)
EXTENDS Controller, LoadShare, Selection

CONSTANTS
    Ids,            \* the id of each agent, a number
    Shapes,         \* counts of bots a shape may ask for
    Order,          \* the order of the server's map of connections
    MaxRequests,    \* bound on what users ask
    MaxBreaks,      \* bound on links that break, restarts and commands lost
    MaxFlight,      \* bound on the commands the server has at a time
    MaxDelay,       \* how many periods a report may take to arrive
    Wire,           \* capacity of the channel of commands to an agent
    MaxReports      \* bound on the reports of an agent on their way

ASSUME ClusterAssumption ==
    /\ Ids \in [Agents -> Nat] /\ Shapes \subseteq Nat
    /\ Order \in Seq(Agents) /\ IsInjective(Order) /\ Range(Order) = Agents
    /\ {MaxRequests, MaxBreaks, MaxDelay} \subseteq Nat
    /\ MaxDelay < Expiry
    /\ {MaxFlight, Wire, MaxReports} \subseteq Nat \ {0}

VARIABLES
    wanted,         \* ControllerActor.simulation
    records,        \* ControllerActor.agents_state
    passed,         \* the start timestamps in the past
    launches,       \* history: for each start timestamp, the simulation started
    flight,         \* commands the server is sending, in the order it got them
    link,           \* for each agent, whether its connection stands
    known,          \* whether the server knows who is behind the connection
    forwards,       \* whether the agent's upstream actor forwards commands
    missed,         \* history: whether it has lost one in a full channel
    wire,           \* for each agent, commands on their way to it
    agent,          \* the simulation of each agent
    reported,       \* whether the agent has reported in this period
    reports,        \* for each agent, its reports on their way
    requests,       \* how much users asked, to bound it
    breaks          \* how often something failed, to bound it

vars == <<wanted, records, passed, launches, flight, link, known, forwards,
          missed, wire, agent, reported, reports, requests, breaks>>

controller == <<wanted, records, requests, launches>>
links == <<link, known, forwards, missed, breaks>>

Report == [state : Kinds, age : 0 .. Expiry, old : BOOLEAN]

Init ==
    /\ wanted = Idle
    /\ records = [a \in Agents |-> Unknown]
    /\ passed = {} /\ launches = <<>>
    /\ flight = <<>>
    /\ link = [a \in Agents |-> FALSE]
    /\ known = [a \in Agents |-> FALSE]
    /\ forwards = [a \in Agents |-> TRUE]
    /\ missed = [a \in Agents |-> FALSE]
    /\ wire = [a \in Agents |-> <<>>]
    /\ agent = [a \in Agents |-> NewAgent]
    /\ reported = [a \in Agents |-> FALSE]
    /\ reports = [a \in Agents |-> {}]
    /\ requests = 0 /\ breaks = 0

-----------------------------------------------------------------------------
(* The controller. *)

count_agents(recs) == Cardinality(Recorded(recs))

Message(commands, targets, awaited) ==
    [commands |-> commands, awaited |-> awaited,
     to |-> Select(Order, targets)]

(* The server drops a message for which it has no connection. *)
Sending(messages) == Select(messages, {m \in Range(messages) : m.to # <<>>})

(* send_broadcast goes to all connections. *)
Connections == {a \in Agents : link[a]}

(* The handlers of users' requests end when the broadcast is sent. *)
Busy == \E i \in DOMAIN flight : flight[i].awaited

broadcast_simulation_state ==
    flight' = flight \o Sending(<<Message(
        simulation_state_commands(wanted', count_agents(records)), Connections, TRUE)>>)

UserAsks ==
    /\ ~Busy
    /\ requests < MaxRequests
    /\ requests' = requests + 1
    /\ UNCHANGED <<records, links, wire, agent, reported, reports>>

(* A load that is only noted, to reach agents when they are aligned. *)
LoadSimulationQuietly(s) ==
    /\ UserAsks
    /\ wanted' = Ready(s)
    /\ UNCHANGED <<passed, launches, flight>>

LoadSimulation(s) ==
    /\ UserAsks
    /\ wanted' = Ready(s)
    /\ broadcast_simulation_state
    /\ UNCHANGED <<passed, launches>>

(* The timestamp may be in the past.  An idle controller broadcasts too. *)
StartSimulation ==
    /\ UserAsks
    /\ Len(launches) < MaxLaunches
    /\ launches' = Append(launches, wanted.sim)
    /\ passed' \in {passed, passed \cup {Len(launches')}}
    /\ wanted' = IF wanted.state = "Idle" THEN Idle ELSE Launched(wanted.sim, Len(launches'))
    /\ broadcast_simulation_state

(* The instant of a start timestamp goes by. *)
StartPasses ==
    /\ \E l \in DOMAIN launches \ passed : passed' = passed \cup {l}
    /\ UNCHANGED <<controller, flight, links, wire, agent, reported, reports>>

(* The count of agents, for all, when an update changed it. *)
CountMessage(before, after) ==
    Message(<<UpdateAgentsCount(after)>>, IF after # before THEN Connections ELSE {}, FALSE)

(***************************************************************************)
(* The server gets a batch of reports of an agent, takes note of who is    *)
(* behind the connection and passes them on; the controller handles        *)
(* MultiAgentUpdateMessage: records, expiry, alignment through the         *)
(* connections behind which the agent is known, then the count.            *)
(***************************************************************************)
HandleUpdates(a) ==
    /\ ~Busy
    /\ Len(flight) < MaxFlight
    /\ \E n \in 1 .. Cardinality(reports[a]) : \E updates \in [1 .. n -> reports[a]] :
          LET batch == Range(updates) IN
          /\ IsInjective(updates)
          /\ known' = [known EXCEPT ![a] = @ \/ \E r \in batch : ~r.old]
          /\ records' = AfterUpdates(records, a, updates)
          /\ reports' = [reports EXCEPT ![a] = @ \ batch]
    /\ flight' = flight \o Sending(<<
           Message(simulation_state_commands(wanted, count_agents(records')),
                   {b \in misaligned_agents(records', wanted, passed) : known'[b]}, FALSE),
           CountMessage(count_agents(records), count_agents(records'))>>)
    /\ UNCHANGED <<wanted, requests, launches, passed, link, forwards, missed, breaks, wire, agent, reported>>

-----------------------------------------------------------------------------
(* The server. *)

(* Messages for one connection overtake each other, too. *)
DeliverUnordered(i) ==
    LET a == Head(flight[i].to) IN
    /\ Len(wire[a]) < Wire
    /\ wire' = [wire EXCEPT ![a] = Append(@, flight[i].commands)]
    /\ flight' = Sending([flight EXCEPT ![i].to = Tail(@)])
    /\ UNCHANGED <<controller, passed, links, agent, reported, reports>>

(***************************************************************************)
(* GrpcServerActor sends a message to one connection after the other, each *)
(* time waiting for the connection's actor, whose mailbox is a queue.      *)
(* Messages for different connections overtake each other.                 *)
(***************************************************************************)
Deliver(i) ==
    LET a == Head(flight[i].to) IN
    /\ \A j \in 1 .. (i - 1) : Head(flight[j].to) # a
    /\ Len(wire[a]) < Wire
    /\ wire' = [wire EXCEPT ![a] = Append(@, flight[i].commands)]
    /\ flight' = Sending([flight EXCEPT ![i].to = Tail(@)])
    /\ UNCHANGED <<controller, passed, links, agent, reported, reports>>

(* A connection takes the first message that waits for it. *)
DeliverTo(a) == \E i \in DOMAIN flight : Head(flight[i].to) = a /\ Deliver(i)

-----------------------------------------------------------------------------
(* Agents and links. *)

Connect(a) ==
    /\ ~link[a]
    /\ link' = [link EXCEPT ![a] = TRUE]
    /\ UNCHANGED <<controller, passed, flight, known, forwards, missed, breaks, wire, agent, reported, reports>>

Fails ==
    /\ breaks < MaxBreaks
    /\ breaks' = breaks + 1

(***************************************************************************)
(* The link breaks: commands on it are lost, and some of the reports; the  *)
(* others are with the server already.  The agent will connect again, and  *)
(* then forwards no command (Upstream.tla), unless it is a restart, which  *)
(* loses the simulation.                                                   *)
(***************************************************************************)
Breaks(a) ==
    /\ Fails
    /\ link' = [link EXCEPT ![a] = FALSE]
    /\ known' = [known EXCEPT ![a] = FALSE]
    /\ wire' = [wire EXCEPT ![a] = <<>>]
    /\ flight' = Sending([i \in DOMAIN flight |->
                    [flight[i] EXCEPT !.to = Select(@, Agents \ {a})]])
    /\ \E kept \in SUBSET reports[a] :
          reports' = [reports EXCEPT ![a] = {[r EXCEPT !.old = TRUE] : r \in kept}]
    /\ UNCHANGED <<controller, passed>>

LinkBreaks(a) ==
    /\ link[a]
    /\ Breaks(a)
    /\ forwards' = [forwards EXCEPT ![a] = FALSE]
    /\ UNCHANGED <<missed, agent, reported>>

AgentRestarts(a) ==
    /\ Breaks(a)
    /\ forwards' = [forwards EXCEPT ![a] = TRUE]
    /\ missed' = [missed EXCEPT ![a] = FALSE]
    /\ agent' = [agent EXCEPT ![a] = NewAgent]
    /\ UNCHANGED reported

(***************************************************************************)
(* The agent's upstream actor gets a command and try_sends it to the core, *)
(* which handles it, unless their channel is full.                         *)
(***************************************************************************)
HandleCommand(a) ==
    /\ wire[a] # <<>>
    /\ wire' = [wire EXCEPT ![a] = Tail(@)]
    /\ \/ /\ agent' = [agent EXCEPT ![a] =
                        IF forwards[a] THEN AfterCommands(@, Head(wire[a])) ELSE @]
          /\ UNCHANGED links
       \/ /\ forwards[a]
          /\ Fails
          /\ missed' = [missed EXCEPT ![a] = TRUE]
          /\ UNCHANGED <<link, known, forwards, agent>>
    /\ UNCHANGED <<controller, passed, flight, reported, reports>>

(* send_data: the state of the simulation, now. *)
SendReport(a) ==
    /\ link[a]
    /\ ~reported[a]
    /\ Cardinality(reports[a]) < MaxReports
    /\ reported' = [reported EXCEPT ![a] = TRUE]
    /\ reports' = [reports EXCEPT ![a] =
          @ \cup {[state |-> kind(agent[a], passed), age |-> 0, old |-> FALSE]}]
    /\ UNCHANGED <<controller, passed, flight, links, wire, agent>>

Older(r) == [r EXCEPT !.age = IF @ < Expiry THEN @ + 1 ELSE @]

(***************************************************************************)
(* A period goes by.  Agents that are connected have reported in it, and   *)
(* no report takes longer than MaxDelay to arrive.                         *)
(***************************************************************************)
TimePasses ==
    /\ \A a \in Agents : link[a] => reported[a]
    /\ \A a \in Agents : \A r \in reports[a] : r.age < MaxDelay
    /\ \E a \in Agents : reported[a] \/ records[a] # Unknown
    /\ reported' = [a \in Agents |-> FALSE]
    /\ reports' = [a \in Agents |-> {Older(r) : r \in reports[a]}]
    /\ records' = [a \in Agents |-> IF records[a] = Unknown THEN Unknown ELSE Older(records[a])]
    /\ UNCHANGED <<wanted, requests, launches, passed, flight, links, wire, agent>>

-----------------------------------------------------------------------------
Next ==
    \/ \E s \in Sims : LoadSimulation(s)
    \/ StartSimulation \/ StartPasses \/ TimePasses
    \/ \E a \in Agents :
          \/ HandleUpdates(a) \/ HandleCommand(a) \/ SendReport(a)
          \/ Connect(a) \/ LinkBreaks(a) \/ AgentRestarts(a)
    \/ \E i \in DOMAIN flight : Deliver(i)

Spec == Init /\ [][Next]_vars

(***************************************************************************)
(* Actors handle what is in their mailboxes, the timers of agents fire,    *)
(* upstream actors connect (ComesBack of Upstream.tla), clocks run.        *)
(***************************************************************************)
Fairness ==
    /\ WF_vars(TimePasses)
    /\ WF_vars(StartPasses)
    /\ \A a \in Agents :
          /\ WF_vars(HandleUpdates(a)) /\ WF_vars(DeliverTo(a)) /\ WF_vars(Connect(a))
          /\ WF_vars(HandleCommand(a)) /\ WF_vars(SendReport(a))

FairSpec == Spec /\ Fairness

-----------------------------------------------------------------------------
(* Every variable has its type. *)
TypeOK ==
    /\ wanted \in Wanted
    /\ records \in [Agents -> Record \cup [state : Kinds, age : {Expiry}]]
    /\ launches \in Seq(Sims \cup {"None"}) /\ passed \subseteq DOMAIN launches
    /\ \A i \in DOMAIN flight : flight[i].to # <<>> /\ Range(flight[i].to) \subseteq Agents
    /\ {link, known, forwards, missed, reported} \subseteq [Agents -> BOOLEAN]
    /\ \A a \in Agents : Len(wire[a]) <= Wire
    /\ agent \in [Agents -> Agent]
    /\ reports \in [Agents -> SUBSET Report]
    /\ requests \in 0 .. MaxRequests /\ breaks \in 0 .. MaxBreaks

(***************************************************************************)
(* However late the reports come, and in whatever order those of a batch   *)
(* are, what the controller knows of an agent only gets younger, but for   *)
(* the time that passes: alignment never goes back to older news.          *)
(***************************************************************************)
NewsNeverGoBack ==
    [][\A a \in Recorded(records) \cap Recorded(records') :
           \/ records'[a] \in {records[a], Older(records[a])}
           \/ records'[a].age < records[a].age]_vars

(***************************************************************************)
(* An agent that waits or runs does so with a simulation and a start that  *)
(* the user put together, at some time: repeated, late and overtaking      *)
(* command lists never make it run a simulation that was only loaded, nor  *)
(* one with the start of another.                                          *)
(***************************************************************************)
NothingRunsUnasked ==
    \A a \in Agents : kind(agent[a], passed) \in {"Waiting", "Running"}
        => launches[agent[a].start] = agent[a].sim

(* An agent whose connection is its first, and stays, and that lost no command. *)
Stays(a) == <>[](link[a] /\ forwards[a] /\ ~missed[a])

(***************************************************************************)
(* ControllerActor "ensures all agents converge to the desired simulation  *)
(* state": an agent that stays connected comes to have the wanted          *)
(* simulation (not only its state: the definition and the start, too),     *)
(* though the controller compares no more than the state.                  *)
(***************************************************************************)
Converges ==
    \A a \in Agents : Stays(a) /\ <>[](wanted.sim \in GoodSims)
        => <>[](agent[a].sim = wanted.sim /\ agent[a].start = wanted.start)

(***************************************************************************)
(* Agents that stay connected come to share the load by the number of      *)
(* agents the controller counts, once a simulation is loaded.              *)
(***************************************************************************)
CountConverges ==
    \A a \in Agents : Stays(a) /\ <>[](wanted.sim \in GoodSims)
        => <>[](agent[a].count = count_agents(records))

(* What the agents on the controller's records run of a count, all of them. *)
Shared(count) ==
    MapThenSumSet(LAMBDA a : normalize_count(count, Ids[a], agent[a].count), Recorded(records))

(* The ids of the agents recorded differ modulo their number. *)
IdsDiffer ==
    \A a, b \in Recorded(records) :
        a # b => Ids[a] % count_agents(records) # Ids[b] % count_agents(records)

(***************************************************************************)
(* When each agent either stays connected or is forgotten, those that stay *)
(* come to run together just as many bots as a shape asks for, though each *)
(* computes its share by itself: given that their ids differ modulo their  *)
(* number (see ShareIsFair of Cluster_proofs for ids that collide).        *)
(***************************************************************************)
LoadIsShared ==
    (/\ \A a \in Agents : Stays(a) \/ <>[](a \notin Recorded(records))
     /\ <>[](wanted.sim \in GoodSims))
    => <>[](Recorded(records) # {} /\ IdsDiffer => \A count \in Shapes : Shared(count) = count)
=============================================================================
