--------------------------- MODULE CommandRouting ---------------------------
(***************************************************************************)
(* How command lists reach agents that stand behind other agents.  Each    *)
(* process but the last one has a GrpcServerActor (server_actor.rs), which *)
(* keeps a map of connections and of the agents it hears of through each.  *)
(* An agent core (agent/actor.rs) gives a list to its simulation, if it is *)
(* meant, waits for it, and passes the list on to its own server.  Reports *)
(* go the other way, from notifier to server, and tell who is where.       *)
(*                                                                         *)
(* The processes form a chain: 0 is the controller, process a the agent a, *)
(* connected to a - 1.  A connection <<a, i>> is the i-th of agent a.      *)
(***************************************************************************)
EXTENDS Integers, Sequences, FiniteSets, SequencesExt, Selection

CONSTANTS
    N,              \* number of agents in the chain
    Targets,        \* the targets of the lists issued
    MaxLists,       \* bound on the command lists issued
    MaxBreaks,      \* bound on links that break and agents that restart
    Expiry          \* the age, in periods, at which an agent is forgotten

Agents == 1 .. N

(* controller_command::Target; a group that is not known includes nobody. *)
Target == [group : {"All", "Unknown"}] \cup [agents : (SUBSET Agents) \ {{}}]
All == [group |-> "All"]

ASSUME RoutingAssumption ==
    /\ {N, Expiry} \subseteq Nat \ {0}
    /\ {MaxLists, MaxBreaks} \subseteq Nat
    /\ Targets \subseteq Target

Servers == 0 .. (N - 1)
Conns == Agents \X (1 .. (MaxBreaks + 1))

IsGroup(target) == "group" \in DOMAIN target

(* An agent's entry in agent_ids: the age of its last update. *)
Absent == Expiry + 1
Nobody == [a \in Agents |-> Absent]

VARIABLES
    lists,          \* the targets of the lists the controller issued
    mailbox,        \* for each server, lists in its mailbox
    sends,          \* for each server, lists and the connections left to serve
    table,          \* for each server, its connections in the map's order
    known,          \* for each connection, the agents heard of through it
    stopped,        \* connections whose DownstreamAgentActor has ended
    dead,           \* for each server, whether its actor panicked
    link,           \* for each agent, its connection that stands, or 0
    made,           \* for each agent, how many connections it made
    forwards,       \* whether its upstream actor forwards commands (Upstream)
    simulation,     \* for each agent, lists its simulation has to handle
    handled,        \* history: the lists its simulation handled, in order
    frames,         \* for each agent, the agents with a frame in its notifier
    late,           \* for each connection that broke, the agents with an update left
    breaks          \* how often something broke, to bound it

commands == <<lists, mailbox, sends, simulation, handled>>
reports == <<known, frames, late>>
links == <<link, made, forwards, breaks>>
vars == <<commands, reports, links, table, stopped, dead>>

(* The agents have connected; no report was made yet. *)
Init ==
    /\ lists = <<>>
    /\ mailbox = [n \in Servers |-> <<>>] /\ sends = [n \in Servers |-> <<>>]
    /\ table = [n \in Servers |-> <<<<n + 1, 1>>>>]
    /\ known = [c \in Conns |-> Nobody]
    /\ stopped = {}
    /\ dead = [n \in Servers |-> FALSE]
    /\ link = [a \in Agents |-> 1] /\ made = [a \in Agents |-> 1]
    /\ forwards = [a \in Agents |-> TRUE]
    /\ simulation = [a \in Agents |-> <<>>]
    /\ handled = [a \in Agents |-> <<>>]
    /\ frames = [a \in Agents |-> {}]
    /\ late = [c \in Conns |-> {}]
    /\ breaks = 0

(* The receiver of the commands of a connection was dropped. *)
is_closed(c) == link[c[1]] # c[2]

-----------------------------------------------------------------------------
(* The server. *)

(* Agents of the target each bring their connection. *)
ConnectionsPerAgent(target, conns) ==
    IF IsGroup(target) THEN conns
    ELSE FlattenSeq([i \in 1 .. Len(conns) |->
            [a \in 1 .. Cardinality({b \in target.agents : known[conns[i]][b] # Absent}) |-> conns[i]]])

(* Only the agent at the other end counts. *)
ConnectionsOfNeighbours(target, conns) ==
    Select(conns, {c \in Conns : IsGroup(target) \/ c[1] \in target.agents})

(* The connections a list goes to: for a group all of them, even an unknown one. *)
ConnectionsFor(target, conns) ==
    Select(conns, {c \in Conns :
        IsGroup(target) \/ \E a \in target.agents : known[c][a] # Absent})

(* A connection through which no agent is known goes, too. *)
CleanupOfIdle(conns) == Select(conns, {c \in Conns \ stopped : known[c] # Nobody})

(* connections_cleanup *)
Cleanup(conns) == Select(conns, Conns \ stopped)

(* The entries that an update, of whichever connection, leaves. *)
Retain(agents) == [a \in Agents |-> IF agents[a] >= Expiry THEN Absent ELSE agents[a]]

(* A list with no connection left is sent on. *)
SendingServed(s) == s

(* A list is sent to one connection after the other, until none is left. *)
Sending(s) == Select(s, {send \in Range(s) : send.to # <<>>})

(* The frames are of the agent's own alone. *)
FramesOfOwn(a) == {a}

(* The notifier's frames: the agent's own and those of the agents behind. *)
Frames(a) == {a} \cup frames[a]

(***************************************************************************)
(* The actor is polled: it handles the lists in its mailbox, then the      *)
(* updates that came.  An update whose connection is not in the map        *)
(* panics, which ends the actor; its connections close with it.            *)
(***************************************************************************)
Poll(n, came) ==
    \E cleaned \in {IF mailbox[n] = <<>> THEN table[n] ELSE Cleanup(table[n])} :
    LET own == {c \in Conns : c[1] = n + 1}
        reporting == {c \in own : came[c] # {}} IN
    /\ ~dead[n]
    /\ mailbox' = [mailbox EXCEPT ![n] = <<>>]
    /\ sends' = [sends EXCEPT ![n] = @ \o Sending(
            [i \in DOMAIN mailbox[n] |->
                [list |-> mailbox[n][i], to |-> ConnectionsFor(lists[mailbox[n][i]], cleaned)]])]
    /\ late' = [c \in Conns |-> IF c \in own THEN {} ELSE late[c]]
    /\ IF reporting \subseteq Range(cleaned)
       THEN /\ table' = [table EXCEPT ![n] = cleaned]
            /\ known' = [c \in Conns |->
                  IF c \notin own THEN known[c]
                  ELSE IF c \notin Range(cleaned) THEN Nobody
                  ELSE IF reporting = {} THEN known[c]
                  ELSE Retain([a \in Agents |-> IF a \in came[c] THEN 0 ELSE known[c][a]])]
            /\ UNCHANGED <<links, dead>>
       ELSE /\ table' = [table EXCEPT ![n] = <<>>]
            /\ dead' = [dead EXCEPT ![n] = TRUE]
            /\ known' = [c \in Conns |-> IF c \in own THEN Nobody ELSE known[c]]
            /\ link' = [link EXCEPT ![n + 1] = 0]
            /\ forwards' = [forwards EXCEPT ![n + 1] = FALSE]
            /\ UNCHANGED <<made, breaks>>
    /\ UNCHANGED <<lists, simulation, handled, stopped>>

(***************************************************************************)
(* What the actor of an agent's server passes on to its notifier: nothing, *)
(* when the try_send finds its mailbox full.                               *)
(***************************************************************************)
PassedOn(n, came, full) ==
    [a \in Agents |-> IF a = n /\ ~dead'[n] /\ ~full
                      THEN UNION {came[c] : c \in {d \in Conns : d[1] = n + 1}} ELSE {}]

PollServer(n, full) ==
    /\ mailbox[n] # <<>> \/ \E c \in Conns : c[1] = n + 1 /\ late[c] # {}
    /\ Poll(n, late)
    /\ frames' = [a \in Agents |-> frames[a] \cup PassedOn(n, late, full)[a]]

-----------------------------------------------------------------------------
(* The agent core. *)

(* Target::includes_agent *)
includes_agent(target, a) ==
    IF IsGroup(target) THEN target = All ELSE a \in target.agents

PassOn(a, list) ==
    mailbox' = [n \in Servers |->
        IF n = a /\ ~dead[n] THEN Append(mailbox[n], list) ELSE mailbox[n]]

(* The core gets a list: it waits for the simulation, or goes on at once. *)
CoreHandles(a, list) ==
    IF ~forwards[a] THEN UNCHANGED <<simulation, mailbox>>
    ELSE IF includes_agent(lists[list], a)
    THEN /\ simulation' = [simulation EXCEPT ![a] = Append(@, list)]
         /\ UNCHANGED mailbox
    ELSE /\ PassOn(a, list)
         /\ UNCHANGED simulation

-----------------------------------------------------------------------------
(* The actors of connections. *)

(* A list is sent as soon as there is room, whoever waits. *)
MayServeAny(n, i) == TRUE

(* The mailbox of a connection's actor is a queue. *)
MayServe(n, i) == \A j \in 1 .. (i - 1) : Head(sends[n][j].to) # Head(sends[n][i].to)

Served(n, i) == sends' = [sends EXCEPT ![n] = Sending([sends[n] EXCEPT ![i].to = Tail(@)])]

(***************************************************************************)
(* A DownstreamAgentActor gets the list.  With its channel closed it ends. *)
(* Otherwise the list goes through the channel to the agent's core; the    *)
(* time that takes is taken before this step, so that the lists which a    *)
(* break finds on their way are those it finds not served.                 *)
(***************************************************************************)
Serve(n, i) ==
    LET c == Head(sends[n][i].to) IN
    /\ MayServe(n, i)
    /\ c \notin stopped
    /\ IF is_closed(c)
       THEN /\ stopped' = stopped \cup {c}
            /\ UNCHANGED <<sends, simulation, mailbox>>
       ELSE /\ CoreHandles(c[1], sends[n][i].list)
            /\ Served(n, i)
            /\ UNCHANGED stopped
    /\ UNCHANGED <<lists, handled, reports, links, table, dead>>

(* The answer of an actor that ended, or the error of sending to it. *)
PassOver(n, i) ==
    /\ Head(sends[n][i].to) \in stopped
    /\ Served(n, i)
    /\ UNCHANGED <<lists, mailbox, simulation, handled, reports, links, table, stopped, dead>>

-----------------------------------------------------------------------------
(* Connections. *)

(* A new channel of commands; the server's actor must be there. *)
join(a) ==
    /\ ~dead[a - 1]
    /\ made' = [made EXCEPT ![a] = @ + 1]
    /\ link' = [link EXCEPT ![a] = made'[a]]

(* RegisterConnectedAgentMsg.  The map's order is any; see README. *)
Connect(a) ==
    /\ link[a] = 0
    /\ made[a] <= MaxBreaks
    /\ join(a)
    /\ table' = [table EXCEPT ![a - 1] = Append(@, <<a, made'[a]>>)]
    /\ UNCHANGED <<commands, reports, forwards, breaks, stopped, dead>>

Disconnected(agents) == link' = [a \in Agents |-> IF a \in agents THEN 0 ELSE link[a]]

Break ==
    /\ breaks < MaxBreaks
    /\ breaks' = breaks + 1

(* The agent connects again, and then forwards nothing (Upstream). *)
LinkBreaks(a) ==
    /\ Break
    /\ link[a] # 0
    /\ Disconnected({a})
    /\ forwards' = [forwards EXCEPT ![a] = FALSE]
    /\ \E lost \in BOOLEAN :
          late' = IF lost THEN late ELSE [late EXCEPT ![<<a, link[a]>>] = Frames(a)]
    /\ frames' = [frames EXCEPT ![a] = {}]
    /\ UNCHANGED <<lists, mailbox, sends, simulation, handled, known, made, table, stopped, dead>>

(* The agent's process starts anew, its server too, which breaks the link to its child. *)
AgentRestarts(a) ==
    LET behind == {b \in Agents : b = a + 1} IN
    /\ Break
    /\ Disconnected({a} \cup behind)
    /\ forwards' = [b \in Agents |-> b = a \/ (forwards[b] /\ b \notin behind)]
    /\ simulation' = [simulation EXCEPT ![a] = <<>>]
    /\ frames' = [frames EXCEPT ![a] = {}]
    /\ mailbox' = [n \in Servers |-> IF n = a THEN <<>> ELSE mailbox[n]]
    /\ sends' = [n \in Servers |-> IF n = a THEN <<>> ELSE sends[n]]
    /\ table' = [n \in Servers |-> IF n = a THEN <<>> ELSE table[n]]
    /\ dead' = [n \in Servers |-> n # a /\ dead[n]]
    /\ known' = [c \in Conns |-> IF c[1] \in behind THEN Nobody ELSE known[c]]
    /\ \E lost \in BOOLEAN : late' =
          [c \in Conns |-> IF c[1] \in behind THEN {}
                           ELSE IF c = <<a, link[a]>> /\ ~lost THEN Frames(a) ELSE late[c]]
    /\ UNCHANGED <<lists, handled, made, stopped>>

-----------------------------------------------------------------------------
(* The simulation handles a SimulationCommandLst; the core's future goes on. *)
SimulationHandles(a) ==
    /\ simulation[a] # <<>>
    /\ simulation' = [simulation EXCEPT ![a] = Tail(@)]
    /\ handled' = [handled EXCEPT ![a] = Append(@, Head(simulation[a]))]
    /\ PassOn(a, Head(simulation[a]))
    /\ UNCHANGED <<lists, sends, reports, links, table, stopped, dead>>

(* DownstreamClient: send_broadcast, send_to_agent, send_to_agents. *)
Issue(target) ==
    /\ Len(lists) < MaxLists
    /\ lists' = Append(lists, target)
    /\ mailbox' = [mailbox EXCEPT ![0] = IF dead[0] THEN @ ELSE Append(@, Len(lists'))]
    /\ UNCHANGED <<sends, simulation, handled, reports, links, table, stopped, dead>>

-----------------------------------------------------------------------------
(* Reports. *)

(***************************************************************************)
(* The notifier drains its frames and the server gets them; the time they  *)
(* take is taken before this step.  Without a connection they are lost.    *)
(***************************************************************************)
Report(a, full) ==
    LET came == [late EXCEPT ![<<a, link[a]>>] = Frames(a)] IN
    IF link[a] # 0
    THEN /\ Poll(a - 1, came)
         /\ frames' = [b \in Agents |->
                (IF b = a THEN {} ELSE frames[b]) \cup PassedOn(a - 1, came, full)[b]]
    ELSE /\ frames' = [frames EXCEPT ![a] = {}]
         /\ UNCHANGED <<commands, known, late, links, table, stopped, dead>>

(* The connections on the way from server n to agent a stand. *)
Way(n, a) ==
    /\ n < a
    /\ \A b \in (n + 1) .. a : link[b] # 0 /\ ~dead[b - 1]

Heard(n, a) == known[<<n + 1, link[n + 1]>>][a]

(***************************************************************************)
(* Half a minute goes by.  Reports are made every 5 seconds, so that a     *)
(* server has heard of every agent to which there is a way.                *)
(***************************************************************************)
TimePasses ==
    /\ \A n \in Servers, a \in Agents : Way(n, a) => Heard(n, a) = 0
    /\ \A c \in Conns : late[c] = {}
    /\ \A a \in Agents : frames[a] = {}
    /\ \E c \in Conns, a \in Agents :
          known[c][a] < Expiry /\ (is_closed(c) \/ ~Way(c[1] - 1, a))
    /\ known' = [c \in Conns |-> [a \in Agents |->
            IF known[c][a] < Expiry THEN known[c][a] + 1 ELSE known[c][a]]]
    /\ UNCHANGED <<commands, frames, late, links, table, stopped, dead>>

-----------------------------------------------------------------------------
Next ==
    \/ \E target \in Targets : Issue(target)
    \/ \E n \in Servers :
          \/ \E full \in BOOLEAN : PollServer(n, full)
          \/ \E i \in DOMAIN sends[n] : Serve(n, i) \/ PassOver(n, i)
    \/ \E a \in Agents :
          \/ Connect(a) \/ LinkBreaks(a) \/ AgentRestarts(a)
          \/ SimulationHandles(a) \/ \E full \in BOOLEAN : Report(a, full)
    \/ TimePasses

Spec == Init /\ [][Next]_vars

(***************************************************************************)
(* Tasks are polled, notifiers report and do not find every update's way   *)
(* full; nothing is asked of users, links and time.                        *)
(***************************************************************************)
Fairness ==
    /\ \A n \in Servers :
          /\ WF_vars(PollServer(n, FALSE))
          /\ WF_vars(sends[n] # <<>> /\ (Serve(n, 1) \/ PassOver(n, 1)))
    /\ \A a \in Agents :
          WF_vars(SimulationHandles(a)) /\ WF_vars(Report(a, FALSE))

FairSpec == Spec /\ Fairness

-----------------------------------------------------------------------------
(* Every variable has its type. *)
TypeOK ==
    /\ lists \in Seq(Target) /\ Len(lists) <= MaxLists
    /\ \A n \in Servers :
          /\ Range(mailbox[n]) \subseteq DOMAIN lists
          /\ \A i \in DOMAIN sends[n] :
                /\ sends[n][i].list \in DOMAIN lists
                /\ sends[n][i].to # <<>> /\ Range(sends[n][i].to) \subseteq {n + 1} \X Nat
          /\ Range(table[n]) \subseteq Conns
    /\ known \in [Conns -> [Agents -> 0 .. Absent]]
    /\ stopped \subseteq Conns
    /\ dead \in [Servers -> BOOLEAN] /\ forwards \in [Agents -> BOOLEAN]
    /\ \A a \in Agents : link[a] \in 0 .. made[a] /\ made[a] <= MaxBreaks + 1
    /\ frames \in [Agents -> SUBSET Agents] /\ late \in [Conns -> SUBSET Agents]
    /\ breaks \in 0 .. MaxBreaks

(***************************************************************************)
(* The cleanup that comes with each list, and the actors that end when     *)
(* they find their channel closed, leave the connections that stand alone: *)
(* each is in the map of its server once, so that its updates are expected *)
(* and lists for it are sent once.                                         *)
(***************************************************************************)
ConnectionsThatStandStay ==
    \A a \in Agents : link[a] # 0 =>
        /\ <<a, link[a]>> \notin stopped
        /\ \E i \in DOMAIN table[a - 1] : table[a - 1][i] = <<a, link[a]>>
        /\ IsInjective(table[a - 1])

(***************************************************************************)
(* The server's actor expects the connection of every update to be in its  *)
(* map, `expect("Connection not defined")' (server_actor.rs): no update    *)
(* comes after the cleanup of its connection, and no server ends.          *)
(***************************************************************************)
ConnectionDefined == \A n \in Servers : ~dead[n]

(***************************************************************************)
(* A list is handled by a simulation once, though it goes to groups, to    *)
(* several agents behind one connection, and to an agent that is known     *)
(* behind an old connection and a new one.                                 *)
(***************************************************************************)
HandledOnce == \A a \in Agents : IsInjective(handled[a])

(***************************************************************************)
(* The last broadcast wins.  Lists overtake each other where one waits for *)
(* a simulation or for another connection and one does not; but none that  *)
(* is older than a broadcast comes after it, as long as no connection on   *)
(* the way was made again.                                                 *)
(***************************************************************************)
BroadcastsComeLast ==
    \A a \in Agents : (\A b \in 1 .. a : made[b] = 1) =>
        \A i, j \in DOMAIN handled[a] :
            i < j /\ lists[handled[a][i]] = All => handled[a][i] < handled[a][j]

(* A list issued now would find its way to the agent. *)
Reachable(a) ==
    \A n \in 0 .. (a - 1) : Way(n, a) /\ forwards[n + 1] /\ Heard(n, a) # Absent

(***************************************************************************)
(* A list for an agent that can be reached, through agents it is not meant *)
(* for and servers that know the agent only from reports passed on, is     *)
(* handled, unless the way breaks.  Said of the last agent: the others are *)
(* the last ones of shorter chains.                                        *)
(***************************************************************************)
ListsArrive ==
    \A list \in 1 .. MaxLists :
        (/\ Contains(mailbox[0], list)
         /\ includes_agent(lists[list], N)
         /\ Reachable(N))
        ~> (Contains(handled[N], list) \/ ~Reachable(N))

(***************************************************************************)
(* The servers on the way to an agent, the controller's included, come to  *)
(* know it for good, in spite of the entries that expire and of those of   *)
(* former connections.                                                     *)
(***************************************************************************)
AgentsBecomeKnown ==
    <>[]Way(0, N) => <>[](Way(0, N) /\ \A n \in Servers : Heard(n, N) < Expiry)
=============================================================================
