--------------------------- MODULE Cluster_proofs ---------------------------
(***************************************************************************)
(* The theorems of Cluster.  ClusterInv, which is inductive, follows what  *)
(* users put together, a simulation and a start of it, through everything  *)
(* that carries it: the wanted simulation, the commands that the server is *)
(* sending, those on their way to an agent, and the agent itself.  The     *)
(* rest is about the load: how agents divide it, each by itself.           *)
(***************************************************************************)
EXTENDS Cluster, OperatorLemmas, FiniteSetTheorems, TLAPS

(* What the controller may have counted. *)
AgentsCounts == 0 .. Cardinality(Agents)

(* A wanted simulation that is launched has the start chosen with it. *)
AskedIn(w, starts) ==
    w.state = "Launched" => w.start \in DOMAIN starts /\ starts[w.start] = w.sim

(* The lists of commands that the controller may have sent. *)
Lists(starts) ==
    {<<UpdateAgentsCount(n)>> : n \in AgentsCounts}
    \cup {simulation_state_commands(p[1], p[2]) :
            p \in {w \in Wanted : AskedIn(w, starts)} \X AgentsCounts}

(* An agent that has a simulation and a start has those of one launch. *)
AgentIn(ag, starts) ==
    ag.sim # "None" /\ ag.start # 0 => ag.start \in DOMAIN starts /\ starts[ag.start] = ag.sim

(* Messages for the server to send, each with a connection left to serve. *)
AnyMessage(starts) == [commands : Lists(starts), awaited : BOOLEAN, to : Seq(Agents)]
Messages(starts) == {m \in AnyMessage(starts) : m.to # <<>>}

(* A record, a young one or one to be dropped. *)
AnyRecord == Record \cup [state : Kinds, age : {Expiry}]

(* What users asked; a start that is launched is of the simulation it is for. *)
AskedInv ==
    /\ launches \in Seq(Sims \cup {"None"}) /\ Len(launches) <= MaxLaunches
    /\ passed \subseteq DOMAIN launches
    /\ wanted \in Wanted /\ AskedIn(wanted, launches)
    /\ requests \in 0 .. MaxRequests

(* What is on its way to agents was made of what users asked. *)
WayInv ==
    /\ flight \in Seq(Messages(launches))
    /\ wire \in [Agents -> Seq(Lists(launches))]
    /\ \A a \in Agents : Len(wire[a]) <= Wire

AgentsInv ==
    /\ agent \in [Agents -> Agent]
    /\ \A a \in Agents : AgentIn(agent[a], launches)

ReportsInv ==
    /\ records \in [Agents -> AnyRecord]
    /\ reported \in [Agents -> BOOLEAN]
    /\ reports \in [Agents -> SUBSET Report]
    /\ \A a \in Agents : IsFiniteSet(reports[a])

LinksInv ==
    /\ link \in [Agents -> BOOLEAN] /\ known \in [Agents -> BOOLEAN]
    /\ forwards \in [Agents -> BOOLEAN] /\ missed \in [Agents -> BOOLEAN]
    /\ breaks \in 0 .. MaxBreaks

ClusterInv == AskedInv /\ WayInv /\ AgentsInv /\ ReportsInv /\ LinksInv

-----------------------------------------------------------------------------
(* Commands, one after the other, for the lengths that lists have. *)
LEMMA CommandsInTurn ==
    ASSUME NEW ag, NEW list, Len(list) \in 1 .. 4,
           NEW one, one = AfterCommand(ag, list[1]),
           NEW two, two = AfterCommand(one, list[2]),
           NEW three, three = AfterCommand(two, list[3]),
           NEW four, four = AfterCommand(three, list[4])
    PROVE  /\ Len(list) = 1 => AfterCommands(ag, list) = one
           /\ Len(list) = 2 => AfterCommands(ag, list) = two
           /\ Len(list) = 3 => AfterCommands(ag, list) = three
           /\ Len(list) = 4 => AfterCommands(ag, list) = four
<1> DEFINE n == Len(list)
           Is(f) == f = [i \in 0 .. n |-> IF i = 0 THEN ag ELSE AfterCommand(f[i - 1], list[i])]
           after == CHOOSE f : Is(f)
           g == [i \in 0 .. n |-> IF i = 0 THEN ag
                                  ELSE IF i = 1 THEN one
                                  ELSE IF i = 2 THEN two
                                  ELSE IF i = 3 THEN three ELSE four]
<1>1. AfterCommands(ag, list) = after[n]
  BY DEF AfterCommands
<1>2. n \in 1 .. 4
  OBVIOUS
<1> HIDE DEF n
<1>3. \A i \in 0 .. n :
         (IF i = 0 THEN ag ELSE IF i = 1 THEN one ELSE IF i = 2 THEN two
          ELSE IF i = 3 THEN three ELSE four)
         = IF i = 0 THEN ag ELSE AfterCommand(g[i - 1], list[i])
  <2> SUFFICES ASSUME NEW i \in 0 .. n
               PROVE  (IF i = 0 THEN ag ELSE IF i = 1 THEN one ELSE IF i = 2 THEN two
                       ELSE IF i = 3 THEN three ELSE four)
                      = IF i = 0 THEN ag ELSE AfterCommand(g[i - 1], list[i])
    OBVIOUS
  <2>1. i = 0 \/ i = 1 \/ i = 2 \/ i = 3 \/ i = 4
    BY <1>2
  <2>2. i # 0 => i - 1 \in 0 .. n
    BY <1>2
  <2>3. CASE i = 0
    BY <2>3
  <2>4. CASE i = 1
    BY <2>2, <2>4
  <2>5. CASE i = 2
    <3>1. g[1] = one
      BY <2>2, <2>5
    <3> QED
      BY <2>5, <3>1
  <2>6. CASE i = 3
    <3>1. g[2] = two
      BY <2>2, <2>6
    <3> QED
      BY <2>6, <3>1
  <2>7. CASE i = 4
    <3>1. g[3] = three
      BY <2>2, <2>7
    <3> QED
      BY <2>7, <3>1
  <2> QED
    BY <2>1, <2>3, <2>4, <2>5, <2>6, <2>7
<1>4. Is(g)
  BY <1>3
<1>5. Is(after)
  <2> HIDE DEF Is
  <2> QED
    BY <1>4
<1> HIDE DEF after, g
<1>6. \A i \in 0 .. n : after[i] = IF i = 0 THEN ag ELSE AfterCommand(after[i - 1], list[i])
  BY <1>5
<1>7. after[0] = ag /\ after[1] = one
  BY <1>2, <1>6
<1>8. n >= 2 => after[2] = two
  BY <1>2, <1>6, <1>7
<1>9. n >= 3 => after[3] = three
  BY <1>2, <1>6, <1>8
<1>10. n >= 4 => after[4] = four
  BY <1>2, <1>6, <1>9
<1>11. Len(list) = n
  BY DEF n
<1>12. n = 1 => AfterCommands(ag, list) = one
  BY <1>1, <1>7
<1>13. n = 2 => AfterCommands(ag, list) = two
  BY <1>1, <1>8
<1>14. n = 3 => AfterCommands(ag, list) = three
  BY <1>1, <1>9
<1>15. n = 4 => AfterCommands(ag, list) = four
  BY <1>1, <1>10
<1> QED
  BY <1>11, <1>12, <1>13, <1>14, <1>15

(* A count of agents, and what an agent makes of it. *)
LEMMA CountsFit ==
    /\ Cardinality(Agents) \in Nat
    /\ \A recs \in [Agents -> AnyRecord] : count_agents(recs) \in AgentsCounts
    /\ \A n \in AgentsCounts : (IF n > 0 THEN n ELSE 1) \in {1} \cup 1 .. Cardinality(Agents)
<1>1. IsFiniteSet(Agents)
  BY ControllerAssumption
<1>2. Cardinality(Agents) \in Nat
  BY <1>1, FS_CardinalityType
<1>3. ASSUME NEW recs \in [Agents -> AnyRecord]
      PROVE  count_agents(recs) \in AgentsCounts
  <2>1. Recorded(recs) \subseteq Agents
    BY DEF Recorded
  <2>2. /\ IsFiniteSet(Recorded(recs))
        /\ Cardinality(Recorded(recs)) <= Cardinality(Agents)
    BY <1>1, <2>1, FS_Subset
  <2>3. Cardinality(Recorded(recs)) \in Nat
    BY <2>2, FS_CardinalityType
  <2> QED
    BY <1>2, <2>2, <2>3 DEF count_agents, AgentsCounts
<1> QED
  BY <1>2, <1>3 DEF AgentsCounts

(* The commands for a wanted simulation, one by one. *)
LEMMA CommandsOf ==
    ASSUME NEW w \in Wanted, NEW n, NEW list, list = simulation_state_commands(w, n)
    PROVE  /\ list[1] = Stop /\ list[2] = UpdateAgentsCount(n)
           /\ w.state = "Idle" => Len(list) = 2
           /\ w.state = "Ready" => Len(list) = 3 /\ list[3] = Load(w.sim)
           /\ w.state = "Launched" => /\ Len(list) = 4 /\ list[3] = Load(w.sim)
                                      /\ list[4] = Launch(w.start)
<1> DEFINE loading == Load(w.sim)
           launching == Launch(w.start)
           counting == UpdateAgentsCount(n)
           stopping == Stop
<1>1. list = <<stopping, counting>>
             \o (IF w.state = "Idle" THEN <<>> ELSE <<loading>>)
             \o (IF w.state = "Launched" THEN <<launching>> ELSE <<>>)
  BY DEF simulation_state_commands
<1> HIDE DEF loading, launching, counting, stopping
<1> DEFINE S == {stopping, counting, loading, launching}
           base == <<stopping, counting>>
           load == IF w.state = "Idle" THEN <<>> ELSE <<loading>>
           start == IF w.state = "Launched" THEN <<launching>> ELSE <<>>
<1>2. /\ base \in Seq(S) /\ load \in Seq(S) /\ start \in Seq(S)
      /\ Len(base) = 2 /\ base[1] = stopping /\ base[2] = counting
      /\ w.state = "Idle" => Len(load) = 0
      /\ w.state # "Idle" => Len(load) = 1 /\ load[1] = loading
      /\ w.state = "Launched" => Len(start) = 1 /\ start[1] = launching
      /\ w.state # "Launched" => Len(start) = 0
  <2>1. <<>> \in Seq(S) /\ <<loading>> \in Seq(S) /\ <<launching>> \in Seq(S) /\ base \in Seq(S)
    OBVIOUS
  <2>2. load \in Seq(S) /\ start \in Seq(S)
    BY <2>1, Zenon
  <2>3. Len(base) = 2 /\ base[1] = stopping /\ base[2] = counting
    OBVIOUS
  <2>4. /\ w.state = "Idle" => Len(load) = 0
        /\ w.state # "Idle" => Len(load) = 1 /\ load[1] = loading
    OBVIOUS
  <2>5. /\ w.state = "Launched" => Len(start) = 1 /\ start[1] = launching
        /\ w.state # "Launched" => Len(start) = 0
    OBVIOUS
  <2> QED
    BY <2>1, <2>2, <2>3, <2>4, <2>5, Zenon
<1>3. list = (base \o load) \o start
  BY <1>1
<1> HIDE DEF base, load, start, S
<1>4. /\ base \o load \in Seq(S) /\ Len(base \o load) = Len(base) + Len(load)
      /\ \A i \in 1 .. (Len(base) + Len(load)) :
            (base \o load)[i] = IF i <= Len(base) THEN base[i] ELSE load[i - Len(base)]
  BY <1>2, ConcatProperties
<1> DEFINE both == base \o load
<1> HIDE DEF both
<1>5. /\ Len(list) = Len(both) + Len(start)
      /\ \A i \in 1 .. (Len(both) + Len(start)) :
            list[i] = IF i <= Len(both) THEN both[i] ELSE start[i - Len(both)]
  <2>1. list = both \o start /\ both \in Seq(S)
    BY <1>3, <1>4 DEF both
  <2> QED
    BY <1>2, <2>1, ConcatProperties
<1>6. /\ Len(both) = Len(base) + Len(load)
      /\ \A i \in 1 .. (Len(base) + Len(load)) :
            both[i] = IF i <= Len(base) THEN base[i] ELSE load[i - Len(base)]
  BY <1>4 DEF both
<1>7. w.state \in {"Idle", "Ready", "Launched"}
  BY DEF Wanted
<1>8. /\ both[1] = stopping /\ both[2] = counting
      /\ w.state = "Idle" => Len(both) = 2
      /\ w.state # "Idle" => Len(both) = 3 /\ both[3] = loading
  BY <1>2, <1>6, <1>7
<1>9. /\ list[1] = stopping /\ list[2] = counting
      /\ w.state = "Idle" => Len(list) = 2
      /\ w.state = "Ready" => Len(list) = 3 /\ list[3] = loading
      /\ w.state = "Launched" => Len(list) = 4 /\ list[3] = loading /\ list[4] = launching
  <2>1. Len(both) \in Nat /\ Len(start) \in Nat
    BY <1>2, <1>7, <1>8
  <2>2. \A i \in 1 .. Len(both) : list[i] = both[i]
    BY <1>5, <2>1
  <2>3. Len(start) = 1 => list[Len(both) + 1] = start[1]
    <3> SUFFICES ASSUME Len(start) = 1
                 PROVE  list[Len(both) + 1] = start[1]
      OBVIOUS
    <3>1. Len(both) + 1 \in 1 .. (Len(both) + Len(start)) /\ ~ (Len(both) + 1 <= Len(both))
          /\ Len(both) + 1 - Len(both) = 1
      BY <2>1
    <3> QED
      BY <1>5, <3>1
  <2>4. /\ list[1] = both[1] /\ list[2] = both[2]
        /\ Len(both) = 3 => list[3] = both[3]
    <3>1. Len(both) = 2 \/ Len(both) = 3
      BY <1>7, <1>8
    <3>2. 1 \in 1 .. Len(both) /\ 2 \in 1 .. Len(both) /\ (Len(both) = 3 => 3 \in 1 .. Len(both))
      BY <3>1
    <3> QED
      BY <2>2, <3>2
  <2>5. Len(list) = Len(both) + Len(start)
    BY <1>5
  <2>6. /\ w.state = "Ready" => Len(list) = 3 /\ list[3] = loading
        /\ w.state = "Launched" => Len(list) = 4 /\ list[3] = loading
        /\ w.state = "Idle" => Len(list) = 2
    <3>1. /\ w.state = "Ready" => w.state # "Idle" /\ w.state # "Launched"
          /\ w.state = "Launched" => w.state # "Idle"
          /\ w.state = "Idle" => w.state # "Launched"
      OBVIOUS
    <3>2. /\ w.state = "Ready" => Len(both) = 3 /\ Len(start) = 0 /\ both[3] = loading
          /\ w.state = "Launched" => Len(both) = 3 /\ Len(start) = 1 /\ both[3] = loading
          /\ w.state = "Idle" => Len(both) = 2 /\ Len(start) = 0
      BY <1>2, <1>8, <3>1, Zenon
    <3>3. /\ Len(both) = 3 /\ Len(start) = 0 => Len(list) = 3
          /\ Len(both) = 3 /\ Len(start) = 1 => Len(list) = 4
          /\ Len(both) = 2 /\ Len(start) = 0 => Len(list) = 2
      <4> DEFINE p == Len(both)
                 q == Len(start)
                 m == Len(list)
      <4>1. p \in Nat /\ q \in Nat /\ m = p + q
        BY <2>1, <2>5
      <4> HIDE DEF p, q, m
      <4>2. (p = 3 /\ q = 0 => m = 3) /\ (p = 3 /\ q = 1 => m = 4) /\ (p = 2 /\ q = 0 => m = 2)
        BY <4>1
      <4> QED
        BY <4>2 DEF p, q, m
    <3> QED
      BY <2>4, <3>2, <3>3, Zenon
  <2>7. w.state = "Launched" => list[4] = launching
    <3> SUFFICES ASSUME w.state = "Launched"
                 PROVE  list[4] = launching
      OBVIOUS
    <3>1. w.state # "Idle"
      OBVIOUS
    <3>2. Len(both) = 3 /\ Len(start) = 1 /\ start[1] = launching
      BY <1>2, <1>8, <3>1, Zenon
    <3> QED
      BY <2>3, <3>2
  <2> QED
    BY <1>8, <2>4, <2>6, <2>7
<1> QED
  BY <1>9 DEF loading, launching, counting, stopping

(* An agent that gets a list of the controller has what users put together. *)
LEMMA AgentStaysIn ==
    ASSUME NEW starts \in Seq(Sims \cup {"None"}), Len(starts) <= MaxLaunches,
           NEW list \in Lists(starts), NEW ag \in Agent, AgentIn(ag, starts)
    PROVE  AfterCommands(ag, list) \in Agent /\ AgentIn(AfterCommands(ag, list), starts)
<1> DEFINE Fits(x) == x \in Agent /\ AgentIn(x, starts)
           fit(n) == IF n > 0 THEN n ELSE 1
<1>1. ASSUME NEW n \in AgentsCounts, list = <<UpdateAgentsCount(n)>>
      PROVE  Fits(AfterCommands(ag, list))
  <2> DEFINE one == AfterCommand(ag, list[1])
  <2>1. one = [ag EXCEPT !.count = fit(n)]
    BY <1>1 DEF AfterCommand, UpdateAgentsCount
  <2>2. fit(n) \in {1} \cup 1 .. Cardinality(Agents)
    BY CountsFit
  <2> HIDE DEF one, fit
  <2>3. Fits(one)
    BY <2>1, <2>2 DEF Agent, AgentIn
  <2>4. Len(list) = 1
    BY <1>1
  <2>5. AfterCommands(ag, list) = one
    BY <2>4, CommandsInTurn DEF one
  <2> QED
    BY <2>3, <2>5
<1>2. ASSUME NEW w \in Wanted, AskedIn(w, starts), NEW n \in AgentsCounts,
             list = simulation_state_commands(w, n)
      PROVE  Fits(AfterCommands(ag, list))
  <2> DEFINE one == AfterCommand(ag, list[1])
             two == AfterCommand(one, list[2])
             three == AfterCommand(two, list[3])
             four == AfterCommand(three, list[4])
             loaded == IF w.sim \in GoodSims THEN w.sim ELSE "None"
  <2>1. /\ list[1] = Stop /\ list[2] = UpdateAgentsCount(n)
        /\ w.state = "Idle" => Len(list) = 2
        /\ w.state = "Ready" => Len(list) = 3 /\ list[3] = Load(w.sim)
        /\ w.state = "Launched" => /\ Len(list) = 4 /\ list[3] = Load(w.sim)
                                   /\ list[4] = Launch(w.start)
    BY <1>2, CommandsOf
  <2>2. w.state \in {"Idle", "Ready", "Launched"}
    BY DEF Wanted
  <2>3. /\ Len(list) = 2 => AfterCommands(ag, list) = two
        /\ Len(list) = 3 => AfterCommands(ag, list) = three
        /\ Len(list) = 4 => AfterCommands(ag, list) = four
    <3>1. Len(list) \in 1 .. 4
      BY <2>1, <2>2
    <3> HIDE DEF one, two, three, four
    <3> QED
      BY <3>1, CommandsInTurn DEF one, two, three, four
  <2>4. fit(n) \in {1} \cup 1 .. Cardinality(Agents)
    BY CountsFit
  <2> HIDE DEF fit
  <2>5. one = [sim |-> "None", start |-> 0, count |-> ag.count]
    <3>1. list[1].type = "Stop"
      BY <2>1 DEF Stop
    <3>2. one = [ag EXCEPT !.sim = "None", !.start = 0]
      BY <3>1 DEF AfterCommand
    <3> HIDE DEF one
    <3> QED
      BY <3>2 DEF Agent
  <2> HIDE DEF one
  <2>6. two = [sim |-> "None", start |-> 0, count |-> fit(n)]
    BY <2>1, <2>5 DEF AfterCommand, UpdateAgentsCount, fit
  <2> HIDE DEF two
  <2>7. list[3] = Load(w.sim) => three = [sim |-> loaded, start |-> 0, count |-> fit(n)]
    BY <2>6 DEF AfterCommand, Load
  <2> HIDE DEF three
  <2>8. list[3] = Load(w.sim) /\ list[4] = Launch(w.start)
        => four = [sim |-> loaded, start |-> w.start, count |-> fit(n)]
    BY <2>7 DEF AfterCommand, Launch
  <2> HIDE DEF four
  <2>9. loaded \in Sims \cup {"None"} /\ 0 \in Launches /\ (loaded # "None" => loaded = w.sim)
    BY ControllerAssumption DEF Launches
  <2>10. w.state = "Launched" => w.start \in Launches
    BY DEF Wanted
  <2> HIDE DEF loaded
  <2>11. CASE w.state = "Idle"
    <3>1. AfterCommands(ag, list) = two
      BY <2>1, <2>3, <2>11
    <3>2. Fits(two)
      BY <2>4, <2>6, <2>9 DEF Agent, AgentIn
    <3> QED
      BY <3>1, <3>2
  <2>12. CASE w.state = "Ready"
    <3>1. AfterCommands(ag, list) = three /\ three = [sim |-> loaded, start |-> 0, count |-> fit(n)]
      BY <2>1, <2>3, <2>7, <2>12
    <3>2. Fits(three)
      BY <3>1, <2>4, <2>9 DEF Agent, AgentIn
    <3> QED
      BY <3>1, <3>2
  <2>13. CASE w.state = "Launched"
    <3>1. /\ AfterCommands(ag, list) = four
          /\ four = [sim |-> loaded, start |-> w.start, count |-> fit(n)]
      BY <2>1, <2>3, <2>8, <2>13
    <3>2. Fits(four)
      BY <1>2, <2>13, <3>1, <2>4, <2>9, <2>10 DEF Agent, AgentIn, AskedIn
    <3> QED
      BY <3>1, <3>2
  <2> QED
    BY <2>2, <2>11, <2>12, <2>13
<1> QED
  <2> HIDE DEF Fits
  <2>1. Fits(AfterCommands(ag, list))
    BY <1>1, <1>2 DEF Lists
  <2> QED
    BY <2>1 DEF Fits

-----------------------------------------------------------------------------
(* What users asked for stays asked for when they ask for more. *)
LEMMA AskedGrows ==
    ASSUME NEW starts \in Seq(Sims \cup {"None"}), NEW s \in Sims \cup {"None"},
           NEW more, more = Append(starts, s)
    PROVE  /\ \A w : AskedIn(w, starts) => AskedIn(w, more)
           /\ \A ag : AgentIn(ag, starts) => AgentIn(ag, more)
           /\ Lists(starts) \subseteq Lists(more)
           /\ Messages(starts) \subseteq Messages(more)
<1>1. \A l \in DOMAIN starts : l \in DOMAIN more /\ more[l] = starts[l]
  OBVIOUS
<1>2. \A w : AskedIn(w, starts) => AskedIn(w, more)
  BY <1>1 DEF AskedIn
<1>3. \A ag : AgentIn(ag, starts) => AgentIn(ag, more)
  BY <1>1 DEF AgentIn
<1>4. Lists(starts) \subseteq Lists(more)
  BY <1>2 DEF Lists
<1>5. Messages(starts) \subseteq Messages(more)
  BY <1>4 DEF Messages, AnyMessage
<1> QED
  BY <1>2, <1>3, <1>4, <1>5

(* The lists the controller sends are among those it may send. *)
LEMMA ListsSent ==
    ASSUME NEW starts, NEW n \in AgentsCounts
    PROVE  /\ <<UpdateAgentsCount(n)>> \in Lists(starts)
           /\ \A w \in Wanted : AskedIn(w, starts) => simulation_state_commands(w, n) \in Lists(starts)
<1>1. <<UpdateAgentsCount(n)>> \in Lists(starts)
  BY DEF Lists
<1>2. ASSUME NEW w \in Wanted, AskedIn(w, starts)
      PROVE  simulation_state_commands(w, n) \in Lists(starts)
  <2>1. <<w, n>> \in {x \in Wanted : AskedIn(x, starts)} \X AgentsCounts
    BY <1>2
  <2>2. <<w, n>>[1] = w /\ <<w, n>>[2] = n
    OBVIOUS
  <2> QED
    BY <2>1, <2>2 DEF Lists
<1> QED
  BY <1>1, <1>2

(* A message goes to agents. *)
LEMMA MessageFits ==
    ASSUME NEW starts, NEW commands \in Lists(starts), NEW targets, NEW awaited \in BOOLEAN
    PROVE  Message(commands, targets, awaited) \in AnyMessage(starts)
<1>1. Select(Order, targets) \in Seq(Agents)
  BY ClusterAssumption, SelectElements
<1> QED
  BY <1>1 DEF Message, AnyMessage

(* The server keeps the messages that have someone to go to. *)
LEMMA SendingFits ==
    ASSUME NEW starts, NEW messages \in Seq(AnyMessage(starts))
    PROVE  Sending(messages) \in Seq(Messages(starts))
<1> DEFINE S == {m \in Range(messages) : m.to # <<>>}
           sel == Select(messages, S)
<1>1. /\ sel \in Seq(AnyMessage(starts))
      /\ \A k \in 1 .. Len(sel) : sel[k] \in S
  BY SelectElements
<1>2. \A k \in 1 .. Len(sel) : sel[k] \in Messages(starts)
  BY <1>1 DEF Messages
<1> HIDE DEF sel
<1>3. sel \in Seq(Messages(starts))
  BY <1>1, <1>2
<1> QED
  BY <1>3 DEF Sending, sel

(* Messages put behind those that are being sent. *)
LEMMA SendingMore ==
    ASSUME NEW starts, NEW sent \in Seq(Messages(starts)),
           NEW messages \in Seq(AnyMessage(starts))
    PROVE  sent \o Sending(messages) \in Seq(Messages(starts))
<1>1. Sending(messages) \in Seq(Messages(starts))
  BY SendingFits
<1> QED
  BY <1>1

(* Two records, the second the same or younger. *)
Younger(r, q) == q # Unknown /\ (q = r \/ q.age < r.age)

(* Updates leave a record, and never make it older. *)
LEMMA UpdatedIsYounger ==
    ASSUME NEW record \in AnyRecord, NEW n \in Nat, NEW updates \in [1 .. n -> Report]
    PROVE  /\ Updated(record, updates) \in AnyRecord
           /\ record # Unknown => Younger(record, Updated(record, updates))
<1> DEFINE step == [p \in AnyRecord \X (1 .. n) |-> AfterUpdate(p[1], updates[p[2]])]
           Is(f) == f = [i \in 0 .. n |->
                           IF i = 0 THEN record ELSE AfterUpdate(f[i - 1], updates[i])]
           after == CHOOSE f : Is(f)
<1>1. \A r \in Report : RecordOf(r) \in AnyRecord /\ RecordOf(r) # Unknown
  BY ControllerAssumption DEF Report, RecordOf, AnyRecord, Record, Unknown, Kinds
<1>2. \A q \in AnyRecord, r \in Report :
         /\ AfterUpdate(q, r) \in AnyRecord
         /\ q # Unknown => AfterUpdate(q, r) = q \/ (AfterUpdate(q, r) # Unknown
                                                    /\ AfterUpdate(q, r).age < q.age)
  BY <1>1 DEF AfterUpdate, RecordOf
<1>3. step \in [AnyRecord \X (1 .. n) -> AnyRecord]
  BY <1>2
<1>4. \A q \in AnyRecord, i \in 1 .. n : step[<<q, i>>] = AfterUpdate(q, updates[i])
  OBVIOUS
<1> HIDE DEF step
<1>5. PICK f : LoopResults(AnyRecord, n, record, step, f)
  BY <1>3, LoopHasResults
<1>6. /\ f \in [0 .. n -> AnyRecord]
      /\ \A i \in 0 .. n : f[i] = IF i = 0 THEN record ELSE step[<<f[i - 1], i>>]
  BY <1>5 DEF LoopResults
<1>7. \A i \in 0 .. n : f[i] = IF i = 0 THEN record ELSE AfterUpdate(f[i - 1], updates[i])
  <2> SUFFICES ASSUME NEW i \in 0 .. n, i # 0
               PROVE  f[i] = AfterUpdate(f[i - 1], updates[i])
    BY <1>6
  <2>1. f[i - 1] \in AnyRecord /\ i \in 1 .. n
    BY <1>6
  <2> QED
    BY <1>4, <1>6, <2>1
<1>8. Is(f)
  BY <1>6, <1>7
<1>9. Is(after)
  <2> HIDE DEF Is
  <2> QED
    BY <1>8
<1>10. Updated(record, updates) = after[n]
  <2>1. Len(updates) = n
    OBVIOUS
  <2> QED
    BY <2>1 DEF Updated
<1> HIDE DEF after
<1>11. \A i \in 0 .. n : after[i] = IF i = 0 THEN record ELSE AfterUpdate(after[i - 1], updates[i])
  BY <1>9
<1> DEFINE Fits(i) == /\ after[i] \in AnyRecord
                      /\ record # Unknown => Younger(record, after[i])
           T == {i \in 0 .. n : Fits(i)}
<1>12. \A i : i \in T <=> i \in 0 .. n /\ Fits(i)
  <2> HIDE DEF Fits
  <2> QED
    BY Zenon
<1> HIDE DEF T
<1>13. 0 \in T
  <2>1. 0 \in 0 .. n /\ after[0] = record
    BY <1>11
  <2>2. record # Unknown => Younger(record, record)
    BY DEF Younger
  <2> QED
    BY <1>12, <2>1, <2>2, Zenon
<1>14. ASSUME NEW i \in 1 .. n, i - 1 \in T
       PROVE  i \in T
  <2>1. i \in 0 .. n /\ i # 0 /\ updates[i] \in Report /\ after[i - 1] \in AnyRecord
    <3>1. i \in 0 .. n /\ i # 0 /\ updates[i] \in Report
      OBVIOUS
    <3> QED
      BY <1>14, <1>12, <3>1, Zenon
  <2>2. after[i] = AfterUpdate(after[i - 1], updates[i])
    BY <1>11, <2>1
  <2>3. after[i] \in AnyRecord
    BY <1>2, <2>1, <2>2
  <2>4. ASSUME record # Unknown
        PROVE  Younger(record, after[i])
    <3>1. after[i - 1] # Unknown /\ (after[i - 1] = record \/ after[i - 1].age < record.age)
      BY <1>14, <1>12, <2>4, Zenon DEF Younger
    <3>2. \/ after[i] = after[i - 1]
          \/ after[i] # Unknown /\ after[i].age < after[i - 1].age
      BY <1>2, <2>1, <2>2, <3>1
    <3>3. \A q \in AnyRecord : q.age \in Int
      BY ControllerAssumption DEF AnyRecord, Record, Unknown
    <3>4. after[i].age \in Int /\ after[i - 1].age \in Int /\ record.age \in Int
      BY <2>1, <2>3, <3>3
    <3> QED
      BY <3>1, <3>2, <3>4 DEF Younger
  <2> QED
    BY <1>12, <2>1, <2>3, <2>4, Zenon
<1>15. n \in T
  <2>1. \A i \in 0 .. n : i \in T
    BY <1>13, <1>14, UpTo
  <2>2. n \in 0 .. n
    OBVIOUS
  <2> QED
    BY <2>1, <2>2, Zenon
<1> QED
  BY <1>10, <1>15, <1>12, Zenon

-----------------------------------------------------------------------------
(* The invariant holds at first. *)
LEMMA InitInv == Init => ClusterInv
<1> SUFFICES ASSUME Init
             PROVE  ClusterInv
  OBVIOUS
<1> USE ClusterAssumption, ControllerAssumption
<1>1. AskedInv
  BY DEF Init, AskedInv, Idle, Wanted, AskedIn
<1>2. WayInv
  BY DEF Init, WayInv
<1>3. AgentsInv
  BY DEF Init, AgentsInv, NewAgent, Agent, AgentIn, Launches
<1>4. ReportsInv
  <2>1. records \in [Agents -> AnyRecord] /\ reported \in [Agents -> BOOLEAN]
        /\ reports \in [Agents -> SUBSET Report]
    BY DEF Init, AnyRecord, Record
  <2>2. \A a \in Agents : IsFiniteSet(reports[a])
    BY FS_EmptySet DEF Init
  <2> QED
    BY <2>1, <2>2 DEF ReportsInv
<1>5. LinksInv
  BY DEF Init, LinksInv
<1> QED
  BY <1>1, <1>2, <1>3, <1>4, <1>5 DEF ClusterInv

(* What a user asks is broadcast: it comes behind what is being sent. *)
LEMMA BroadcastKeepsWay ==
    ASSUME ClusterInv, broadcast_simulation_state, wanted' \in Wanted,
           AskedIn(wanted', launches'), Messages(launches) \subseteq Messages(launches')
    PROVE  flight' \in Seq(Messages(launches'))
<1> DEFINE n == count_agents(records)
           list == simulation_state_commands(wanted', n)
           m == Message(list, Connections, TRUE)
<1>1. n \in AgentsCounts
  BY CountsFit DEF ClusterInv, ReportsInv
<1> HIDE DEF n
<1>2. list \in Lists(launches')
  BY <1>1, ListsSent
<1> HIDE DEF list
<1>3. m \in AnyMessage(launches')
  BY <1>2, MessageFits
<1>4. flight' = flight \o Sending(<<m>>)
  BY DEF broadcast_simulation_state, n, list
<1> HIDE DEF m
<1>5. <<m>> \in Seq(AnyMessage(launches')) /\ flight \in Seq(Messages(launches'))
  BY <1>3 DEF ClusterInv, WayInv
<1> QED
  BY <1>4, <1>5, SendingMore

LEMMA LoadKeepsInv ==
    ASSUME ClusterInv, NEW s \in Sims, LoadSimulation(s)
    PROVE  ClusterInv'
<1> USE ClusterAssumption, ControllerAssumption
<1>1. UserAsks /\ wanted' = Ready(s) /\ broadcast_simulation_state
      /\ passed' = passed /\ launches' = launches
  BY DEF LoadSimulation
<1>2. AskedInv'
  BY <1>1 DEF ClusterInv, AskedInv, UserAsks, Ready, Wanted, AskedIn
<1>3. WayInv'
  <2>1. flight' \in Seq(Messages(launches'))
    BY <1>1, <1>2, BroadcastKeepsWay DEF AskedInv
  <2> QED
    BY <1>1, <2>1 DEF ClusterInv, WayInv, UserAsks
<1>4. AgentsInv' /\ ReportsInv' /\ LinksInv'
  BY <1>1 DEF ClusterInv, AgentsInv, ReportsInv, LinksInv, UserAsks, links
<1> QED
  BY <1>2, <1>3, <1>4 DEF ClusterInv

LEMMA StartKeepsInv ==
    ASSUME ClusterInv, StartSimulation
    PROVE  ClusterInv'
<1> USE ClusterAssumption, ControllerAssumption
<1>1. /\ UserAsks /\ Len(launches) < MaxLaunches /\ launches' = Append(launches, wanted.sim)
      /\ passed' \in {passed, passed \cup {Len(launches')}}
      /\ wanted' = IF wanted.state = "Idle" THEN Idle ELSE Launched(wanted.sim, Len(launches'))
      /\ broadcast_simulation_state
  BY DEF StartSimulation
<1>2. /\ wanted.sim \in Sims \cup {"None"} /\ launches \in Seq(Sims \cup {"None"})
      /\ wanted.state # "Idle" => wanted.sim \in Sims
  BY DEF ClusterInv, AskedInv, Wanted
<1> DEFINE s == wanted.sim
           len == Len(launches)
           more == launches'
<1>3. more = Append(launches, s) /\ s \in Sims \cup {"None"} /\ len \in Nat /\ len < MaxLaunches
  <2>1. more = Append(launches, s) /\ s \in Sims \cup {"None"}
    BY <1>1, <1>2, Zenon
  <2>2. len \in Nat /\ len < MaxLaunches
    BY <1>1, <1>2
  <2> QED
    BY <2>1, <2>2, Zenon
<1> HIDE DEF s, more
<1>4. /\ \A ag : AgentIn(ag, launches) => AgentIn(ag, more)
      /\ Lists(launches) \subseteq Lists(more)
      /\ Messages(launches) \subseteq Messages(more)
  <2>1. launches \in Seq(Sims \cup {"None"})
    BY <1>2
  <2> QED
    BY <1>3, <2>1, AskedGrows, Zenon
<1>5. /\ more \in Seq(Sims \cup {"None"}) /\ Len(more) = len + 1
      /\ more[len + 1] = s /\ DOMAIN more = 1 .. (len + 1) /\ DOMAIN launches = 1 .. len
  <2>1. launches \in Seq(Sims \cup {"None"})
    BY <1>2
  <2>2. /\ more \in Seq(Sims \cup {"None"}) /\ Len(more) = len + 1 /\ more[len + 1] = s
    BY <1>3, <2>1, AppendProperties
  <2> QED
    BY <2>1, <2>2, LenProperties, Zenon
<1> HIDE DEF len
<1>6. /\ len + 1 \in DOMAIN more /\ DOMAIN launches \subseteq DOMAIN more
      /\ len + 1 <= MaxLaunches /\ len + 1 \in Launches \ {0}
  BY <1>3, <1>5 DEF Launches
<1>7. wanted' \in Wanted /\ AskedIn(wanted', more)
  <2>1. CASE wanted.state = "Idle"
    BY <1>1, <2>1 DEF Idle, Wanted, AskedIn
  <2>2. CASE wanted.state # "Idle"
    <3> DEFINE start == len + 1
    <3>1. wanted' = Launched(s, start)
      BY <1>1, <1>5, <2>2 DEF more, s
    <3>2. s \in Sims /\ start \in Launches \ {0} /\ start \in DOMAIN more /\ more[start] = s
      BY <1>2, <1>5, <1>6, <2>2, Zenon DEF s
    <3> HIDE DEF start
    <3> QED
      BY <3>1, <3>2 DEF Launched, Wanted, AskedIn
  <2> QED
    BY <2>1, <2>2
<1>8. AskedInv'
  <2>1. launches' \in Seq(Sims \cup {"None"}) /\ Len(launches') <= MaxLaunches
        /\ wanted' \in Wanted /\ AskedIn(wanted', launches')
    BY <1>5, <1>6, <1>7 DEF more
  <2>2. passed' \subseteq DOMAIN launches'
    BY <1>1, <1>5, <1>6 DEF ClusterInv, AskedInv, more
  <2>3. requests' \in 0 .. MaxRequests
    BY <1>1 DEF ClusterInv, AskedInv, UserAsks
  <2> QED
    BY <2>1, <2>2, <2>3 DEF AskedInv
<1>9. WayInv'
  <2>1. flight' \in Seq(Messages(launches'))
    BY <1>1, <1>4, <1>7, BroadcastKeepsWay DEF more
  <2>2. wire' = wire /\ wire \in [Agents -> Seq(Lists(launches))]
    BY <1>1 DEF ClusterInv, WayInv, UserAsks
  <2>3. Seq(Lists(launches)) \subseteq Seq(Lists(launches'))
    BY <1>4 DEF more
  <2> QED
    BY <2>1, <2>2, <2>3 DEF ClusterInv, WayInv
<1>10. AgentsInv' /\ ReportsInv' /\ LinksInv'
  BY <1>1, <1>4 DEF ClusterInv, AgentsInv, ReportsInv, LinksInv, UserAsks, links, more
<1> QED
  BY <1>8, <1>9, <1>10 DEF ClusterInv

LEMMA PassKeepsInv ==
    ASSUME ClusterInv, StartPasses
    PROVE  ClusterInv'
<1>1. /\ passed' \subseteq DOMAIN launches
      /\ UNCHANGED <<controller, flight, links, wire, agent, reported, reports>>
  BY DEF StartPasses, ClusterInv, AskedInv
<1>2. AskedInv'
  BY <1>1 DEF ClusterInv, AskedInv, controller
<1>3. WayInv' /\ AgentsInv' /\ ReportsInv' /\ LinksInv'
  BY <1>1 DEF ClusterInv, WayInv, AgentsInv, ReportsInv, LinksInv, controller, links
<1> QED
  BY <1>2, <1>3 DEF ClusterInv

(* The records after a batch of updates. *)
LEMMA RecordsAfterBatch ==
    ASSUME ClusterInv, NEW a \in Agents, NEW n \in Nat, NEW updates \in [1 .. n -> Report]
    PROVE  /\ AfterUpdates(records, a, updates) \in [Agents -> AnyRecord]
           /\ \A b \in Agents :
                 \/ AfterUpdates(records, a, updates)[b] = Unknown
                 \/ AfterUpdates(records, a, updates)[b] = records[b]
                 \/ records[b] # Unknown => AfterUpdates(records, a, updates)[b].age < records[b].age
<1> DEFINE new == Updated(records[a], updates)
           taken == [records EXCEPT ![a] = new]
<1>1. records \in [Agents -> AnyRecord]
  BY DEF ClusterInv, ReportsInv
<1>2. new \in AnyRecord /\ (records[a] # Unknown => Younger(records[a], new))
  BY <1>1, UpdatedIsYounger
<1>3. AfterUpdates(records, a, updates) = [b \in Agents |-> Retain(taken[b])]
  BY <1>1 DEF AfterUpdates
<1> HIDE DEF new
<1>4. \A b \in Agents : taken[b] \in AnyRecord /\ (b # a => taken[b] = records[b])
  BY <1>1, <1>2
<1>5. taken[a] = new
  BY <1>1
<1>6. \A r \in AnyRecord : Retain(r) \in AnyRecord /\ Retain(r) \in {r, Unknown}
  BY DEF Retain, AnyRecord, Record
<1> HIDE DEF taken
<1>7. \A b \in Agents : \/ taken[b] = records[b]
                        \/ records[b] # Unknown => taken[b].age < records[b].age
  BY <1>2, <1>4, <1>5 DEF Younger
<1> QED
  BY <1>3, <1>4, <1>6, <1>7

LEMMA UpdatesKeepInv ==
    ASSUME ClusterInv, NEW a \in Agents, HandleUpdates(a)
    PROVE  ClusterInv'
<1>0. PICK n \in 1 .. Cardinality(reports[a]) : \E updates \in [1 .. n -> reports[a]] :
         /\ records' = AfterUpdates(records, a, updates)
         /\ known' = [known EXCEPT ![a] = @ \/ \E r \in Range(updates) : ~r.old]
         /\ reports' = [reports EXCEPT ![a] = @ \ Range(updates)]
  BY Zenon DEF HandleUpdates
<1>1. PICK updates \in [1 .. n -> reports[a]] :
         /\ records' = AfterUpdates(records, a, updates)
         /\ known' = [known EXCEPT ![a] = @ \/ \E r \in Range(updates) : ~r.old]
         /\ reports' = [reports EXCEPT ![a] = @ \ Range(updates)]
  BY <1>0
<1>2. UNCHANGED <<wanted, requests, launches, passed, link, forwards, missed, breaks, wire, agent, reported>>
  BY DEF HandleUpdates
<1>3. ReportsInv'
  <2>1. reports[a] \subseteq Report
    BY DEF ClusterInv, ReportsInv
  <2>2. IsFiniteSet(reports[a]) /\ Cardinality(reports[a]) \in Nat
    BY FS_CardinalityType DEF ClusterInv, ReportsInv
  <2>3. n \in Nat /\ updates \in [1 .. n -> Report]
    BY <2>1, <2>2
  <2>4. records' \in [Agents -> AnyRecord]
    BY <1>1, <2>3, RecordsAfterBatch
  <2>5. reports' \in [Agents -> SUBSET Report]
    BY <1>1 DEF ClusterInv, ReportsInv
  <2>6. \A b \in Agents : IsFiniteSet(reports'[b])
    <3>1. \A b \in Agents : IsFiniteSet(reports[b]) /\ reports'[b] \subseteq reports[b]
      BY <1>1 DEF ClusterInv, ReportsInv
    <3> QED
      BY <3>1, FS_Subset
  <2>7. reported' \in [Agents -> BOOLEAN]
    BY <1>2 DEF ClusterInv, ReportsInv
  <2> QED
    BY <2>4, <2>5, <2>6, <2>7 DEF ReportsInv
<1>4. WayInv'
  <2> DEFINE before == count_agents(records)
             after == count_agents(records')
             list == simulation_state_commands(wanted, after)
             targets == {b \in misaligned_agents(records', wanted, passed) : known'[b]}
             counting == <<UpdateAgentsCount(after)>>
             others == IF after # before THEN Connections ELSE {}
             m == Message(list, targets, FALSE)
             c == CountMessage(before, after)
  <2>1. after \in AgentsCounts
    BY <1>3, CountsFit DEF ReportsInv
  <2>2. wanted \in Wanted /\ AskedIn(wanted, launches)
    BY DEF ClusterInv, AskedInv
  <2>3. c = Message(counting, others, FALSE)
    BY DEF CountMessage
  <2>4. flight' = flight \o Sending(<<m, c>>)
    BY DEF HandleUpdates
  <2> HIDE DEF after, before
  <2>5. list \in Lists(launches) /\ counting \in Lists(launches)
    BY <2>1, <2>2, ListsSent
  <2> HIDE DEF list, counting, targets, others, c
  <2>6. m \in AnyMessage(launches) /\ c \in AnyMessage(launches)
    BY <2>3, <2>5, MessageFits
  <2> HIDE DEF m
  <2>7. <<m, c>> \in Seq(AnyMessage(launches)) /\ flight \in Seq(Messages(launches))
    BY <2>6 DEF ClusterInv, WayInv
  <2>8. flight' \in Seq(Messages(launches))
    BY <2>4, <2>7, SendingMore
  <2> QED
    BY <1>2, <2>8 DEF ClusterInv, WayInv
<1>5. AskedInv' /\ AgentsInv'
  BY <1>2 DEF ClusterInv, AskedInv, AgentsInv
<1>6. LinksInv'
  BY <1>1, <1>2 DEF ClusterInv, LinksInv
<1> QED
  BY <1>3, <1>4, <1>5, <1>6 DEF ClusterInv

LEMMA DeliveryKeepsInv ==
    ASSUME ClusterInv, NEW i \in DOMAIN flight, Deliver(i)
    PROVE  ClusterInv'
<1> DEFINE a == Head(flight[i].to)
           left == [flight EXCEPT ![i].to = Tail(@)]
<1>1. /\ Len(wire[a]) < Wire
      /\ wire' = [wire EXCEPT ![a] = Append(@, flight[i].commands)]
      /\ flight' = Sending(left)
      /\ UNCHANGED <<controller, passed, links, agent, reported, reports>>
  BY DEF Deliver
<1>2. flight \in Seq(Messages(launches)) /\ flight[i] \in Messages(launches)
  BY DEF ClusterInv, WayInv
<1>3. /\ flight[i].to \in Seq(Agents) /\ flight[i].to # <<>>
      /\ flight[i].commands \in Lists(launches)
  BY <1>2 DEF Messages, AnyMessage
<1>4. a \in Agents /\ Tail(flight[i].to) \in Seq(Agents)
  BY <1>3
<1>5. left \in Seq(AnyMessage(launches))
  <2> DEFINE rest == Tail(flight[i].to)
             m == [flight[i] EXCEPT !.to = rest]
  <2>1. left = [flight EXCEPT ![i] = m]
    OBVIOUS
  <2>2. rest \in Seq(Agents)
    BY <1>4
  <2> HIDE DEF rest
  <2>3. m \in AnyMessage(launches)
    BY <1>2, <2>2 DEF Messages, AnyMessage
  <2>4. flight \in Seq(AnyMessage(launches))
    BY <1>2 DEF Messages
  <2> HIDE DEF m, left
  <2> QED
    BY <2>1, <2>3, <2>4
<1> HIDE DEF a, left
<1>6. flight' \in Seq(Messages(launches))
  BY <1>1, <1>5, SendingFits
<1>7. wire' \in [Agents -> Seq(Lists(launches))]
  BY <1>1, <1>3, <1>4 DEF ClusterInv, WayInv
<1>8. ASSUME NEW b \in Agents
      PROVE  Len(wire'[b]) <= Wire
  <2>1. wire[b] \in Seq(Lists(launches)) /\ Len(wire[b]) <= Wire /\ wire \in [Agents -> Seq(Lists(launches))]
    BY DEF ClusterInv, WayInv
  <2>2. CASE b = a
    <3> DEFINE w == wire[a]
               c == flight[i].commands
    <3>1. wire'[b] = Append(w, c) /\ w \in Seq(Lists(launches)) /\ Len(w) < Wire
      BY <1>1, <1>4, <2>1, <2>2
    <3>2. c \in Lists(launches)
      BY <1>3
    <3> HIDE DEF w, c
    <3>3. Len(Append(w, c)) = Len(w) + 1 /\ Len(w) \in Nat
      BY <3>1, <3>2, AppendProperties
    <3>4. Wire \in Nat
      BY ClusterAssumption
    <3> QED
      BY <3>1, <3>3, <3>4
  <2>3. CASE b # a
    BY <1>1, <2>1, <2>3
  <2> QED
    BY <2>2, <2>3
<1>9. launches' = launches
  BY <1>1 DEF controller
<1>10. WayInv'
  BY <1>6, <1>7, <1>8, <1>9 DEF WayInv
<1>11. AskedInv' /\ AgentsInv' /\ ReportsInv' /\ LinksInv'
  BY <1>1 DEF ClusterInv, AskedInv, AgentsInv, ReportsInv, LinksInv, controller, links
<1> QED
  BY <1>10, <1>11 DEF ClusterInv

LEMMA ConnectKeepsInv ==
    ASSUME ClusterInv, NEW a \in Agents, Connect(a)
    PROVE  ClusterInv'
<1>1. /\ link' = [link EXCEPT ![a] = TRUE]
      /\ UNCHANGED <<controller, passed, flight, known, forwards, missed, breaks, wire, agent, reported, reports>>
  BY DEF Connect
<1> QED
  BY <1>1 DEF ClusterInv, AskedInv, WayInv, AgentsInv, ReportsInv, LinksInv, controller

(* Marking some of the reports as old leaves a finite set of reports. *)
LEMMA OldReports ==
    ASSUME NEW S \in SUBSET Report, IsFiniteSet(S), NEW f \in [Report -> Report]
    PROVE  {f[r] : r \in S} \in SUBSET Report /\ IsFiniteSet({f[r] : r \in S})
<1> DEFINE I == {f[r] : r \in S}
           g == [r \in S |-> f[r]]
<1>1. g \in Surjection(S, I)
  BY DEF Surjection
<1>2. I \in SUBSET Report
  OBVIOUS
<1> HIDE DEF I, g
<1>3. IsFiniteSet(I)
  BY <1>1, FS_Surjection
<1> QED
  BY <1>2, <1>3 DEF I

(* What a link that breaks leaves. *)
LEMMA BreakKeeps ==
    ASSUME ClusterInv, NEW a \in Agents, Breaks(a)
    PROVE  /\ AskedInv' /\ WayInv'
           /\ link' \in [Agents -> BOOLEAN] /\ known' \in [Agents -> BOOLEAN]
           /\ breaks' \in 0 .. MaxBreaks
           /\ records' = records
           /\ reports' \in [Agents -> SUBSET Report] /\ \A b \in Agents : IsFiniteSet(reports'[b])
<1> DEFINE left == [i \in DOMAIN flight |->
                      [flight[i] EXCEPT !.to = Select(@, Agents \ {a})]]
<1>1. /\ breaks < MaxBreaks /\ breaks' = breaks + 1
      /\ link' = [link EXCEPT ![a] = FALSE]
      /\ known' = [known EXCEPT ![a] = FALSE]
      /\ wire' = [wire EXCEPT ![a] = <<>>]
      /\ flight' = Sending(left)
      /\ \E kept \in SUBSET reports[a] :
            reports' = [reports EXCEPT ![a] = {[r EXCEPT !.old = TRUE] : r \in kept}]
      /\ UNCHANGED <<controller, passed>>
  BY DEF Breaks, Fails
<1>2. AskedInv'
  BY <1>1 DEF ClusterInv, AskedInv, controller
<1>3. WayInv'
  <2>1. flight \in Seq(Messages(launches))
    BY DEF ClusterInv, WayInv
  <2>2. \A i \in DOMAIN flight : left[i] \in AnyMessage(launches)
    <3> SUFFICES ASSUME NEW i \in DOMAIN flight
                 PROVE  left[i] \in AnyMessage(launches)
      OBVIOUS
    <3>1. flight[i] \in AnyMessage(launches)
      BY <2>1 DEF Messages
    <3> DEFINE chosen == Select(flight[i].to, Agents \ {a})
    <3>2. flight[i].to \in Seq(Agents)
      BY <3>1 DEF AnyMessage
    <3>3. chosen \in Seq(Agents)
      BY <3>2, SelectElements
    <3>4. left[i] = [flight[i] EXCEPT !.to = chosen]
      OBVIOUS
    <3> HIDE DEF chosen, left
    <3> QED
      BY <3>1, <3>3, <3>4 DEF AnyMessage
  <2>3. left \in Seq(AnyMessage(launches))
    <3> DEFINE n == Len(flight)
    <3>1. DOMAIN flight = 1 .. n /\ n \in Nat
      BY <2>1
    <3> HIDE DEF n
    <3>2. left = [i \in 1 .. n |-> left[i]]
      BY <3>1
    <3> HIDE DEF left
    <3>3. \A i \in 1 .. n : left[i] \in AnyMessage(launches)
      BY <2>2, <3>1
    <3>4. left \in [1 .. n -> AnyMessage(launches)]
      BY <3>2, <3>3
    <3> QED
      BY <3>1, <3>4
  <2> HIDE DEF left
  <2>4. flight' \in Seq(Messages(launches))
    BY <1>1, <2>3, SendingFits
  <2>5. /\ wire' \in [Agents -> Seq(Lists(launches))]
        /\ \A b \in Agents : Len(wire'[b]) <= Wire
    BY <1>1, ClusterAssumption DEF ClusterInv, WayInv
  <2>6. launches' = launches
    BY <1>1 DEF controller
  <2> QED
    BY <2>4, <2>5, <2>6 DEF WayInv
<1>4. /\ link' \in [Agents -> BOOLEAN] /\ known' \in [Agents -> BOOLEAN]
      /\ breaks' \in 0 .. MaxBreaks
  BY <1>1, ClusterAssumption DEF ClusterInv, LinksInv
<1>5. reports' \in [Agents -> SUBSET Report] /\ \A b \in Agents : IsFiniteSet(reports'[b])
  <2>1. PICK kept \in SUBSET reports[a] :
           reports' = [reports EXCEPT ![a] = {[r EXCEPT !.old = TRUE] : r \in kept}]
    BY <1>1
  <2>2. /\ reports \in [Agents -> SUBSET Report] /\ kept \subseteq Report
        /\ \A b \in Agents : IsFiniteSet(reports[b])
    BY DEF ClusterInv, ReportsInv
  <2>3. IsFiniteSet(kept)
    BY <2>2, FS_Subset
  <2> DEFINE f == [r \in Report |-> [r EXCEPT !.old = TRUE]]
             I == {f[r] : r \in kept}
  <2>4. f \in [Report -> Report]
    BY DEF Report
  <2>5. I = {[r EXCEPT !.old = TRUE] : r \in kept}
    BY <2>2
  <2> HIDE DEF f
  <2>6. I \in SUBSET Report /\ IsFiniteSet(I)
    BY <2>2, <2>3, <2>4, OldReports
  <2> HIDE DEF I
  <2> QED
    BY <2>1, <2>2, <2>5, <2>6
<1>6. records' = records
  BY <1>1 DEF controller
<1> QED
  BY <1>2, <1>3, <1>4, <1>5, <1>6

LEMMA BreaksKeepInv ==
    ASSUME ClusterInv, NEW a \in Agents, LinkBreaks(a) \/ AgentRestarts(a)
    PROVE  ClusterInv'
<1>1. Breaks(a) /\ reported' = reported
  BY DEF LinkBreaks, AgentRestarts
<1>2. /\ AskedInv' /\ WayInv'
      /\ link' \in [Agents -> BOOLEAN] /\ known' \in [Agents -> BOOLEAN]
      /\ breaks' \in 0 .. MaxBreaks
      /\ records' = records
      /\ reports' \in [Agents -> SUBSET Report] /\ \A b \in Agents : IsFiniteSet(reports'[b])
  BY <1>1, BreakKeeps
<1>3. forwards' \in [Agents -> BOOLEAN] /\ missed' \in [Agents -> BOOLEAN]
  BY DEF ClusterInv, LinksInv, LinkBreaks, AgentRestarts
<1>4. AgentsInv'
  <2>1. launches' = launches
    BY <1>1 DEF Breaks, controller
  <2>2. NewAgent \in Agent /\ AgentIn(NewAgent, launches)
    BY ControllerAssumption DEF NewAgent, Agent, AgentIn, Launches
  <2>3. agent' = agent \/ agent' = [agent EXCEPT ![a] = NewAgent]
    BY DEF LinkBreaks, AgentRestarts
  <2> QED
    BY <2>1, <2>2, <2>3 DEF ClusterInv, AgentsInv
<1>5. ReportsInv'
  BY <1>1, <1>2 DEF ClusterInv, ReportsInv
<1>6. LinksInv'
  BY <1>2, <1>3 DEF LinksInv
<1> QED
  BY <1>2, <1>4, <1>5, <1>6 DEF ClusterInv

LEMMA CommandKeepsInv ==
    ASSUME ClusterInv, NEW a \in Agents, HandleCommand(a)
    PROVE  ClusterInv'
<1> DEFINE list == Head(wire[a])
           rest == Tail(wire[a])
           new == AfterCommands(agent[a], list)
<1>1. /\ wire[a] # <<>> /\ wire' = [wire EXCEPT ![a] = rest]
      /\ agent' \in {agent, [agent EXCEPT ![a] = new]}
      /\ UNCHANGED <<controller, passed, flight, link, known, forwards, reported, reports>>
  BY DEF HandleCommand, links, ClusterInv, AgentsInv
<1>2. /\ wire \in [Agents -> Seq(Lists(launches))] /\ wire[a] \in Seq(Lists(launches))
      /\ \A b \in Agents : Len(wire[b]) <= Wire
  BY DEF ClusterInv, WayInv
<1>3. list \in Lists(launches) /\ rest \in Seq(Lists(launches))
  BY <1>1, <1>2
<1>4. Len(rest) <= Wire
  <2> DEFINE w == wire[a]
  <2>1. w \in Seq(Lists(launches)) /\ w # <<>> /\ Len(w) <= Wire
    BY <1>1, <1>2
  <2> HIDE DEF w
  <2>2. Len(Tail(w)) = Len(w) - 1 /\ Len(w) \in Nat
    BY <2>1, HeadTailProperties, EmptySeq, LenProperties
  <2>3. Len(Tail(w)) <= Wire
    BY <2>1, <2>2, ClusterAssumption
  <2> QED
    BY <2>3 DEF w
<1>5. /\ launches \in Seq(Sims \cup {"None"}) /\ Len(launches) <= MaxLaunches
      /\ agent \in [Agents -> Agent] /\ agent[a] \in Agent /\ AgentIn(agent[a], launches)
  BY DEF ClusterInv, AskedInv, AgentsInv
<1> HIDE DEF list, rest
<1>6. new \in Agent /\ AgentIn(new, launches)
  BY <1>3, <1>5, AgentStaysIn
<1> HIDE DEF new
<1>7. launches' = launches
  BY <1>1 DEF controller
<1>8. AgentsInv'
  BY <1>1, <1>5, <1>6, <1>7 DEF ClusterInv, AgentsInv
<1>9. WayInv'
  BY <1>1, <1>2, <1>3, <1>4, <1>7 DEF ClusterInv, WayInv
<1>10. AskedInv' /\ ReportsInv'
  BY <1>1 DEF ClusterInv, AskedInv, ReportsInv, controller
<1>11. LinksInv'
  <2>1. \/ missed' = missed /\ breaks' = breaks
        \/ Fails /\ missed' = [missed EXCEPT ![a] = TRUE]
    BY Zenon DEF HandleCommand, links
  <2>2. missed \in [Agents -> BOOLEAN] /\ breaks \in 0 .. MaxBreaks
    BY DEF ClusterInv, LinksInv
  <2>3. breaks' \in 0 .. MaxBreaks
    BY <2>1, <2>2, ClusterAssumption DEF Fails
  <2>4. missed' \in [Agents -> BOOLEAN]
    BY <2>1, <2>2
  <2> QED
    BY <1>1, <2>3, <2>4 DEF ClusterInv, LinksInv
<1> QED
  BY <1>8, <1>9, <1>10, <1>11 DEF ClusterInv

LEMMA ReportKeepsInv ==
    ASSUME ClusterInv, NEW a \in Agents, SendReport(a)
    PROVE  ClusterInv'
<1> DEFINE r == [state |-> kind(agent[a], passed), age |-> 0, old |-> FALSE]
<1>1. /\ reported' = [reported EXCEPT ![a] = TRUE]
      /\ reports' = [reports EXCEPT ![a] = @ \cup {r}]
      /\ UNCHANGED <<controller, passed, flight, links, wire, agent>>
  BY DEF SendReport
<1>2. r \in Report
  BY ControllerAssumption DEF Report, kind, Kinds
<1> HIDE DEF r
<1>3. ReportsInv'
  <2>1. /\ records' \in [Agents -> AnyRecord]
        /\ reported' \in [Agents -> BOOLEAN] /\ reports' \in [Agents -> SUBSET Report]
    BY <1>1, <1>2 DEF ClusterInv, ReportsInv, controller
  <2>2. \A b \in Agents : IsFiniteSet(reports[b]) /\ IsFiniteSet(reports[b] \cup {r})
    BY FS_AddElement DEF ClusterInv, ReportsInv
  <2>3. \A b \in Agents : reports'[b] \in {reports[b], reports[b] \cup {r}}
    BY <1>1 DEF ClusterInv, ReportsInv
  <2>4. \A b \in Agents : IsFiniteSet(reports'[b])
    BY <2>2, <2>3
  <2> QED
    BY <2>1, <2>4 DEF ReportsInv
<1>4. AskedInv' /\ WayInv' /\ AgentsInv' /\ LinksInv'
  BY <1>1 DEF ClusterInv, AskedInv, WayInv, AgentsInv, LinksInv, controller, links
<1> QED
  BY <1>3, <1>4 DEF ClusterInv

LEMMA TimeKeepsInv ==
    ASSUME ClusterInv, TimePasses
    PROVE  ClusterInv'
<1>1. /\ reported' = [a \in Agents |-> FALSE]
      /\ reports' = [a \in Agents |-> {Older(r) : r \in reports[a]}]
      /\ records' = [a \in Agents |-> IF records[a] = Unknown THEN Unknown ELSE Older(records[a])]
      /\ UNCHANGED <<wanted, requests, launches, passed, flight, links, wire, agent>>
  BY DEF TimePasses
<1> DEFINE f == [r \in Report |-> Older(r)]
<1>2. f \in [Report -> Report]
  BY ControllerAssumption DEF Report, Older
<1>3. ASSUME NEW a \in Agents
      PROVE  reports'[a] \in SUBSET Report /\ IsFiniteSet(reports'[a])
  <2>1. reports[a] \in SUBSET Report /\ IsFiniteSet(reports[a])
    BY DEF ClusterInv, ReportsInv
  <2>2. reports'[a] = {f[r] : r \in reports[a]}
    BY <1>1, <2>1
  <2> HIDE DEF f
  <2> QED
    BY <1>2, <2>1, <2>2, OldReports
<1>4. \A r \in AnyRecord : r # Unknown => Older(r) \in AnyRecord
  BY ControllerAssumption DEF AnyRecord, Record, Older
<1>5. ReportsInv'
  <2>1. records' \in [Agents -> AnyRecord]
    <3>1. Unknown \in AnyRecord
      BY DEF AnyRecord, Record
    <3> QED
      BY <1>1, <1>4, <3>1 DEF ClusterInv, ReportsInv
  <2>2. reports' \in [Agents -> SUBSET Report]
    BY <1>1, <1>3
  <2>3. reported' \in [Agents -> BOOLEAN]
    BY <1>1
  <2> QED
    BY <1>3, <2>1, <2>2, <2>3 DEF ReportsInv
<1>6. AskedInv' /\ WayInv' /\ AgentsInv' /\ LinksInv'
  BY <1>1 DEF ClusterInv, AskedInv, WayInv, AgentsInv, LinksInv, links
<1> QED
  BY <1>5, <1>6 DEF ClusterInv

(* Every step keeps the invariant. *)
LEMMA StepInv == ClusterInv /\ [Next]_vars => ClusterInv'
<1> SUFFICES ASSUME ClusterInv, [Next]_vars
             PROVE  ClusterInv'
  OBVIOUS
<1>1. CASE \E s \in Sims : LoadSimulation(s)
  BY <1>1, LoadKeepsInv
<1>2. CASE StartSimulation
  BY <1>2, StartKeepsInv
<1>3. CASE StartPasses
  BY <1>3, PassKeepsInv
<1>4. CASE TimePasses
  BY <1>4, TimeKeepsInv
<1>5. CASE \E a \in Agents : HandleUpdates(a)
  BY <1>5, UpdatesKeepInv
<1>6. CASE \E a \in Agents : HandleCommand(a)
  BY <1>6, CommandKeepsInv
<1>7. CASE \E a \in Agents : SendReport(a)
  BY <1>7, ReportKeepsInv
<1>8. CASE \E a \in Agents : Connect(a)
  BY <1>8, ConnectKeepsInv
<1>9. CASE \E a \in Agents : LinkBreaks(a) \/ AgentRestarts(a)
  BY <1>9, BreaksKeepInv
<1>10. CASE \E i \in DOMAIN flight : Deliver(i)
  BY <1>10, DeliveryKeepsInv
<1>11. CASE UNCHANGED vars
  BY <1>11 DEF vars, ClusterInv, AskedInv, WayInv, AgentsInv, ReportsInv, LinksInv
<1> QED
  BY <1>1, <1>2, <1>3, <1>4, <1>5, <1>6, <1>7, <1>8, <1>9, <1>10, <1>11 DEF Next

LEMMA ClusterInvHolds == Spec => []ClusterInv
BY InitInv, StepInv, PTL DEF Spec

-----------------------------------------------------------------------------
(***************************************************************************)
(* Every variable has its type: above all, each message that the server    *)
(* sends has someone to go to, and the channel of an agent never holds     *)
(* more than its capacity.                                                 *)
(***************************************************************************)
THEOREM ClusterTypes == Spec => []TypeOK
<1>1. ASSUME ClusterInv
      PROVE  TypeOK
  <2>1. wanted \in Wanted /\ passed \subseteq DOMAIN launches /\ requests \in 0 .. MaxRequests
        /\ launches \in Seq(Sims \cup {"None"})
    BY <1>1 DEF ClusterInv, AskedInv
  <2>2. \A i \in DOMAIN flight : flight[i].to # <<>> /\ Range(flight[i].to) \subseteq Agents
    <3>1. ASSUME NEW i \in DOMAIN flight
          PROVE  flight[i].to # <<>> /\ flight[i].to \in Seq(Agents)
      BY <1>1 DEF ClusterInv, WayInv, Messages, AnyMessage
    <3>2. \A s \in Seq(Agents) : Range(s) \subseteq Agents
      BY DEF Range
    <3> QED
      BY <3>1, <3>2
  <2>3. {link, known, forwards, missed, reported} \subseteq [Agents -> BOOLEAN] /\ breaks \in 0 .. MaxBreaks
    BY <1>1 DEF ClusterInv, LinksInv, ReportsInv
  <2>4. agent \in [Agents -> Agent] /\ \A a \in Agents : Len(wire[a]) <= Wire
    BY <1>1 DEF ClusterInv, AgentsInv, WayInv
  <2>5. records \in [Agents -> Record \cup [state : Kinds, age : {Expiry}]]
        /\ reports \in [Agents -> SUBSET Report]
    BY <1>1 DEF ClusterInv, ReportsInv, AnyRecord
  <2> QED
    BY <2>1, <2>2, <2>3, <2>4, <2>5 DEF TypeOK
<1> QED
  BY <1>1, ClusterInvHolds, PTL

(***************************************************************************)
(* An agent never waits or runs but with a simulation and a start that     *)
(* users put together, however many agents and requests there are, and     *)
(* however lists of commands repeat, come late, overtake or get lost.      *)
(***************************************************************************)
THEOREM OnlyAskedRuns == Spec => []NothingRunsUnasked
<1>1. ASSUME ClusterInv
      PROVE  NothingRunsUnasked
  <2> SUFFICES ASSUME NEW a \in Agents, kind(agent[a], passed) \in {"Waiting", "Running"}
               PROVE  launches[agent[a].start] = agent[a].sim
    BY DEF NothingRunsUnasked
  <2>1. agent[a] \in Agent /\ AgentIn(agent[a], launches)
    BY <1>1 DEF ClusterInv, AgentsInv
  <2>2. 0 \notin passed
    BY <1>1 DEF ClusterInv, AskedInv
  <2>3. agent[a].sim # "None" /\ agent[a].start # 0
    BY <2>2 DEF kind
  <2> QED
    BY <2>1, <2>3 DEF AgentIn
<1> QED
  BY <1>1, ClusterInvHolds, PTL

(***************************************************************************)
(* What the controller knows of an agent only gets younger, but for the    *)
(* time that passes, however late reports come and in whatever order those *)
(* of a batch are.                                                         *)
(***************************************************************************)
THEOREM NewsStayYoung == Spec => NewsNeverGoBack
<1> DEFINE NoOlder == \A a \in Recorded(records) \cap Recorded(records') :
                         \/ records'[a] \in {records[a], Older(records[a])}
                         \/ records'[a].age < records[a].age
<1>1. ASSUME ClusterInv, [Next]_vars
      PROVE  [NoOlder]_vars
  <2>1. CASE records' = records
    BY <2>1
  <2>2. CASE TimePasses
    BY <2>2 DEF TimePasses, Recorded, ClusterInv, ReportsInv
  <2>3. ASSUME NEW b \in Agents, HandleUpdates(b)
        PROVE  NoOlder
    <3>1. PICK n \in 1 .. Cardinality(reports[b]) : \E updates \in [1 .. n -> reports[b]] :
             records' = AfterUpdates(records, b, updates)
      BY <2>3, Zenon DEF HandleUpdates
    <3>2. PICK updates \in [1 .. n -> reports[b]] : records' = AfterUpdates(records, b, updates)
      BY <3>1
    <3>3. reports[b] \subseteq Report /\ Cardinality(reports[b]) \in Nat
      BY <1>1, FS_CardinalityType DEF ClusterInv, ReportsInv
    <3>4. n \in Nat /\ updates \in [1 .. n -> Report]
      BY <3>3
    <3>5. records' \in [Agents -> AnyRecord]
          /\ \A a \in Agents :
                \/ records'[a] = Unknown
                \/ records'[a] = records[a]
                \/ records[a] # Unknown => records'[a].age < records[a].age
      BY <1>1, <3>2, <3>4, RecordsAfterBatch
    <3> SUFFICES ASSUME NEW a \in Recorded(records) \cap Recorded(records')
                 PROVE  \/ records'[a] \in {records[a], Older(records[a])}
                        \/ records'[a].age < records[a].age
      OBVIOUS
    <3>6. a \in Agents /\ records[a] # Unknown /\ records'[a] # Unknown
      BY <1>1, <3>5 DEF Recorded, ClusterInv, ReportsInv
    <3> QED
      BY <3>5, <3>6
  <2>4. \/ records' = records \/ TimePasses \/ \E b \in Agents : HandleUpdates(b)
    BY <1>1 DEF Next, vars, controller, LoadSimulation, StartSimulation, UserAsks, StartPasses,
       HandleCommand, SendReport, Connect, LinkBreaks, AgentRestarts, Breaks, Deliver
  <2> HIDE DEF NoOlder
  <2>5. CASE \E b \in Agents : HandleUpdates(b)
    BY <2>3, <2>5
  <2> QED
    BY <2>1, <2>2, <2>4, <2>5
<1>2. ClusterInv /\ [Next]_vars => [NoOlder]_vars
  BY <1>1
<1>3. Spec => [][NoOlder]_vars
  <2> HIDE DEF NoOlder
  <2> QED
    BY <1>2, ClusterInvHolds, PTL DEF Spec
<1> QED
  BY <1>3 DEF NewsNeverGoBack

-----------------------------------------------------------------------------
(* How the agents divide a load, whatever their ids and their number are. *)

(***************************************************************************)
(* The share of an agent is the n-th part of the count, or one more, for   *)
(* every id: shares of agents whose ids collide modulo n, which need not   *)
(* add up to the count, are less than one bot per agent off.               *)
(***************************************************************************)
THEOREM ShareIsFair ==
    ASSUME NEW count \in Nat, NEW id \in Nat, NEW n \in Nat \ {0}
    PROVE  normalize_count(count, id, n) \in {count \div n, count \div n + 1}
<1> DEFINE shift == id % n
           share == (count + shift) \div n
           part == count \div n
<1>1. shift \in 0 .. (n - 1)  BY Division
<1>2. part \in Nat /\ count = n * part + (count % n) /\ count % n \in 0 .. (n - 1)  BY Division
<1>3. share \in Nat /\ count + shift = n * share + ((count + shift) % n)
      /\ (count + shift) % n \in 0 .. (n - 1)
  <2>1. count + shift \in Nat  BY <1>1
  <2>2. QED  BY <2>1, Division
<1> HIDE DEF shift, share, part
<1>4. part <= share
  <2>1. n * part < n * share + n
    <3>1. n * part \in Int /\ n * share \in Int  BY <1>2, <1>3
    <3>2. QED  BY <1>1, <1>2, <1>3, <3>1
  <2>2. QED  BY <2>1, <1>2, <1>3, Multiples
<1>5. share <= part + 1
  <2>1. n * share < n * (part + 1) + n
    <3>1. n * part \in Int /\ n * share \in Int /\ n * (part + 1) = n * part + n  BY <1>2, <1>3
    <3>2. QED  BY <1>1, <1>2, <1>3, <3>1
  <2>2. QED  BY <2>1, <1>2, <1>3, Multiples
<1>6. share = part \/ share = part + 1  BY <1>2, <1>3, <1>4, <1>5
<1>7. QED  BY <1>6 DEF share, part, shift, normalize_count

(* The agent of id i < n gets one more bot if it is among the last ones. *)
LEMMA WhoGetsOneMore ==
    ASSUME NEW count \in Nat, NEW n \in Nat \ {0}, NEW i \in 0 .. (n - 1)
    PROVE  normalize_count(count, i, n) = count \div n + 1 <=> i >= n - (count % n)
<1> DEFINE part == count \div n
           rest == count % n
           share == (count + i) \div n
<1>1. i % n = i  BY SMT
<1>2. part \in Nat /\ count = n * part + rest /\ rest \in 0 .. (n - 1)  BY Division
<1>3. share \in Nat /\ count + i = n * share + ((count + i) % n)
      /\ (count + i) % n \in 0 .. (n - 1)
  <2>1. count + i \in Nat  OBVIOUS
  <2>2. QED  BY <2>1, Division
<1>4. share \in {part, part + 1}  BY <1>1, ShareIsFair DEF normalize_count
<1>5. n * (part + 1) = n * part + n /\ n * part \in Nat
  <2>1. n * part \in Nat  BY <1>2
  <2>2. QED  BY <1>2, <2>1, SMT
<1> HIDE DEF part, rest, share
<1>6. CASE share = part
  <2>1. (count + i) % n = rest + i  BY <1>2, <1>3, <1>5, <1>6
  <2>2. rest + i < n  BY <1>2, <1>3, <2>1
  <2>3. ~(i >= n - rest)  BY <1>2, <2>2
  <2>4. share # part + 1  BY <1>2, <1>6
  <2>5. QED  BY <2>3, <2>4, <1>1 DEF normalize_count, share, part, rest
<1>7. CASE share = part + 1
  <2>1. (count + i) % n = rest + i - n  BY <1>2, <1>3, <1>5, <1>7
  <2>2. rest + i - n >= 0  BY <1>2, <1>3, <2>1
  <2>3. i >= n - rest  BY <1>2, <2>2
  <2>4. QED  BY <2>3, <1>7, <1>1 DEF normalize_count, share, part, rest
<1>8. QED  BY <1>4, <1>6, <1>7

(***************************************************************************)
(* Agents whose ids differ modulo their number divide a count with nothing *)
(* left: each runs the n-th part of it (ShareIsFair), and exactly as many  *)
(* as the rest of the division run one more.                               *)
(***************************************************************************)
THEOREM SharesLeaveNothing ==
    ASSUME NEW count \in Nat, NEW n \in Nat \ {0}
    PROVE  Cardinality({i \in 0 .. (n - 1) :
                           normalize_count(count, i, n) = count \div n + 1}) = count % n
<1> DEFINE more == {i \in 0 .. (n - 1) : normalize_count(count, i, n) = count \div n + 1}
           rest == count % n
<1>1. rest \in 0 .. (n - 1)  BY Division
<1>2. more = {i \in 0 .. (n - 1) : i >= n - rest}  BY WhoGetsOneMore
<1> HIDE DEF more, rest
<1>3. more = (n - rest) .. (n - 1)
  <2>1. \A i \in Int : i >= n - rest => i >= 0  BY <1>1
  <2>2. \A i : i \in more <=> i \in (n - rest) .. (n - 1)  BY <1>1, <1>2, <2>1
  <2>3. QED  BY <2>2, Zenon
<1>4. Cardinality((n - rest) .. (n - 1)) =
          IF n - rest > n - 1 THEN 0 ELSE (n - 1) - (n - rest) + 1
  BY <1>1, FS_Interval
<1>5. Cardinality(more) = rest  BY <1>1, <1>3, <1>4
<1>6. QED  BY <1>5 DEF more, rest
=============================================================================
