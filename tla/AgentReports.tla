---------------------------- MODULE AgentReports ----------------------------
(***************************************************************************)
(* The statistics an agent reports.  Every 3 seconds the agent core        *)
(* (agent/actor.rs) asks the metrics manager for the snapshots in its      *)
(* rings and the simulation for the number of bots in each state; both     *)
(* answers, of which several may be awaited, become an update with what    *)
(* changed since it was sent last, and what was sent 25 seconds ago.  The  *)
(* notifier (communication/notifier_actor.rs) collects updates as frames   *)
(* and hands them to the upstream connection every 5 seconds.  On all of   *)
(* this way updates may be lost.  The metrics storage of the controller,   *)
(* which is the user's, is taken to keep the youngest count of each state. *)
(***************************************************************************)
EXTENDS Integers, Sequences, FiniteSets, SequencesExt

CONSTANTS
    Models,
    BotStates,
    Snapshots,      \* snapshots of performance, each of some model
    ModelOf,        \* the model of a snapshot
    MaxCount,       \* bound on the bots in a state
    Refresh,        \* the age at which a count is sent again (25 s)
    MaxDelay,       \* bound on the age of what is on its way
    MaxFetches,     \* bound on the fetches awaited at a time
    MaxLosses       \* bound on the losses

ASSUME ReportsAssumption ==
    /\ ModelOf \in [Snapshots -> Models]
    /\ {MaxCount, Refresh, MaxDelay, MaxLosses} \subseteq Nat
    /\ MaxFetches \in Nat \ {0}

Keys == Models \X BotStates

(* Instants are kept as ages, told apart up to the one that makes a refresh. *)
Old == Refresh + MaxDelay + 1

(* An age that has no bound. *)
OlderForever(age) == age + 1

(* Up to Old. *)
Older(age) == IF age < Old THEN age + 1 ELSE age

Never == [count |-> 0, age |-> Old + 1]
Known == [count : 0 .. MaxCount, age : 0 .. Old] \cup {Never}

VARIABLES
    models,         \* models the simulation has
    bots,           \* how many bots are in each state
    ring,           \* snapshots in the rings of the metrics storages
    due,            \* whether the core's interval is due
    fetches,        \* answers of the fetches awaited, oldest first
    read,           \* whether the simulation was read at this instant
    last_sent,      \* last_sent_metrics, for each model and state
    frames,         \* the notifier's frames
    view,           \* what the controller's storage knows of each state
    arrived,        \* history: how often a snapshot came, for each
    reading,        \* history: what the last update was made of
    missed,         \* history: the states whose youngest count was lost
    losses          \* how much was lost

agent == <<models, bots, ring>>
history == <<reading, missed, losses>>
vars == <<agent, due, fetches, read, last_sent, frames, view, arrived, history>>

NoBots == [k \in Keys |-> 0]

(* The two answers of a fetch; None is the empty set. *)
NoAnswer == {}
Fetch == [perf |-> NoAnswer, state |-> NoAnswer]

Init ==
    /\ models = {} /\ bots = NoBots /\ ring = {}
    /\ due = FALSE /\ read = FALSE
    /\ fetches = <<>>
    /\ last_sent = [k \in Keys |-> Never]
    /\ frames = {}
    /\ view = [k \in Keys |-> Never]
    /\ arrived = [p \in Snapshots |-> 0]
    /\ reading = [models |-> {}, counts |-> NoBots]
    /\ missed = {} /\ losses = 0

-----------------------------------------------------------------------------
(* The simulation and the metrics. *)

(* A bot starts, ends or changes its state. *)
BotsChange(k) ==
    /\ k[1] \in models
    /\ \E n \in 0 .. MaxCount : bots' = [bots EXCEPT ![k] = n]
    /\ UNCHANGED <<models, ring, due, fetches, read, last_sent, frames, view, arrived, history>>

(* A load or a stop: other models, none with a bot. *)
ModelsChange ==
    /\ models' \in SUBSET Models
    /\ bots' = NoBots
    /\ UNCHANGED <<ring, due, fetches, read, last_sent, frames, view, arrived, history>>

InFetches(p) == \E i \in DOMAIN fetches : \E perf \in fetches[i].perf : p \in perf
(* A snapshot that is not anywhere yet. *)
AddSnapshot(p) ==
    /\ arrived[p] = 0 /\ losses = 0
    /\ p \notin ring /\ ~InFetches(p) /\ \A u \in frames : p \notin u.perf
    /\ ModelOf[p] \in models
    /\ ring' = ring \cup {p}
    /\ UNCHANGED <<models, bots, due, fetches, read, last_sent, frames, view, arrived, history>>

-----------------------------------------------------------------------------
(* Time. *)

Aged(entry) == [entry EXCEPT !.age = Older(@)]
AllAged(known) == [k \in Keys |-> IF known[k] = Never THEN Never ELSE Aged(known[k])]

OnTheirWay == frames \cup UNION {fetches[i].state : i \in DOMAIN fetches}

(***************************************************************************)
(* A period of the synchronised interval ends.  The timer is set for the   *)
(* end of the next period before the handler runs: one that is late finds  *)
(* the periods it missed gone.                                             *)
(***************************************************************************)
TimePasses ==
    /\ \A u \in OnTheirWay : u.age < MaxDelay
    /\ due' = TRUE
    /\ read' = FALSE
    /\ fetches' = [i \in DOMAIN fetches |->
                      [fetches[i] EXCEPT !.state = {Aged(reply) : reply \in @}]]
    /\ frames' = {Aged(u) : u \in frames}
    /\ last_sent' = AllAged(last_sent)
    /\ view' = AllAged(view)
    /\ UNCHANGED <<agent, arrived, history>>

-----------------------------------------------------------------------------
(* The agent core. *)

(* send_data, from the interval: it asks the metrics manager and the simulation. *)
send_data ==
    /\ due
    /\ Len(fetches) < MaxFetches
    /\ due' = FALSE
    /\ fetches' = Append(fetches, Fetch)
    /\ UNCHANGED <<agent, read, last_sent, frames, view, arrived, history>>

(* The first fetch that has no such answer yet gets it. *)
Unanswered(i, field) ==
    /\ i \in DOMAIN fetches
    /\ fetches[i][field] = NoAnswer
    /\ \A j \in 1 .. (i - 1) : fetches[j][field] # NoAnswer

(* The rings keep what they give. *)
DrainedNothing == ring

(* FetchMetrics pops every snapshot. *)
Drained == {}

FetchActionMetrics(i) ==
    /\ Unanswered(i, "perf")
    /\ fetches' = [fetches EXCEPT ![i].perf = {ring}]
    /\ ring' = Drained
    /\ UNCHANGED <<models, bots, due, read, last_sent, frames, view, arrived, history>>

FetchSimulationStats(i) ==
    /\ ~read
    /\ Unanswered(i, "state")
    /\ fetches' = [fetches EXCEPT ![i].state = {[models |-> models, counts |-> bots, age |-> 0]}]
    /\ read' = TRUE
    /\ UNCHANGED <<agent, due, last_sent, frames, view, arrived, history>>

(* Only the states that some bot is in. *)
ReportedNow(stats) == {k \in Keys : k[1] \in stats.models /\ stats.counts[k] > 0}

(* Those, and with no bot the states that were sent before. *)
Reported(stats) ==
    {k \in Keys : k[1] \in stats.models /\ (stats.counts[k] > 0 \/ last_sent[k] # Never)}

(* Nothing is sent again. *)
ChangedOnce(k, stats) == last_sent[k] = Never \/ stats.counts[k] # last_sent[k].count

(* A count that is new, that changed, or that was sent long ago. *)
Changed(k, stats) ==
    \/ last_sent[k] = Never
    \/ stats.counts[k] # last_sent[k].count
    \/ stats.counts[k] > 0 /\ last_sent[k].age - stats.age > Refresh

(* update_simulation_stats: what is kept of the counts. *)
Kept(stats) == {k \in Reported(stats) : Changed(k, stats)}

(* ModelStateSnapshot::from, for the models read. *)
ModelStateSnapshots(stats) == [k \in Kept(stats) |-> stats.counts[k]]

(* to_protobuf, for the rings of the models read. *)
to_protobuf(perf, stats) == {p \in perf : ModelOf[p] \in stats.models}

Update(stats, perf) ==
    [age |-> stats.age, counts |-> ModelStateSnapshots(stats), perf |-> to_protobuf(perf, stats)]

Loses(lost) ==
    /\ lost => losses < MaxLosses
    /\ losses' = IF lost THEN losses + 1 ELSE losses

(***************************************************************************)
(* Both answers are there.  The counts are noted as sent before the update *)
(* is handed to the notifier, which may fail.                              *)
(***************************************************************************)
Complete(lost) ==
    /\ fetches # <<>>
    /\ \E stats \in Head(fetches).state, perf \in Head(fetches).perf :
          /\ last_sent' = [k \in Keys |->
                IF k \in Kept(stats) THEN [count |-> stats.counts[k], age |-> stats.age]
                ELSE last_sent[k]]
          /\ frames' = IF lost THEN frames ELSE frames \cup {Update(stats, perf)}
          /\ missed' = IF lost THEN missed \cup Kept(stats) ELSE missed \ Kept(stats)
          /\ reading' = [models |-> stats.models, counts |-> stats.counts]
    /\ fetches' = Tail(fetches)
    /\ Loses(lost)
    /\ UNCHANGED <<agent, due, read, view, arrived>>

-----------------------------------------------------------------------------
(* The notifier. *)

Youngest(k, known, updates) ==
    LET about == {u \in updates : k \in DOMAIN u.counts}
        u == CHOOSE u \in about : \A v \in about : u.age <= v.age IN
    IF about # {} THEN [count |-> u.counts[k], age |-> u.age] ELSE known

(***************************************************************************)
(* The notifier's send_data drains the frames.  The time the message takes *)
(* is taken before this step; it is lost where no client is registered,    *)
(* the client's mailbox is full, or the connection breaks.                 *)
(***************************************************************************)
Notify(lost) ==
    /\ frames # {}
    /\ frames' = {}
    /\ IF lost
       THEN /\ missed' = missed \cup UNION {DOMAIN u.counts : u \in frames}
            /\ UNCHANGED <<view, arrived>>
       ELSE /\ view' = [k \in Keys |-> Youngest(k, view[k], frames)]
            /\ arrived' = [p \in Snapshots |->
                  arrived[p] + Cardinality({u \in frames : p \in u.perf})]
            /\ UNCHANGED missed
    /\ Loses(lost)
    /\ UNCHANGED <<agent, due, fetches, read, last_sent, reading>>

-----------------------------------------------------------------------------
Next ==
    \/ \E k \in Keys : BotsChange(k)
    \/ ModelsChange
    \/ \E p \in Snapshots : AddSnapshot(p)
    \/ TimePasses
    \/ send_data
    \/ \E i \in DOMAIN fetches : FetchActionMetrics(i) \/ FetchSimulationStats(i)
    \/ \E lost \in BOOLEAN : Complete(lost) \/ Notify(lost)

Spec == Init /\ [][Next]_vars

(* Time passes, timers fire, actors answer, the notifier's interval comes. *)
Fairness ==
    /\ WF_vars(TimePasses)
    /\ WF_vars(send_data)
    /\ WF_vars(\E i \in DOMAIN fetches : FetchActionMetrics(i) \/ FetchSimulationStats(i))
    /\ WF_vars(Complete(FALSE) \/ Notify(FALSE))

FairSpec == Spec /\ Fairness

-----------------------------------------------------------------------------
Stats == [models : SUBSET Models, counts : [Keys -> 0 .. MaxCount], age : 0 .. MaxDelay]

(* Every variable has its type. *)
TypeOK ==
    /\ models \subseteq Models /\ bots \in [Keys -> 0 .. MaxCount] /\ ring \subseteq Snapshots
    /\ due \in BOOLEAN /\ read \in BOOLEAN
    /\ Len(fetches) <= MaxFetches
    /\ \A i \in DOMAIN fetches :
          fetches[i].perf \subseteq SUBSET Snapshots /\ fetches[i].state \subseteq Stats
    /\ last_sent \in [Keys -> Known] /\ view \in [Keys -> Known]
    /\ \A u \in frames :
          /\ u.age \in 0 .. MaxDelay
          /\ u.counts \in [DOMAIN u.counts -> 0 .. MaxCount] /\ DOMAIN u.counts \subseteq Keys
          /\ u.perf \subseteq Snapshots
    /\ missed \subseteq Keys /\ losses \in 0 .. MaxLosses

(***************************************************************************)
(* What is left out of updates can be told from the former ones: of each   *)
(* state of a model in the last reading, the youngest count that the       *)
(* controller has or will get is the one read, unless that count was lost. *)
(***************************************************************************)
DeltasAddUp ==
    \A k \in Keys :
        k[1] \in reading.models /\ k \notin missed =>
            Youngest(k, view[k], frames).count = reading.counts[k]

(* A snapshot of performance is in one place at a time, and comes once. *)
SnapshotsComeOnce ==
    \A p \in Snapshots :
        arrived[p] + Cardinality({i \in DOMAIN fetches : p \in UNION fetches[i].perf})
            + Cardinality({u \in frames : p \in u.perf}) + (IF p \in ring THEN 1 ELSE 0) <= 1

(* Count n, of a state with bots, stays. *)
Stays(k, n) == k[1] \in models /\ bots[k] = n

(***************************************************************************)
(* The number of bots in a state, if it stays and is not zero, becomes     *)
(* known to the controller for good, however updates were lost before.     *)
(***************************************************************************)
NonzeroCountsBecomeKnown ==
    \A k \in Keys, n \in 1 .. MaxCount : <>[]Stays(k, n) => <>[](view[k].count = n)
=============================================================================
