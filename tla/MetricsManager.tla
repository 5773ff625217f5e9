--------------------------- MODULE MetricsManager ---------------------------
(***************************************************************************)
(* MetricsManagerActor (agent/metrics/manager/actor.rs): a metrics storage *)
(* for each action of each bot model, made when a timer of it starts first *)
(* and kept for good.  A script starts a timer through the manager and is  *)
(* given the storage's key, the timer's instant and its number, with which *)
(* it stops it.  Reports fetch the snapshots of all storages.              *)
(*                                                                         *)
(* A message takes its way to a storage in one step with the manager's     *)
(* handler: the manager reads nothing of a storage, and the instant of a   *)
(* timer is that of the storage's handler.                                 *)
(***************************************************************************)
EXTENDS MetricsStorage

CONSTANTS
    Actions,        \* the actions that scripts time: of a model, with a name
    MaxTimers,      \* bound on the timers started
    MaxNow          \* bound on the clock

ASSUME ManagerAssumption ==
    /\ MaxTimers \in Nat /\ MaxNow \in Nat
    /\ \A timed \in Actions : timed = [model |-> timed.model, action |-> timed.action]

VARIABLES
    now,            \* SystemTime::now()
    storages,       \* the storages there are, by key
    counted,        \* history: the timers that went into a histogram
    fetched         \* history: for each storage, the last snapshot fetched

vars == <<now, storages, counted, fetched>>

(* A key without the model. *)
StorageKeyOfName(timed) == [action |-> timed.action]

(* The key has both. *)
StorageKey(timed) == [model |-> timed.model, action |-> timed.action]

Init ==
    /\ now = 0
    /\ storages = <<>>
    /\ counted = {}
    /\ fetched = <<>>

-----------------------------------------------------------------------------
Pending == UNION {storages[key].pending : key \in DOMAIN storages}

(* The storage of a key, or a new one. *)
StorageOf(key) == IF key \in DOMAIN storages THEN storages[key] ELSE NewStorage

StartActionTimer(timed) ==
    LET key == StorageKey(timed) IN
    /\ Cardinality(Pending) + Cardinality(counted) < MaxTimers
    /\ storages' = [k \in DOMAIN storages \cup {key} |->
                      IF k = key THEN StartTimer(StorageOf(key), now, timed) ELSE storages[k]]
    /\ fetched' = [k \in DOMAIN storages' |->
                      IF k \in DOMAIN fetched THEN fetched[k] ELSE -1]
    /\ UNCHANGED <<now, counted>>

(***************************************************************************)
(* A timer that is not pending any more is only logged.  Time went by      *)
(* since the timer started.  A script may stop a timer twice.              *)
(***************************************************************************)
StopActionTimer(key, timer, execution) ==
    LET stopped == SetExecution(storages[key], timer, execution).pending IN
    /\ timer.ts < now
    /\ storages' = [storages EXCEPT ![key] = StopTimer(@, now, timer, execution)]
    /\ counted' = counted \cup {t \in Stopped(stopped) : t.ts \in Settled(stopped, now)}
    /\ UNCHANGED <<now, fetched>>

(* The manager asks every storage, each of which answers at a time of its own. *)
FetchActionMetrics(key) ==
    /\ storages[key].snapshots # <<>>
    /\ fetched' = [fetched EXCEPT ![key] = storages[key].snapshots[Len(storages[key].snapshots)].timestamp]
    /\ storages' = [storages EXCEPT ![key] = FetchMetrics(@)]
    /\ UNCHANGED <<now, counted>>

TimePasses ==
    /\ now < MaxNow
    /\ now' = now + 1
    /\ UNCHANGED <<storages, counted, fetched>>

Next ==
    \/ \E timed \in Actions : StartActionTimer(timed)
    \/ \E key \in DOMAIN storages :
          \/ \E timer \in storages[key].pending, execution \in Executions :
                StopActionTimer(key, timer, execution)
          \/ FetchActionMetrics(key)
    \/ TimePasses

Spec == Init /\ [][Next]_vars

-----------------------------------------------------------------------------
Timer == [ts : 0 .. MaxNow, id : 0 .. MaxTimers, timed : Actions,
          execution : {Running} \cup {{e} : e \in Executions}]

(* Timers, the rings and the clock have their types. *)
TypeOK ==
    /\ now \in 0 .. MaxNow
    /\ counted \subseteq Timer
    /\ \A key \in DOMAIN storages :
          /\ storages[key].pending \subseteq Timer
          /\ Len(storages[key].snapshots) <= Ring
          /\ storages[key].last_snapshot \in -1 .. MaxNow
    /\ fetched \in [DOMAIN storages -> -1 .. MaxNow]

CountedOf(timed) == {t \in counted : t.timed = timed}

(***************************************************************************)
(* Whatever the order in which timers start and stop, each goes once into  *)
(* the histogram of the action that the script timed and of no other, in   *)
(* the bucket whose bounds hold its time (as `test_compute_bucket_idx'     *)
(* says of buckets).                                                       *)
(***************************************************************************)
HistogramIsExact ==
    \A key \in DOMAIN storages : storages[key].histogram = Tally(CountedOf(key))

(***************************************************************************)
(* A snapshot is final for its timestamp: it counts all the timers of its  *)
(* action started up to then that will ever count, and none that started   *)
(* later, although timers stop in any order, the ring fills up and         *)
(* snapshots are skipped.                                                  *)
(***************************************************************************)
SnapshotsAreFinal ==
    \A key \in DOMAIN storages : \A i \in DOMAIN storages[key].snapshots :
        LET snap == storages[key].snapshots[i] IN
        /\ snap.metrics = Tally({t \in CountedOf(key) : t.ts <= snap.timestamp})
        /\ \A t \in storages[key].pending : t.ts > snap.timestamp

(***************************************************************************)
(* Snapshots come in the order of time and more than the resolution apart, *)
(* also across fetches and after a full ring.                              *)
(***************************************************************************)
SnapshotsApart ==
    \A key \in DOMAIN storages :
        LET snapshots == storages[key].snapshots
            first == IF fetched[key] = -1 THEN <<>> ELSE <<fetched[key]>>
            times == first \o [i \in DOMAIN snapshots |-> snapshots[i].timestamp] IN
        \A i \in DOMAIN times : i > 1 => times[i] > times[i - 1] + Resolution
=============================================================================
