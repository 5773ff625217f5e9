--------------------------- MODULE MetricsStorage ---------------------------
(***************************************************************************)
(* MetricsStorageActor (agent/metrics/storage/actor.rs): the timers of one *)
(* action of one bot model.  A timer is known by the instant it started    *)
(* and a number among those of that instant.  Timers that stopped go into  *)
(* a cumulative histogram in the order in which they started, so that one  *)
(* that is not stopped holds up those behind it, for an hour at most.  A   *)
(* ring of snapshots of the histogram waits to be fetched for a report.    *)
(*                                                                         *)
(* The operators are about the value of a storage; MetricsManager is about *)
(* the storages of all actions.                                            *)
(***************************************************************************)
EXTENDS Integers, FiniteSets, Sequences

CONSTANTS
    Executions,     \* outcomes and times, in hundredths of a second, of actions
    Resolution,     \* HIST_MAX_RES, 5 s
    Hour,           \* the age at which a timer is given up
    Ring,           \* capacity of the ring of snapshots (60)
    LastBucket      \* the bucket without an upper bound (19)

ASSUME MetricsAssumption ==
    /\ Executions \subseteq [outcome : Int, elapsed : Nat]
    /\ Resolution \in Nat
    /\ {Hour, Ring, LastBucket} \subseteq Nat \ {0}

Outcomes == {e.outcome : e \in Executions}
Buckets == 0 .. LastBucket

(* The greatest value of each bucket but the last, 2 ^ b. *)
Bound[b \in 0 .. (LastBucket - 1)] == IF b = 0 THEN 1 ELSE 2 * Bound[b - 1]

(* compute_bucket_idx: the bits of value - 1, the last bucket for the rest. *)
compute_bucket_idx(value) ==
    IF value <= 1 THEN 0
    ELSE IF value > Bound[LastBucket - 1] THEN LastBucket
    ELSE CHOOSE b \in 1 .. (LastBucket - 1) : Bound[b - 1] < value /\ value <= Bound[b]

(* Option<ExecutionInfo>: none, or the one of a timer that stopped. *)
Running == {}
Execution(timer) == CHOOSE e \in timer.execution : TRUE

EmptyHistogram ==
    [outcome \in Outcomes |-> [buckets |-> [b \in Buckets |-> 0], sum |-> 0]]

(* MetricsStorageActor's default; a last_snapshot of -1 is None. *)
NewStorage ==
    [pending |-> {}, histogram |-> EmptyHistogram, snapshots |-> <<>>, last_snapshot |-> -1]

-----------------------------------------------------------------------------
Instants(timers) == {t.ts : t \in timers}
At(timers, ts) == {t \in timers : t.ts = ts}
Stopped(timers) == {t \in timers : t.execution # Running}

(* The instants with a timer that still may stop. *)
Incomplete(timers, now) ==
    {t.ts : t \in {u \in timers : u.execution = Running /\ u.ts + Hour > now}}

(* All complete instants, those behind an incomplete one too. *)
SettledAnyOrder(timers, now) == Instants(timers) \ Incomplete(timers, now)

(* The instants before the first incomplete one. *)
Settled(timers, now) ==
    {ts \in Instants(timers) : \A i \in Incomplete(timers, now) : ts < i}

Retain(timers, now) == {t \in timers : t.ts \notin Settled(timers, now)}

Observe(hist, timer) ==
    LET e == Execution(timer) IN
    [hist EXCEPT ![e.outcome].buckets[compute_bucket_idx(e.elapsed)] = @ + 1,
                 ![e.outcome].sum = @ + e.elapsed]

(* A snapshot of the very resolution counts as elapsed. *)
is_elapsedInclusive(last, ts) == last = -1 \/ last + Resolution <= ts

is_elapsed(last, ts) == last = -1 \/ last + Resolution < ts

(* The push that overwrites nothing and is never refused. *)
add_snapshotUnbounded(acc, ts) ==
    [acc EXCEPT !.snapshots = Append(@, [timestamp |-> ts, metrics |-> acc.histogram]),
                !.last_snapshot = ts]

(* A full ring refuses the snapshot. *)
add_snapshot(acc, ts) ==
    IF Len(acc.snapshots) = Ring THEN acc
    ELSE [acc EXCEPT
            !.snapshots = Append(@, [timestamp |-> ts, metrics |-> acc.histogram]),
            !.last_snapshot = ts]

(* The timers of an instant, which are numbered; the ones that stopped count. *)
ObserveAll(hist, timers) ==
    LET Numbered(id) == CHOOSE t \in timers : t.id = id
        after[n \in 0 .. Cardinality(timers)] ==
            IF n = 0 THEN hist
            ELSE IF Numbered(n - 1).execution = Running THEN after[n - 1]
            ELSE Observe(after[n - 1], Numbered(n - 1))
    IN  after[Cardinality(timers)]

(* What process_pending does with the timers of one settled instant. *)
ProcessInstant(timers, acc, ts) ==
    LET observed == [acc EXCEPT !.histogram = ObserveAll(@, At(timers, ts))] IN
    IF is_elapsed(acc.last_snapshot, ts) THEN add_snapshot(observed, ts) ELSE observed

(* The settled instants in the order of time. *)
process_pending(storage, now) ==
    LET settled == Settled(storage.pending, now)
        after[n \in 0 .. now + 1] ==
            IF n = 0 THEN storage
            ELSE IF n - 1 \in settled THEN ProcessInstant(storage.pending, after[n - 1], n - 1)
            ELSE after[n - 1]
    IN  [after[now + 1] EXCEPT !.pending = Retain(storage.pending, now)]

-----------------------------------------------------------------------------
(* The timer that StartTimer adds, for an action the script names. *)
EmptyTimer(storage, now, timed) ==
    [ts |-> now, id |-> Cardinality(At(storage.pending, now)),
     execution |-> Running, timed |-> timed]

StartTimer(storage, now, timed) ==
    [storage EXCEPT !.pending = @ \cup {EmptyTimer(storage, now, timed)}]

(* get_timer_mut, set_execution *)
SetExecution(storage, timer, execution) ==
    [storage EXCEPT !.pending = (@ \ {timer}) \cup {[timer EXCEPT !.execution = {execution}]}]

StopTimer(storage, now, timer, execution) ==
    process_pending(SetExecution(storage, timer, execution), now)

(* Every snapshot is popped. *)
FetchMetrics(storage) == [storage EXCEPT !.snapshots = <<>>]

-----------------------------------------------------------------------------
(* The time of all timers of a set that stopped. *)
TotalTime(timers) ==
    LET total[S \in SUBSET timers] ==
            IF S = {} THEN 0
            ELSE LET t == CHOOSE t \in S : TRUE
                 IN  Execution(t).elapsed + total[S \ {t}]
    IN  total[timers]

(* The timers whose time is within the bounds of a bucket. *)
Within(timers, b) ==
    {t \in timers : /\ b < LastBucket => Execution(t).elapsed <= Bound[b]
                    /\ b > 0 => Execution(t).elapsed > Bound[b - 1]}

(* The reference: the histogram of a set of timers that stopped. *)
Tally(timers) ==
    [outcome \in Outcomes |->
        LET mine == {t \in timers : Execution(t).outcome = outcome} IN
        [buckets |-> [b \in Buckets |-> Cardinality(Within(mine, b))],
         sum |-> TotalTime(mine)]]
=============================================================================
