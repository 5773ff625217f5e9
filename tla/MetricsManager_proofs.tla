----------------------- MODULE MetricsManager_proofs -----------------------
(***************************************************************************)
(* The theorems of MetricsManager.                                         *)
(***************************************************************************)
EXTENDS MetricsManager, OperatorLemmas, FiniteSetTheorems

(* Timers that stopped, each with an execution. *)
Ended(t) == \E e \in Executions : t.execution = {e}

AllEnded(timers) == \A t \in timers : Ended(t)

LEMMA ExecutionOfEnded ==
    ASSUME NEW t, Ended(t)
    PROVE  /\ Execution(t) \in Executions
           /\ Execution(t).elapsed \in Nat /\ Execution(t).outcome \in Outcomes
<1>1. PICK e \in Executions : t.execution = {e}
  BY DEF Ended
<1>2. Execution(t) = e
  BY <1>1 DEF Execution
<1>3. e.elapsed \in Nat /\ e.outcome \in Outcomes
  BY MetricsAssumption DEF Outcomes
<1> QED
  BY <1>2, <1>3

-----------------------------------------------------------------------------
(* Buckets. *)

LEMMA BoundDoubles ==
    /\ Bound \in [0 .. (LastBucket - 1) -> Nat]
    /\ Bound[0] = 1
    /\ \A b \in 1 .. (LastBucket - 1) : Bound[b] = 2 * Bound[b - 1]
<1> DEFINE n == LastBucket - 1
           step == [p \in Nat \X (1 .. n) |-> 2 * p[1]]
           Is(f) == f = [b \in 0 .. n |-> IF b = 0 THEN 1 ELSE 2 * f[b - 1]]
<1>1. n \in Nat /\ step \in [Nat \X (1 .. n) -> Nat]
  BY MetricsAssumption
<1>2. \A x \in Nat, i \in 1 .. n : step[<<x, i>>] = 2 * x
  OBVIOUS
<1> HIDE DEF n, step
<1>3. PICK f \in [0 .. n -> Nat] :
         \A i \in 0 .. n : f[i] = IF i = 0 THEN 1 ELSE step[<<f[i - 1], i>>]
  <2>1. \E f : LoopResults(Nat, n, 1, step, f)
    BY <1>1, LoopHasResults
  <2> QED
    BY <2>1, Zenon DEF LoopResults
<1>4. \A i \in 0 .. n : f[i] = IF i = 0 THEN 1 ELSE 2 * f[i - 1]
  <2> SUFFICES ASSUME NEW i \in 0 .. n, i # 0
               PROVE  f[i] = 2 * f[i - 1]
    BY <1>3
  <2>1. f[i - 1] \in Nat /\ i \in 1 .. n
    BY <1>1
  <2> QED
    BY <1>2, <1>3, <2>1
<1>5. Is(f)
  BY <1>4
<1>6. Is(Bound)
  <2>1. Bound = CHOOSE g : Is(g)
    BY DEF Bound, n
  <2> HIDE DEF Is
  <2> QED
    BY <1>5, <2>1
<1>7. \A i \in 0 .. n : Bound[i] = IF i = 0 THEN 1 ELSE 2 * Bound[i - 1]
  BY <1>6
<1>8. Bound = [i \in 0 .. n |-> Bound[i]]
  BY <1>6
<1> DEFINE T == {i \in 0 .. n : Bound[i] \in Nat}
<1>9. 0 \in T
  BY <1>1, <1>7
<1>10. ASSUME NEW i \in 1 .. n, i - 1 \in T PROVE i \in T
  BY <1>1, <1>7, <1>10
<1> HIDE DEF T
<1>11. \A i \in 0 .. n : i \in T
  BY <1>1, <1>9, <1>10, UpTo
<1>12. Bound \in [0 .. n -> Nat]
  BY <1>8, <1>11 DEF T
<1>13. 0 \in 0 .. n /\ \A b \in 1 .. n : b \in 0 .. n /\ b # 0
  BY <1>1
<1>14. Bound[0] = 1 /\ \A b \in 1 .. n : Bound[b] = 2 * Bound[b - 1]
  BY <1>7, <1>13
<1> QED
  BY <1>12, <1>14 DEF n

(* Larger buckets have larger bounds. *)
LEMMA BoundsGrow ==
    ASSUME NEW a \in 0 .. (LastBucket - 1), NEW b \in 0 .. (LastBucket - 1), a < b
    PROVE  Bound[a] <= Bound[b - 1] /\ Bound[a] < Bound[b] /\ Bound[a] >= 1
<1> DEFINE n == LastBucket - 1
           T == {i \in 0 .. n : Bound[i] >= 1 /\ \A c \in 0 .. i : Bound[c] <= Bound[i]}
<1>1. n \in Nat
  BY MetricsAssumption
<1>2. 0 \in T
  <2>1. 0 \in 0 .. n /\ \A c \in 0 .. 0 : c = 0
    BY <1>1
  <2>2. Bound[0] = 1
    BY BoundDoubles
  <2> QED
    BY <2>1, <2>2
<1>3. ASSUME NEW i \in 1 .. n, i - 1 \in T PROVE i \in T
  <2>1. i \in 0 .. n /\ i - 1 \in 0 .. n /\ Bound[i] = 2 * Bound[i - 1]
        /\ Bound[i] \in Nat /\ Bound[i - 1] \in Nat /\ Bound[i - 1] >= 1
    <3>1. i \in 0 .. n /\ i - 1 \in 0 .. n
      BY <1>1
    <3>2. Bound[i] = 2 * Bound[i - 1]
      BY BoundDoubles
    <3>3. Bound[i] \in Nat /\ Bound[i - 1] \in Nat
      BY <3>1, BoundDoubles
    <3>4. Bound[i - 1] >= 1
      BY <1>3
    <3> QED
      BY <3>1, <3>2, <3>3, <3>4
  <2>2. ASSUME NEW c \in 0 .. i PROVE Bound[c] <= Bound[i]
    <3>1. c \in 0 .. n /\ (c = i \/ c \in 0 .. (i - 1))
      BY <1>1
    <3>4. Bound[c] \in Nat
      BY <3>1, BoundDoubles
    <3>2. CASE c = i
      BY <2>1, <3>2
    <3>3. CASE c \in 0 .. (i - 1)
      <4>1. Bound[c] <= Bound[i - 1]
        BY <1>3, <3>3
      <4> QED
        BY <2>1, <3>4, <4>1
    <3> QED
      BY <3>1, <3>2, <3>3
  <2>3. Bound[i] >= 1
    BY <2>1
  <2> QED
    BY <2>1, <2>2, <2>3
<1> HIDE DEF T
<1>4. a \in T /\ b - 1 \in T
  BY <1>1, <1>2, <1>3, UpTo
<1>5. b - 1 \in 0 .. n /\ b \in 1 .. n /\ a \in 0 .. (b - 1)
  BY <1>1
<1>6. Bound[a] \in Nat /\ Bound[b - 1] \in Nat /\ Bound[b] = 2 * Bound[b - 1]
  BY <1>5, BoundDoubles
<1> QED
  BY <1>4, <1>5, <1>6 DEF T

(* The bucket computed is the one whose bounds hold the value. *)
LEMMA BucketHolds ==
    ASSUME NEW v \in Nat, NEW b \in Buckets
    PROVE  /\ compute_bucket_idx(v) \in Buckets
           /\ (b < LastBucket => v <= Bound[b]) /\ (b > 0 => v > Bound[b - 1])
              <=> b = compute_bucket_idx(v)
<1> DEFINE n == LastBucket - 1
           Holds(c) == (c < LastBucket => v <= Bound[c]) /\ (c > 0 => v > Bound[c - 1])
<1>1. n \in Nat /\ LastBucket = n + 1 /\ Buckets = 0 .. (n + 1)
  BY MetricsAssumption DEF Buckets
<1>2. \A c \in 0 .. n : Bound[c] \in Nat /\ Bound[c] >= 1
  <2> TAKE c \in 0 .. n
  <2>1. Bound[c] \in Nat
    BY BoundDoubles
  <2>2. CASE c = 0
    BY <2>2, BoundDoubles
  <2>3. CASE c # 0
    <3>1. 0 \in 0 .. n /\ 0 < c
      BY <1>1, <2>3
    <3> QED
      BY <2>1, <3>1, BoundsGrow, BoundDoubles
  <2> QED
    BY <2>2, <2>3
<1>3. \A c, d \in Buckets : Holds(c) /\ Holds(d) => ~ (c < d)
  <2> SUFFICES ASSUME NEW c \in Buckets, NEW d \in Buckets, Holds(c), Holds(d), c < d
               PROVE  FALSE
    OBVIOUS
  <2>1. c \in 0 .. n /\ d - 1 \in 0 .. n /\ d > 0 /\ c < LastBucket
    BY <1>1
  <2>2. v <= Bound[c] /\ v > Bound[d - 1]
    BY <2>1
  <2>3. c = d - 1 \/ c < d - 1
    BY <1>1
  <2>4. Bound[c] <= Bound[d - 1]
    BY <1>2, <2>1, <2>3, BoundsGrow
  <2> QED
    BY <1>2, <2>1, <2>2, <2>4
<1>4. Holds(compute_bucket_idx(v)) /\ compute_bucket_idx(v) \in Buckets
  <2>1. CASE v <= 1
    <3>1. compute_bucket_idx(v) = 0
      BY <2>1 DEF compute_bucket_idx
    <3>2. 0 \in 0 .. n /\ Bound[0] = 1
      BY <1>1, BoundDoubles
    <3> QED
      BY <1>1, <2>1, <3>1, <3>2
  <2>2. CASE v > 1 /\ v > Bound[n]
    <3>1. compute_bucket_idx(v) = n + 1
      BY <1>1, <2>2 DEF compute_bucket_idx
    <3> QED
      BY <1>1, <2>2, <3>1
  <2>3. CASE v > 1 /\ v <= Bound[n]
    <3> DEFINE T == {c \in 0 .. n : v <= Bound[c]}
    <3>1. T \in SUBSET Nat /\ n \in T
      BY <1>1, <2>3
    <3>2. PICK c \in T : \A d \in T : c <= d
      <4> HIDE DEF T
      <4> QED
        BY <3>1, LeastOfNaturals
    <3>3. c # 0
      BY <2>3, <3>2, BoundDoubles
    <3>4. c \in 1 .. n /\ c - 1 \in 0 .. n /\ c - 1 \notin T
      BY <1>1, <3>2, <3>3
    <3>5. v <= Bound[c] /\ Bound[c - 1] < v
      BY <1>2, <3>2, <3>4
    <3>6. compute_bucket_idx(v) = CHOOSE d \in 1 .. n : Bound[d - 1] < v /\ v <= Bound[d]
      <4>1. n \in 0 .. n
        BY <1>1
      <4>2. Bound[n] \in Nat
        BY <1>2, <4>1
      <4>3. ~ (v <= 1) /\ ~ (v > Bound[n])
        BY <2>3, <4>2
      <4> QED
        BY <4>3, Zenon DEF compute_bucket_idx
    <3> DEFINE d == compute_bucket_idx(v)
    <3>7. d \in 1 .. n /\ Bound[d - 1] < v /\ v <= Bound[d]
      BY <3>4, <3>5, <3>6
    <3> QED
      BY <1>1, <1>2, <3>7
  <2>4. v <= 1 \/ v > 1
    OBVIOUS
  <2>5. v > Bound[n] \/ v <= Bound[n]
    BY <1>1, <1>2
  <2> QED
    BY <2>1, <2>2, <2>3, <2>4, <2>5
<1>5. ASSUME Holds(b) PROVE b = compute_bucket_idx(v)
  <2> DEFINE d == compute_bucket_idx(v)
  <2>1. ~ (b < d) /\ ~ (d < b) /\ d \in Buckets
    BY <1>3, <1>4, <1>5
  <2>2. b \in Nat /\ d \in Nat
    BY <1>1, <2>1
  <2> HIDE DEF d
  <2> QED
    BY <2>1, <2>2 DEF d
<1> QED
  BY <1>4, <1>5

-----------------------------------------------------------------------------
(* The time of a set of timers. *)

(* What the recursive function of TotalTime is. *)
Totals(A, f) ==
    f = [S \in SUBSET A |->
           IF S = {} THEN 0
           ELSE LET t == CHOOSE t \in S : TRUE
                IN  Execution(t).elapsed + f[S \ {t}]]

(* Any of the members, the one that the recursion takes. *)
First(S) == CHOOSE t \in S : TRUE

LEMMA FirstIsMember ==
    ASSUME NEW S, S # {}
    PROVE  First(S) \in S
BY DEF First

(* A subset without a member is smaller. *)
LEMMA OneLess ==
    ASSUME NEW A, IsFiniteSet(A), NEW S \in SUBSET A
    PROVE  /\ IsFiniteSet(S) /\ Cardinality(S) \in Nat /\ Cardinality(S) <= Cardinality(A)
           /\ Cardinality(S) = 0 <=> S = {}
           /\ \A t \in S : Cardinality(S \ {t}) = Cardinality(S) - 1
<1>1. IsFiniteSet(S) /\ Cardinality(S) <= Cardinality(A)
  BY FS_Subset
<1> QED
  BY <1>1, FS_CardinalityType, FS_EmptySet, FS_RemoveElement

(* The recursion has a result for every finite set of timers that stopped. *)
LEMMA TotalsExist ==
    ASSUME NEW A, IsFiniteSet(A), AllEnded(A)
    PROVE  \E f \in [SUBSET A -> Nat] : Totals(A, f)
<1> DEFINE X == [SUBSET A -> Nat]
           n == Cardinality(A) + 1
           G(f) == [S \in SUBSET A |->
                      IF S = {} THEN 0 ELSE Execution(First(S)).elapsed + f[S \ {First(S)}]]
           base == [S \in SUBSET A |-> 0]
           step == [p \in X \X (1 .. n) |-> G(p[1])]
<1>1. Cardinality(A) \in Nat /\ n \in Nat /\ n \in 0 .. n /\ n # 0 /\ n - 1 \in 0 .. n
  BY FS_CardinalityType
<1>2. ASSUME NEW f \in X PROVE G(f) \in X
  <2> SUFFICES ASSUME NEW S \in SUBSET A, S # {}
               PROVE  Execution(First(S)).elapsed + f[S \ {First(S)}] \in Nat
    OBVIOUS
  <2>1. First(S) \in S /\ S \ {First(S)} \in SUBSET A
    BY FirstIsMember
  <2>2. Execution(First(S)).elapsed \in Nat
    BY <2>1, ExecutionOfEnded DEF AllEnded
  <2> QED
    BY <2>1, <2>2
<1>3. step \in [X \X (1 .. n) -> X] /\ base \in X
  BY <1>2
<1>4. \A f \in X, i \in 1 .. n : step[<<f, i>>] = G(f)
  OBVIOUS
<1> HIDE DEF step, n
<1>5. PICK g : LoopResults(X, n, base, step, g)
  <2> HIDE DEF X, base
  <2> QED
    BY <1>1, <1>3, LoopHasResults
<1>6. /\ \A i \in 0 .. n : g[i] \in X
      /\ g[0] = base
      /\ \A i \in 1 .. n : i - 1 \in 0 .. n /\ i \in 0 .. n /\ g[i] = G(g[i - 1])
  <2> HIDE DEF X, base, G
  <2>1. \A i \in 0 .. n : g[i] \in X
    BY <1>5 DEF LoopResults
  <2>2. g[0] = base
    <3>1. 0 \in 0 .. n
      BY <1>1
    <3>2. \A i \in 0 .. n : g[i] = IF i = 0 THEN base ELSE step[<<g[i - 1], i>>]
      BY <1>5 DEF LoopResults
    <3> QED
      BY <3>1, <3>2, Zenon
  <2>3. ASSUME NEW i \in 1 .. n PROVE i - 1 \in 0 .. n /\ i \in 0 .. n /\ g[i] = G(g[i - 1])
    <3>1. i - 1 \in 0 .. n /\ i \in 0 .. n /\ i # 0
      BY <1>1
    <3>2. g[i] = step[<<g[i - 1], i>>]
      BY <1>5, <3>1 DEF LoopResults
    <3> QED
      BY <1>4, <2>1, <3>1, <3>2
  <2> QED
    BY <2>1, <2>2, <2>3
<1> DEFINE T == {k \in 0 .. (n - 1) :
                   \A S \in SUBSET A : Cardinality(S) <= k => g[k + 1][S] = g[k][S]}
<1>7. 0 \in T
  <2>1. 0 \in 0 .. (n - 1) /\ 0 + 1 \in 1 .. n /\ 0 + 1 - 1 = 0
    BY <1>1
  <2>2. ASSUME NEW S \in SUBSET A, Cardinality(S) <= 0 PROVE g[0 + 1][S] = g[0][S]
    <3>1. S = {}
      BY <2>2, OneLess
    <3>2. g[0 + 1] = G(base)
      <4> HIDE DEF G, X, base
      <4>1. g[0 + 1] = G(g[0 + 1 - 1])
        BY <1>6, <2>1
      <4> QED
        BY <1>6, <2>1, <4>1
    <3>3. G(base)[S] = 0 /\ base[S] = 0
      BY <3>1
    <3> QED
      BY <1>6, <3>2, <3>3
  <2> QED
    BY <2>1, <2>2
<1>8. ASSUME NEW k \in 1 .. (n - 1), k - 1 \in T PROVE k \in T
  <2>1. k \in 1 .. n /\ k + 1 \in 1 .. n /\ k \in 0 .. (n - 1) /\ k + 1 - 1 = k /\ k - 1 + 1 = k
    BY <1>1
  <2>2. g[k + 1] = G(g[k]) /\ g[k] = G(g[k - 1])
    <3> HIDE DEF G, X, base
    <3> QED
      BY <1>6, <2>1
  <2>3. \A S \in SUBSET A : Cardinality(S) <= k - 1 => g[k][S] = g[k - 1][S]
    BY <1>8, <2>1
  <2>4. ASSUME NEW S \in SUBSET A, Cardinality(S) <= k PROVE G(g[k])[S] = G(g[k - 1])[S]
    <3>1. CASE S = {}
      BY <3>1
    <3>2. CASE S # {}
      <4> DEFINE R == S \ {First(S)}
      <4>1. R \in SUBSET A /\ Cardinality(R) = Cardinality(S) - 1 /\ Cardinality(S) \in Nat
        BY <3>2, FirstIsMember, OneLess
      <4>2. Cardinality(R) <= k - 1
        <5> HIDE DEF R
        <5> QED
          BY <2>4, <4>1
      <4>3. g[k][R] = g[k - 1][R]
        BY <2>3, <4>1, <4>2
      <4> QED
        BY <3>2, <4>3
    <3> QED
      BY <3>1, <3>2
  <2> HIDE DEF G
  <2>5. \A S \in SUBSET A : Cardinality(S) <= k => g[k + 1][S] = g[k][S]
    BY <2>2, <2>4
  <2> QED
    BY <2>1, <2>5
<1>9. n - 1 \in T
  <2> HIDE DEF T
  <2>1. n - 1 \in Nat /\ n - 1 \in 0 .. (n - 1)
    BY <1>1
  <2> QED
    BY <1>7, <1>8, <2>1, UpTo
<1> DEFINE f == g[n - 1]
<1>10. n - 1 + 1 = n /\ n - 1 = Cardinality(A) /\ n \in 1 .. n
  BY <1>1 DEF n
<1>11. \A S \in SUBSET A : g[n][S] = f[S]
  <2>1. \A S \in SUBSET A : Cardinality(S) <= n - 1
    BY <1>10, OneLess
  <2> QED
    BY <1>9, <1>10, <2>1
<1>12. f \in X /\ g[n] \in X /\ g[n] = G(f)
  <2> HIDE DEF G, X, base, T
  <2> QED
    BY <1>1, <1>6, <1>10
<1>13. f = G(f)
  <2> HIDE DEF G, f
  <2> QED
    BY <1>11, <1>12
<1>14. Totals(A, f)
  <2> HIDE DEF f
  <2> QED
    BY <1>13 DEF Totals, First
<1> QED
  BY <1>12, <1>14

(* Recursions over two sets agree on what is a subset of both. *)
LEMMA TotalsAgree ==
    ASSUME NEW A, NEW B, IsFiniteSet(A), NEW f, NEW g, Totals(A, f), Totals(B, g),
           NEW S \in SUBSET A, S \in SUBSET B
    PROVE  f[S] = g[S]
<1> DEFINE n == Cardinality(S)
           T == {k \in 0 .. n : \A R \in SUBSET S : Cardinality(R) <= k => f[R] = g[R]}
<1>1. IsFiniteSet(S) /\ n \in Nat
  BY OneLess
<1>2. ASSUME NEW R \in SUBSET S
      PROVE  /\ f[R] = IF R = {} THEN 0 ELSE Execution(First(R)).elapsed + f[R \ {First(R)}]
             /\ g[R] = IF R = {} THEN 0 ELSE Execution(First(R)).elapsed + g[R \ {First(R)}]
  <2>1. R \in SUBSET A /\ R \in SUBSET B
    OBVIOUS
  <2> QED
    BY <2>1 DEF Totals, First
<1>3. 0 \in T
  <2>1. ASSUME NEW R \in SUBSET S, Cardinality(R) <= 0 PROVE f[R] = g[R]
    <3>1. R = {}
      BY <1>1, <2>1, OneLess
    <3> QED
      BY <1>2, <3>1
  <2> QED
    BY <1>1, <2>1
<1>4. ASSUME NEW k \in 1 .. n, k - 1 \in T PROVE k \in T
  <2>1. ASSUME NEW R \in SUBSET S, Cardinality(R) <= k, R # {} PROVE f[R] = g[R]
    <3> DEFINE Q == R \ {First(R)}
    <3>1. Q \in SUBSET S /\ Cardinality(Q) = Cardinality(R) - 1 /\ Cardinality(R) \in Nat
      BY <1>1, <2>1, FirstIsMember, OneLess
    <3>2. Cardinality(Q) <= k - 1
      <4> HIDE DEF Q
      <4> QED
        BY <2>1, <3>1
    <3>3. f[Q] = g[Q]
      BY <1>4, <3>1, <3>2
    <3> QED
      BY <1>2, <2>1, <3>3
  <2>2. ASSUME NEW R \in SUBSET S, R = {} PROVE f[R] = g[R]
    BY <1>2, <2>2
  <2>3. k \in 0 .. n
    BY <1>1
  <2> QED
    BY <2>1, <2>2, <2>3
<1>5. n \in T
  <2> HIDE DEF T, n
  <2>1. n \in 0 .. n
    BY <1>1
  <2> QED
    BY <1>1, <1>3, <1>4, <2>1, UpTo
<1>6. S \in SUBSET S /\ Cardinality(S) <= n
  <2> HIDE DEF n
  <2>1. n <= n
    BY <1>1
  <2> QED
    BY <2>1 DEF n
<1> QED
  BY <1>5, <1>6

(* The time of a set, by the recursion of any finite set that it is part of. *)
LEMMA TotalTimeIs ==
    ASSUME NEW A, IsFiniteSet(A), NEW f, Totals(A, f), NEW S \in SUBSET A, AllEnded(A)
    PROVE  TotalTime(S) = f[S]
<1> DEFINE g == CHOOSE h : Totals(S, h)
<1>1. IsFiniteSet(S) /\ AllEnded(S)
  BY OneLess DEF AllEnded
<1>2. PICK h : Totals(S, h)
  BY <1>1, TotalsExist
<1>3. Totals(S, g)
  <2> HIDE DEF Totals
  <2> QED
    BY <1>2
<1>4. TotalTime(S) = g[S]
  BY DEF TotalTime, Totals
<1> HIDE DEF g
<1>5. f[S] = g[S]
  <2>1. S \in SUBSET A /\ S \in SUBSET S
    OBVIOUS
  <2> HIDE DEF Totals
  <2> QED
    BY <1>3, <2>1, TotalsAgree
<1> QED
  BY <1>4, <1>5

(* The time of a set is that of its first member and of the others. *)
LEMMA TotalOfFirst ==
    ASSUME NEW A, IsFiniteSet(A), AllEnded(A)
    PROVE  /\ TotalTime(A) \in Nat
           /\ TotalTime({}) = 0
           /\ A # {} =>
                TotalTime(A) = Execution(First(A)).elapsed + TotalTime(A \ {First(A)})
<1>1. PICK f \in [SUBSET A -> Nat] : Totals(A, f)
  BY TotalsExist
<1>2. \A S \in SUBSET A : TotalTime(S) = f[S]
  BY <1>1, TotalTimeIs
<1>3. \A S \in SUBSET A :
         f[S] = IF S = {} THEN 0 ELSE Execution(First(S)).elapsed + f[S \ {First(S)}]
  BY <1>1 DEF Totals, First
<1>4. A \in SUBSET A /\ {} \in SUBSET A /\ A \ {First(A)} \in SUBSET A
  OBVIOUS
<1>5. TotalTime(A) = f[A] /\ TotalTime({}) = f[{}]
      /\ TotalTime(A \ {First(A)}) = f[A \ {First(A)}] /\ f[A] \in Nat
  BY <1>1, <1>2, <1>4
<1>6. f[{}] = 0 /\ (A # {} => f[A] = Execution(First(A)).elapsed + f[A \ {First(A)}])
  BY <1>3, <1>4
<1> QED
  BY <1>5, <1>6

(* And that of any member and of the others. *)
LEMMA TotalOfAny ==
    ASSUME NEW A, IsFiniteSet(A), AllEnded(A), NEW t \in A
    PROVE  TotalTime(A) = Execution(t).elapsed + TotalTime(A \ {t})
<1> DEFINE n == Cardinality(A)
           T == {k \in 0 .. n : \A S \in SUBSET A : Cardinality(S) <= k =>
                    \A u \in S : TotalTime(S) = Execution(u).elapsed + TotalTime(S \ {u})}
<1>1. n \in Nat
  BY OneLess
<1>2. ASSUME NEW S \in SUBSET A PROVE IsFiniteSet(S) /\ AllEnded(S) /\ TotalTime(S) \in Nat
  BY OneLess, TotalOfFirst DEF AllEnded
<1>3. 0 \in T
  <2>1. ASSUME NEW S \in SUBSET A, Cardinality(S) <= 0 PROVE S = {}
    BY <2>1, OneLess
  <2> QED
    BY <1>1, <2>1
<1>4. ASSUME NEW k \in 1 .. n, k - 1 \in T PROVE k \in T
  <2>1. ASSUME NEW S \in SUBSET A, Cardinality(S) <= k, NEW u \in S
        PROVE  TotalTime(S) = Execution(u).elapsed + TotalTime(S \ {u})
    <3> DEFINE p == First(S)
               R == S \ {p}
               Q == S \ {u}
               N == R \ {u}
    <3>1. p \in S /\ R \in SUBSET A /\ Q \in SUBSET A /\ N = Q \ {p} /\ N \in SUBSET A
      BY FirstIsMember
    <3>2. TotalTime(S) = Execution(p).elapsed + TotalTime(R)
      BY <1>2, TotalOfFirst
    <3>3. CASE u = p
      BY <3>2, <3>3
    <3>4. CASE u # p
      <4>1. u \in R /\ p \in Q
        BY <3>1, <3>4
      <4>2. Cardinality(R) = Cardinality(S) - 1 /\ Cardinality(Q) = Cardinality(S) - 1
            /\ Cardinality(S) \in Nat
        BY <3>1, OneLess
      <4> HIDE DEF p, R, Q, N
      <4>3. Cardinality(R) <= k - 1 /\ Cardinality(Q) <= k - 1
        BY <2>1, <4>2
      <4>4. TotalTime(R) = Execution(u).elapsed + TotalTime(N)
        BY <1>4, <3>1, <4>1, <4>3 DEF N
      <4>5. TotalTime(Q) = Execution(p).elapsed + TotalTime(N)
        BY <1>4, <3>1, <4>1, <4>3
      <4>6. TotalTime(N) \in Nat /\ Execution(u).elapsed \in Nat /\ Execution(p).elapsed \in Nat
        <5>1. Ended(u) /\ Ended(p)
          BY <3>1 DEF AllEnded
        <5> QED
          BY <1>2, <3>1, <5>1, ExecutionOfEnded
      <4>7. TotalTime(S) = Execution(u).elapsed + TotalTime(Q)
        BY <3>2, <4>4, <4>5, <4>6
      <4> QED
        BY <4>7 DEF Q
    <3> QED
      BY <3>3, <3>4
  <2>2. k \in 0 .. n
    BY <1>1
  <2> QED
    BY <2>1, <2>2
<1>5. n \in T
  <2> HIDE DEF T, n
  <2>1. n \in 0 .. n
    BY <1>1
  <2> QED
    BY <1>1, <1>3, <1>4, <2>1, UpTo
<1>6. A \in SUBSET A /\ Cardinality(A) <= n
  <2> HIDE DEF n
  <2>1. n <= n
    BY <1>1
  <2> QED
    BY <2>1 DEF n
<1> QED
  BY <1>5, <1>6

(* One more timer adds its time. *)
LEMMA TotalOfOneMore ==
    ASSUME NEW A, IsFiniteSet(A), AllEnded(A), NEW t, Ended(t), t \notin A
    PROVE  /\ TotalTime(A \cup {t}) = TotalTime(A) + Execution(t).elapsed
           /\ TotalTime(A) \in Nat
<1>1. IsFiniteSet(A \cup {t}) /\ AllEnded(A \cup {t}) /\ t \in A \cup {t}
      /\ (A \cup {t}) \ {t} = A
  BY FS_AddElement DEF AllEnded
<1>2. TotalTime(A \cup {t}) = Execution(t).elapsed + TotalTime(A)
  BY <1>1, TotalOfAny
<1>3. TotalTime(A) \in Nat /\ Execution(t).elapsed \in Nat
  BY TotalOfFirst, ExecutionOfEnded
<1> QED
  BY <1>2, <1>3

-----------------------------------------------------------------------------
(* Histograms. *)

OutcomeHistogram == [buckets : [Buckets -> Nat], sum : Nat]
Histograms == [Outcomes -> OutcomeHistogram]

Mine(timers, outcome) == {t \in timers : Execution(t).outcome = outcome}

(* Tally's histogram of an outcome. *)
TallyOf(timers) ==
    [buckets |-> [b \in Buckets |-> Cardinality(Within(timers, b))],
     sum |-> TotalTime(timers)]

LEMMA TallyByOutcome ==
    ASSUME NEW A, IsFiniteSet(A), AllEnded(A)
    PROVE  /\ Tally(A) \in Histograms
           /\ \A o \in Outcomes : Tally(A)[o] = TallyOf(Mine(A, o))
<1>1. Tally(A) = [o \in Outcomes |-> TallyOf(Mine(A, o))]
  BY DEF Tally, TallyOf, Mine
<1>2. ASSUME NEW o \in Outcomes PROVE TallyOf(Mine(A, o)) \in OutcomeHistogram
  <2> DEFINE M == Mine(A, o)
  <2>1. M \in SUBSET A
    BY DEF Mine
  <2>2. IsFiniteSet(M) /\ AllEnded(M)
    BY <2>1, OneLess DEF AllEnded
  <2>3. \A b \in Buckets : Cardinality(Within(M, b)) \in Nat
    <3> TAKE b \in Buckets
    <3>1. Within(M, b) \in SUBSET M
      BY DEF Within
    <3> QED
      BY <2>2, <3>1, OneLess
  <2>4. TotalTime(M) \in Nat
    BY <2>2, TotalOfFirst
  <2> QED
    BY <2>3, <2>4 DEF TallyOf, OutcomeHistogram
<1> QED
  BY <1>1, <1>2 DEF Histograms

(* An empty histogram is that of no timers. *)
LEMMA EmptyTally == EmptyHistogram = Tally({}) /\ EmptyHistogram \in Histograms
<1>1. \A o \in Outcomes : Mine({}, o) = {}
  BY DEF Mine
<1>2. IsFiniteSet({}) /\ AllEnded({})
  BY FS_EmptySet DEF AllEnded
<1>3. \A b \in Buckets : Cardinality(Within({}, b)) = 0
  BY FS_EmptySet DEF Within
<1>4. TallyOf({}) = [buckets |-> [b \in Buckets |-> 0], sum |-> 0]
  BY <1>2, <1>3, TotalOfFirst DEF TallyOf
<1>5. Tally({}) = [o \in Outcomes |-> TallyOf(Mine({}, o))]
  BY DEF Tally, TallyOf, Mine
<1> QED
  BY <1>1, <1>2, <1>4, <1>5, TallyByOutcome DEF EmptyHistogram

(* One more timer of an outcome counts in its bucket, and its time. *)
LEMMA TallyOfOneMore ==
    ASSUME NEW M, IsFiniteSet(M), AllEnded(M), NEW t, Ended(t), t \notin M
    PROVE  LET bucket == compute_bucket_idx(Execution(t).elapsed)
               h == TallyOf(M)
           IN  /\ bucket \in Buckets
               /\ TallyOf(M \cup {t}) =
                    [buckets |-> [b \in Buckets |->
                                    IF b = bucket THEN h.buckets[b] + 1 ELSE h.buckets[b]],
                     sum |-> h.sum + Execution(t).elapsed]
<1> DEFINE elapsed == Execution(t).elapsed
           bucket == compute_bucket_idx(elapsed)
<1>1. elapsed \in Nat
  BY ExecutionOfEnded
<1>2. bucket \in Buckets
  <2>1. 0 \in Buckets
    BY MetricsAssumption DEF Buckets
  <2> QED
    BY <1>1, <2>1, BucketHolds
<1>3. ASSUME NEW b \in Buckets
      PROVE  Cardinality(Within(M \cup {t}, b)) =
               IF b = bucket THEN Cardinality(Within(M, b)) + 1 ELSE Cardinality(Within(M, b))
  <2>1. IsFiniteSet(Within(M, b)) /\ t \notin Within(M, b)
    <3>1. Within(M, b) \in SUBSET M
      BY DEF Within
    <3> QED
      BY <3>1, OneLess
  <2>2. (b < LastBucket => elapsed <= Bound[b]) /\ (b > 0 => elapsed > Bound[b - 1])
          <=> b = bucket
    BY <1>1, BucketHolds
  <2>3. CASE b = bucket
    <3>1. Within(M \cup {t}, b) = Within(M, b) \cup {t}
      BY <2>2, <2>3 DEF Within
    <3>2. Cardinality(Within(M, b) \cup {t}) = Cardinality(Within(M, b)) + 1
      BY <2>1, FS_AddElement
    <3> QED
      BY <2>3, <3>1, <3>2, Zenon
  <2>4. CASE b # bucket
    <3>1. Within(M \cup {t}, b) = Within(M, b)
      BY <2>2, <2>4 DEF Within
    <3> QED
      BY <2>4, <3>1
  <2> QED
    BY <2>3, <2>4
<1>4. TotalTime(M \cup {t}) = TotalTime(M) + elapsed
  BY TotalOfOneMore
<1>5. /\ \A b \in Buckets : TallyOf(M).buckets[b] = Cardinality(Within(M, b))
      /\ TallyOf(M).sum = TotalTime(M)
  BY DEF TallyOf
<1> HIDE DEF elapsed, bucket
<1>6. TallyOf(M \cup {t}) =
        [buckets |-> [b \in Buckets |-> Cardinality(Within(M \cup {t}, b))],
         sum |-> TotalTime(M \cup {t})]
  BY DEF TallyOf
<1>7. [b \in Buckets |-> Cardinality(Within(M \cup {t}, b))] =
        [b \in Buckets |-> IF b = bucket THEN TallyOf(M).buckets[b] + 1 ELSE TallyOf(M).buckets[b]]
  BY <1>3, <1>5
<1> QED
  BY <1>2, <1>4, <1>5, <1>6, <1>7 DEF bucket, elapsed

(* What is observed goes into the histogram of its outcome. *)
LEMMA ObserveTallies ==
    ASSUME NEW C, IsFiniteSet(C), AllEnded(C), NEW t, Ended(t), t \notin C
    PROVE  Observe(Tally(C), t) = Tally(C \cup {t})
<1> DEFINE e == Execution(t)
           out == e.outcome
           bucket == compute_bucket_idx(e.elapsed)
           H == Tally(C)
           D == C \cup {t}
<1>1. out \in Outcomes /\ e.elapsed \in Nat
  BY ExecutionOfEnded
<1>2. IsFiniteSet(D) /\ AllEnded(D)
  BY FS_AddElement DEF AllEnded
<1>3. H \in Histograms /\ Tally(D) \in Histograms
      /\ \A o \in Outcomes : H[o] = TallyOf(Mine(C, o)) /\ Tally(D)[o] = TallyOf(Mine(D, o))
  BY <1>2, TallyByOutcome
<1>4. \A o \in Outcomes : Mine(D, o) = IF o = out THEN Mine(C, o) \cup {t} ELSE Mine(C, o)
  BY DEF Mine
<1>5. IsFiniteSet(Mine(C, out)) /\ AllEnded(Mine(C, out)) /\ t \notin Mine(C, out)
  <2>1. Mine(C, out) \in SUBSET C
    BY DEF Mine
  <2> QED
    BY <2>1, OneLess DEF AllEnded
<1> DEFINE more == [buckets |-> [b \in Buckets |->
                                   IF b = bucket THEN H[out].buckets[b] + 1 ELSE H[out].buckets[b]],
                    sum |-> H[out].sum + e.elapsed]
<1>6. bucket \in Buckets /\ TallyOf(Mine(C, out) \cup {t}) = more
  <2> DEFINE M == Mine(C, out)
  <2>1. H[out] = TallyOf(M)
    BY <1>1, <1>3
  <2>2. /\ bucket \in Buckets
        /\ TallyOf(M \cup {t}) =
             [buckets |-> [b \in Buckets |-> IF b = bucket THEN TallyOf(M).buckets[b] + 1
                                             ELSE TallyOf(M).buckets[b]],
              sum |-> TallyOf(M).sum + e.elapsed]
    <3> HIDE DEF M
    <3> QED
      BY <1>5, TallyOfOneMore DEF M
  <2> HIDE DEF M, H, out, bucket, e
  <2> QED
    BY <2>1, <2>2 DEF M
<1>7. H[out] \in OutcomeHistogram
  BY <1>1, <1>3 DEF Histograms
<1>8. Observe(H, t) = [H EXCEPT ![out].buckets[bucket] = @ + 1, ![out].sum = @ + e.elapsed]
  BY DEF Observe
<1> HIDE DEF H, D, e, out, bucket
<1>9. Observe(H, t) = [o \in Outcomes |-> IF o = out THEN more ELSE H[o]]
  <2>1. H[out].buckets \in [Buckets -> Nat] /\ H[out].sum \in Nat
    BY <1>7 DEF OutcomeHistogram
  <2> DEFINE counts == [H[out].buckets EXCEPT ![bucket] = H[out].buckets[bucket] + 1]
             G == [H EXCEPT ![out].buckets[bucket] = @ + 1]
  <2>2. counts = [b \in Buckets |-> IF b = bucket THEN H[out].buckets[b] + 1
                                    ELSE H[out].buckets[b]]
    BY <2>1
  <2>3. [H[out] EXCEPT !.buckets = counts] = [buckets |-> counts, sum |-> H[out].sum]
    <3> HIDE DEF counts
    <3> QED
      BY <1>7 DEF OutcomeHistogram
  <2>4. G = [H EXCEPT ![out] = [H[out] EXCEPT !.buckets = counts]]
    OBVIOUS
  <2>5. /\ G = [o \in Outcomes |-> IF o = out THEN [buckets |-> counts, sum |-> H[out].sum]
                                   ELSE H[o]]
    <3> HIDE DEF G, counts
    <3>1. H = [o \in Outcomes |-> H[o]]
      BY <1>3 DEF Histograms
    <3> QED
      BY <2>3, <2>4, <3>1
  <2>6. Observe(H, t) = [G EXCEPT ![out].sum = @ + e.elapsed]
    BY <1>8
  <2> HIDE DEF G, counts
  <2>7. G[out] = [buckets |-> counts, sum |-> H[out].sum]
    BY <1>1, <2>5
  <2>8. Observe(H, t) = [G EXCEPT ![out] = [G[out] EXCEPT !.sum = G[out].sum + e.elapsed]]
    BY <2>6
  <2>9. [G[out] EXCEPT !.sum = G[out].sum + e.elapsed] =
          [buckets |-> counts, sum |-> H[out].sum + e.elapsed]
    BY <2>7
  <2>10. more = [buckets |-> counts, sum |-> H[out].sum + e.elapsed]
    BY <2>2
  <2> HIDE DEF more
  <2> QED
    BY <2>5, <2>8, <2>9, <2>10
<1>10. Tally(D) = [o \in Outcomes |-> Tally(D)[o]]
  BY <1>3 DEF Histograms
<1>11. \A o \in Outcomes : Tally(D)[o] = IF o = out THEN more ELSE H[o]
  <2> HIDE DEF more
  <2> QED
    BY <1>3, <1>4, <1>6
<1>12. Observe(H, t) = Tally(D)
  <2> HIDE DEF more
  <2> QED
    BY <1>9, <1>10, <1>11
<1> QED
  BY <1>12 DEF H, D

-----------------------------------------------------------------------------
(* One settled instant. *)

(* The timers of an instant: numbered from 0 on. *)
NumberedUp(timers) ==
    /\ IsFiniteSet(timers)
    /\ \A t \in timers : t.id \in 0 .. (Cardinality(timers) - 1)
    /\ \A t, u \in timers : t.id = u.id => t = u
    /\ \A n \in 0 .. (Cardinality(timers) - 1) : \E t \in timers : t.id = n

(* The timers that stopped of an instant go into the histogram. *)
LEMMA ObserveAllTallies ==
    ASSUME NEW C, IsFiniteSet(C), AllEnded(C),
           NEW T, NumberedUp(T), AllEnded(Stopped(T)), T \cap C = {}
    PROVE  ObserveAll(Tally(C), T) = Tally(C \cup Stopped(T))
<1> DEFINE n == Cardinality(T)
           Num(id) == CHOOSE t \in T : t.id = id
           D(i) == C \cup {t \in Stopped(T) : t.id < i}
           Is(f) == f = [i \in 0 .. n |->
                           IF i = 0 THEN Tally(C)
                           ELSE IF Num(i - 1).execution = Running THEN f[i - 1]
                                ELSE Observe(f[i - 1], Num(i - 1))]
           after == CHOOSE f : Is(f)
           tallies == [i \in 0 .. n |-> Tally(D(i))]
<1>1. n \in Nat /\ \A t \in T : t.id \in Nat /\ t.id < n
  <2>1. IsFiniteSet(T) /\ n \in Nat
    BY FS_CardinalityType DEF NumberedUp
  <2>2. \A t \in T : t.id \in 0 .. (n - 1)
    BY DEF NumberedUp
  <2> HIDE DEF n
  <2> QED
    BY <2>1, <2>2
<1>2. D(0) = C
  BY <1>1 DEF Stopped
<1>3. D(n) = C \cup Stopped(T)
  BY <1>1 DEF Stopped
<1>4. ASSUME NEW i \in 1 .. n
      PROVE  /\ Num(i - 1) \in T /\ Num(i - 1).id = i - 1
             /\ Tally(D(i)) = IF Num(i - 1).execution = Running THEN Tally(D(i - 1))
                              ELSE Observe(Tally(D(i - 1)), Num(i - 1))
  <2> DEFINE u == Num(i - 1)
  <2>1. i - 1 \in 0 .. (Cardinality(T) - 1)
    BY <1>1
  <2>2. u \in T /\ u.id = i - 1
    BY <2>1 DEF NumberedUp
  <2> HIDE DEF u
  <2>3. \A t \in T : t.id < i <=> t.id < i - 1 \/ t = u
    <3>1. \A t \in T : t.id = i - 1 <=> t = u
      BY <2>2 DEF NumberedUp
    <3> QED
      BY <1>1, <3>1
  <2>4. CASE u.execution = Running
    <3>1. D(i) = D(i - 1)
      BY <2>3, <2>4 DEF Stopped
    <3> QED
      BY <2>2, <2>4, <3>1 DEF u
  <2>5. CASE u.execution # Running
    <3>1. D(i) = D(i - 1) \cup {u}
      BY <2>2, <2>3, <2>5 DEF Stopped
    <3>2. Ended(u) /\ u \notin D(i - 1)
      <4>1. u \in Stopped(T) /\ u \notin C /\ ~ (u.id < i - 1)
        BY <1>1, <2>2, <2>5 DEF Stopped
      <4> QED
        BY <4>1 DEF AllEnded
    <3>3. IsFiniteSet(D(i - 1)) /\ AllEnded(D(i - 1))
      <4>1. {t \in Stopped(T) : t.id < i - 1} \in SUBSET T
        BY DEF Stopped
      <4>2. IsFiniteSet({t \in Stopped(T) : t.id < i - 1})
        BY <4>1, OneLess DEF NumberedUp
      <4> QED
        BY <4>2, FS_Union DEF AllEnded
    <3>4. Observe(Tally(D(i - 1)), u) = Tally(D(i - 1) \cup {u})
      <4> HIDE DEF D
      <4> QED
        BY <3>2, <3>3, ObserveTallies
    <3> QED
      BY <2>2, <2>5, <3>1, <3>4 DEF u
  <2> QED
    BY <2>4, <2>5
<1> HIDE DEF D, Num
<1>5. Is(tallies)
  <2> HIDE DEF n
  <2>1. ASSUME NEW i \in 0 .. n
        PROVE  Tally(D(i)) = IF i = 0 THEN Tally(C)
                             ELSE IF Num(i - 1).execution = Running THEN tallies[i - 1]
                                  ELSE Observe(tallies[i - 1], Num(i - 1))
    <3>1. CASE i = 0
      BY <1>2, <3>1
    <3>2. CASE i # 0
      <4>1. i \in 1 .. n /\ i - 1 \in 0 .. n
        BY <1>1, <3>2
      <4>2. tallies[i - 1] = Tally(D(i - 1))
        BY <4>1
      <4> QED
        BY <1>4, <3>2, <4>1, <4>2
    <3> QED
      BY <3>1, <3>2
  <2> QED
    BY <2>1
<1>6. Is(after)
  <2> HIDE DEF Is, tallies
  <2> QED
    BY <1>5
<1>7. ObserveAll(Tally(C), T) = after[n]
  BY DEF ObserveAll, Num
<1> HIDE DEF after, n
<1>8. \A i \in 0 .. n : after[i] = IF i = 0 THEN Tally(C)
                                  ELSE IF Num(i - 1).execution = Running THEN after[i - 1]
                                       ELSE Observe(after[i - 1], Num(i - 1))
  BY <1>6
<1> DEFINE K == {i \in 0 .. n : after[i] = Tally(D(i))}
<1>9. 0 \in K
  BY <1>1, <1>2, <1>8
<1>10. ASSUME NEW i \in 1 .. n, i - 1 \in K PROVE i \in K
  <2>1. i \in 0 .. n /\ i # 0 /\ after[i - 1] = Tally(D(i - 1))
    BY <1>1, <1>10
  <2> QED
    BY <1>4, <1>8, <2>1
<1> HIDE DEF K
<1>11. n \in K
  <2>1. n \in 0 .. n
    BY <1>1
  <2> QED
    BY <1>1, <1>9, <1>10, <2>1, UpTo
<1> QED
  BY <1>3, <1>7, <1>11 DEF K

-----------------------------------------------------------------------------
(* The records of a storage. *)

Snapshot == [timestamp : Nat, metrics : Histograms]

Storage == [pending : SUBSET Timer, histogram : Histograms, snapshots : Seq(Snapshot),
            last_snapshot : Int]

(* The timers that started up to an instant. *)
UpToInstant(timers, ts) == {t \in timers : t.ts <= ts}

(***************************************************************************)
(* The histogram is that of the timers `counted'; the snapshots are final  *)
(* and apart, from each other and from the last one fetched.               *)
(***************************************************************************)
SnapshotsRecorded(snapshots, last, C, f) ==
    /\ Len(snapshots) <= Ring
    /\ last = IF Len(snapshots) = 0 THEN f ELSE snapshots[Len(snapshots)].timestamp
    /\ \A i \in 1 .. Len(snapshots) :
          /\ snapshots[i].timestamp <= last
          /\ snapshots[i].metrics = Tally(UpToInstant(C, snapshots[i].timestamp))
    /\ \A i \in 2 .. Len(snapshots) :
          snapshots[i].timestamp > snapshots[i - 1].timestamp + Resolution
    /\ Len(snapshots) > 0 /\ f # -1 => snapshots[1].timestamp > f + Resolution

Recorded(acc, C, f) ==
    /\ acc \in Storage
    /\ acc.histogram = Tally(C)
    /\ SnapshotsRecorded(acc.snapshots, acc.last_snapshot, C, f)

(* Timers that started later change nothing in the snapshots. *)
LEMMA LaterTimersRecorded ==
    ASSUME NEW s \in Seq(Snapshot), NEW last \in Int, NEW C, NEW E, NEW f,
           SnapshotsRecorded(s, last, C, f), C \subseteq E, E \subseteq Timer,
           \A t \in E \ C : t.ts > last
    PROVE  SnapshotsRecorded(s, last, E, f)
<1>1. ASSUME NEW i \in 1 .. Len(s)
      PROVE  UpToInstant(E, s[i].timestamp) = UpToInstant(C, s[i].timestamp)
  <2>1. s[i].timestamp \in Int /\ s[i].timestamp <= last
    <3>1. s[i] \in Snapshot
      OBVIOUS
    <3>2. s[i].timestamp \in Int
      BY <3>1 DEF Snapshot
    <3>3. s[i].timestamp <= last
      BY DEF SnapshotsRecorded
    <3> QED
      BY <3>2, <3>3
  <2>2. \A t \in E : t.ts \in Int
    BY DEF Timer
  <2>3. \A t \in E \ C : ~ (t.ts <= s[i].timestamp)
    BY <2>1, <2>2
  <2> QED
    BY <2>3 DEF UpToInstant
<1> QED
  BY <1>1 DEF SnapshotsRecorded

(* A snapshot of all timers, taken after the resolution. *)
LEMMA SnapshotAdded ==
    ASSUME NEW s \in Seq(Snapshot), NEW last \in Int, NEW E, NEW f \in Int,
           SnapshotsRecorded(s, last, E, f), NEW ts \in Nat, last < ts,
           is_elapsed(last, ts), Len(s) # Ring, Tally(E) \in Histograms,
           \A t \in E : t.ts <= ts
    PROVE  LET more == Append(s, [timestamp |-> ts, metrics |-> Tally(E)]) IN
           more \in Seq(Snapshot) /\ SnapshotsRecorded(more, ts, E, f)
<1> DEFINE snap == [timestamp |-> ts, metrics |-> Tally(E)]
           more == Append(s, snap)
           n == Len(s)
<1>1. snap \in Snapshot /\ snap.timestamp = ts /\ snap.metrics = Tally(E)
  BY DEF Snapshot
<1>2. UpToInstant(E, ts) = E
  BY DEF UpToInstant
<1> HIDE DEF snap
<1>3. /\ more \in Seq(Snapshot) /\ n \in Nat /\ Len(more) = n + 1
      /\ more[n + 1] = snap
      /\ \A i \in 1 .. n : more[i] = s[i] /\ s[i].timestamp \in Nat
  <2>1. more \in Seq(Snapshot) /\ n \in Nat /\ Len(more) = n + 1 /\ more[n + 1] = snap
    BY <1>1
  <2>2. ASSUME NEW i \in 1 .. n PROVE more[i] = s[i] /\ s[i] \in Snapshot
    BY <1>1
  <2>3. \A x \in Snapshot : x.timestamp \in Nat
    BY DEF Snapshot
  <2> HIDE DEF more, n
  <2> QED
    BY <2>1, <2>2, <2>3
<1>4. Resolution \in Nat /\ Ring \in Nat
  BY MetricsAssumption
<1>5. /\ n <= Ring /\ n # Ring
      /\ last = IF n = 0 THEN f ELSE s[n].timestamp
      /\ \A i \in 1 .. n : s[i].timestamp <= last
                           /\ s[i].metrics = Tally(UpToInstant(E, s[i].timestamp))
      /\ \A i \in 2 .. n : s[i].timestamp > s[i - 1].timestamp + Resolution
      /\ n > 0 /\ f # -1 => s[1].timestamp > f + Resolution
  BY DEF SnapshotsRecorded
<1> HIDE DEF more, n
<1>6. last = -1 \/ last + Resolution < ts
  BY DEF is_elapsed
<1>7. n + 1 <= Ring
  BY <1>3, <1>4, <1>5
<1>8. \A i \in 1 .. (n + 1) : i = n + 1 \/ i \in 1 .. n
  BY <1>3
<1>9. ASSUME NEW i \in 1 .. (n + 1)
      PROVE  /\ more[i].timestamp <= ts
             /\ more[i].metrics = Tally(UpToInstant(E, more[i].timestamp))
  <2>1. CASE i = n + 1
    BY <1>1, <1>2, <1>3, <2>1
  <2>2. CASE i \in 1 .. n
    <3>1. more[i] = s[i] /\ s[i].timestamp \in Nat /\ s[i].timestamp <= last
          /\ s[i].metrics = Tally(UpToInstant(E, s[i].timestamp))
      BY <1>3, <1>5, <2>2
    <3>2. s[i].timestamp <= ts
      BY <3>1
    <3> QED
      BY <3>1, <3>2
  <2> QED
    BY <1>8, <2>1, <2>2
<1>10. ASSUME NEW i \in 2 .. (n + 1)
       PROVE  more[i].timestamp > more[i - 1].timestamp + Resolution
  <2>1. CASE i = n + 1
    <3>1. n \in 1 .. n /\ n # 0 /\ i - 1 = n
      BY <1>3, <2>1
    <3>2. last = s[n].timestamp /\ s[n].timestamp \in Nat /\ more[n] = s[n]
      BY <1>3, <1>5, <3>1
    <3>3. s[n].timestamp + Resolution < ts
      BY <1>6, <3>2
    <3> QED
      BY <1>1, <1>3, <1>4, <2>1, <3>1, <3>2, <3>3
  <2>2. CASE i \in 1 .. n
    <3>1. i - 1 \in 1 .. n /\ i \in 2 .. n
      BY <1>3, <2>2
    <3> QED
      BY <1>3, <1>5, <2>2, <3>1
  <2>3. i = n + 1 \/ i \in 1 .. n
    BY <1>3
  <2> QED
    BY <2>1, <2>2, <2>3
<1>11. f # -1 => more[1].timestamp > f + Resolution
  <2>1. CASE n = 0
    <3>1. more[1] = snap
      BY <1>3, <2>1
    <3>2. last = f
      BY <1>5, <2>1
    <3> QED
      BY <1>1, <1>4, <1>6, <3>1, <3>2
  <2>2. CASE n # 0
    <3>1. 1 \in 1 .. n /\ n > 0
      BY <1>3, <2>2
    <3> QED
      BY <1>3, <1>5, <3>1
  <2> QED
    BY <2>1, <2>2
<1>12. Len(more) # 0 /\ more[Len(more)].timestamp = ts
  BY <1>1, <1>3
<1>13. SnapshotsRecorded(more, ts, E, f)
  <2> DEFINE len == Len(more)
  <2>1. len <= Ring /\ len # 0 /\ more[len].timestamp = ts /\ len = n + 1
    BY <1>3, <1>7, <1>12
  <2> HIDE DEF len
  <2> QED
    BY <2>1, <1>9, <1>10, <1>11 DEF len, SnapshotsRecorded
<1> QED
  BY <1>3, <1>13 DEF more, snap

(* The timers of a settled instant, later than all before, are recorded. *)
LEMMA InstantRecorded ==
    ASSUME NEW P \in SUBSET Timer, NEW D \in SUBSET Timer, NEW f \in Int, NEW acc,
           NEW ts \in Nat, Recorded(acc, D, f), IsFiniteSet(D), AllEnded(D),
           NumberedUp(At(P, ts)), AllEnded(Stopped(P)),
           \A t \in D : t.ts < ts, acc.last_snapshot < ts
    PROVE  LET next == ProcessInstant(P, acc, ts)
               E == D \cup Stopped(At(P, ts))
           IN  /\ Recorded(next, E, f)
               /\ IsFiniteSet(E) /\ AllEnded(E)
               /\ next.pending = acc.pending
               /\ next.last_snapshot = acc.last_snapshot \/ next.last_snapshot = ts
<1> DEFINE T == At(P, ts)
           E == D \cup Stopped(T)
           next == ProcessInstant(P, acc, ts)
           observed == [acc EXCEPT !.histogram = Tally(E)]
<1>1. T \subseteq P /\ Stopped(T) \subseteq T /\ (\A t \in T : t.ts = ts) /\ E \subseteq Timer
  BY DEF At, Stopped
<1>2. IsFiniteSet(E) /\ AllEnded(E) /\ AllEnded(Stopped(T))
  <2>1. IsFiniteSet(Stopped(T))
    <3>1. Stopped(T) \in SUBSET T
      BY <1>1
    <3> QED
      BY <3>1, OneLess DEF NumberedUp
  <2>2. AllEnded(Stopped(T))
    BY <1>1 DEF AllEnded, Stopped
  <2> QED
    BY <2>1, <2>2, FS_Union DEF AllEnded
<1>3. ObserveAll(Tally(D), T) = Tally(E)
  <2>1. T \cap D = {}
    BY <1>1
  <2> QED
    BY <1>2, <2>1, ObserveAllTallies
<1>4. Tally(E) \in Histograms
  BY <1>2, TallyByOutcome
<1>5. /\ acc \in Storage /\ acc.histogram = Tally(D)
      /\ acc.snapshots \in Seq(Snapshot) /\ acc.last_snapshot \in Int
      /\ SnapshotsRecorded(acc.snapshots, acc.last_snapshot, D, f)
  BY DEF Recorded, Storage
<1>6. SnapshotsRecorded(acc.snapshots, acc.last_snapshot, E, f)
  <2>1. D \subseteq E /\ \A t \in E \ D : t.ts > acc.last_snapshot
    BY <1>1
  <2> HIDE DEF E
  <2> QED
    BY <1>1, <1>5, <2>1, LaterTimersRecorded
<1>7. next = IF is_elapsed(acc.last_snapshot, ts) THEN add_snapshot(observed, ts) ELSE observed
  BY <1>3, <1>5 DEF ProcessInstant
<1>8. \A t \in E : t.ts <= ts
  <2>1. \A t \in E : t.ts \in Int /\ (t.ts < ts \/ t.ts = ts)
    BY <1>1 DEF Timer
  <2> QED
    BY <2>1
<1> HIDE DEF E, T, next
<1>9. /\ observed \in Storage /\ observed.histogram = Tally(E)
      /\ observed.snapshots = acc.snapshots /\ observed.last_snapshot = acc.last_snapshot
      /\ observed.pending = acc.pending
  BY <1>4, <1>5 DEF Storage
<1> HIDE DEF observed
<1>10. CASE next = observed
  BY <1>2, <1>6, <1>9, <1>10 DEF Recorded, E, T, next
<1>11. CASE is_elapsed(acc.last_snapshot, ts) /\ Len(acc.snapshots) # Ring
  <2> DEFINE more == Append(acc.snapshots, [timestamp |-> ts, metrics |-> Tally(E)])
  <2>1. more \in Seq(Snapshot) /\ SnapshotsRecorded(more, ts, E, f)
    BY <1>4, <1>5, <1>6, <1>8, <1>11, SnapshotAdded
  <2>2. next = [observed EXCEPT !.snapshots = more, !.last_snapshot = ts]
    BY <1>7, <1>9, <1>11 DEF add_snapshot
  <2> HIDE DEF more
  <2>3. /\ next \in Storage /\ next.histogram = Tally(E) /\ next.pending = acc.pending
        /\ next.snapshots = more /\ next.last_snapshot = ts
    <3>1. next = [pending |-> observed.pending, histogram |-> observed.histogram,
                  snapshots |-> more, last_snapshot |-> ts]
      BY <1>9, <2>2 DEF Storage
    <3>2. observed.pending \in SUBSET Timer /\ observed.histogram \in Histograms /\ ts \in Int
      BY <1>9 DEF Storage
    <3>3. next \in Storage
      BY <2>1, <3>1, <3>2 DEF Storage
    <3> QED
      BY <1>9, <3>1, <3>3
  <2> QED
    BY <1>2, <2>1, <2>3 DEF Recorded, E, T, next
<1>12. next = observed \/ (is_elapsed(acc.last_snapshot, ts) /\ Len(acc.snapshots) # Ring)
  BY <1>7, <1>9 DEF add_snapshot
<1> QED
  BY <1>10, <1>11, <1>12

-----------------------------------------------------------------------------
(* All settled instants. *)

(* What the timers of a storage are, besides its records of those counted. *)
PendingGood(P, last, C, clock) ==
    /\ P \in SUBSET Timer
    /\ \A ts \in 0 .. MaxNow : NumberedUp(At(P, ts))
    /\ \A t \in P : t.ts <= clock /\ last < t.ts /\ (t.execution # Running => t.ts < clock)
    /\ \A t \in P, c \in C : c.ts < t.ts

(* The timers counted after those of the settled instants before i. *)
CountedBefore(P, settled, C, i) ==
    C \cup {t \in Stopped(P) : t.ts \in settled /\ t.ts < i}

(* What the loop has made of a storage before it looks at instant i. *)
Progress(acc, storage, settled, C, f, i) ==
    /\ Recorded(acc, CountedBefore(storage.pending, settled, C, i), f)
    /\ acc.pending = storage.pending
    /\ \/ acc.last_snapshot = storage.last_snapshot
       \/ acc.last_snapshot \in settled /\ acc.last_snapshot < i

(* One round of the loop. *)
Round(P, settled, acc, ts) == IF ts \in settled THEN ProcessInstant(P, acc, ts) ELSE acc

LEMMA StoppedEnded ==
    ASSUME NEW P \in SUBSET Timer
    PROVE  Stopped(P) \subseteq P /\ AllEnded(Stopped(P))
BY DEF Stopped, Timer, AllEnded, Ended

LEMMA RoundKeepsProgress ==
    ASSUME NEW storage, NEW clock \in Nat, NEW C \in SUBSET Timer, NEW f \in Int,
           IsFiniteSet(C), AllEnded(C), storage \in Storage,
           PendingGood(storage.pending, storage.last_snapshot, C, clock),
           NEW settled \in SUBSET Instants(storage.pending),
           IsFiniteSet(storage.pending),
           NEW i \in Nat, NEW acc, Progress(acc, storage, settled, C, f, i)
    PROVE  Progress(Round(storage.pending, settled, acc, i), storage, settled, C, f, i + 1)
<1> DEFINE P == storage.pending
           D == CountedBefore(P, settled, C, i)
           E == CountedBefore(P, settled, C, i + 1)
           next == Round(P, settled, acc, i)
<1>1. /\ P \in SUBSET Timer /\ \A t \in Timer : t.ts \in Nat
      /\ storage.last_snapshot \in Int /\ acc.last_snapshot \in Int
  BY DEF Storage, Timer, Progress, Recorded
<1>2. \A ts \in settled : ts \in Nat /\ \E t \in P : t.ts = ts
  BY <1>1 DEF Instants
<1>3. CASE i \in settled
  <2>1. E = D \cup Stopped(At(P, i))
    <3>1. \A t \in Stopped(P) : t.ts < i + 1 <=> t.ts < i \/ t.ts = i
      BY <1>1 DEF Stopped
    <3>2. Stopped(At(P, i)) = {t \in Stopped(P) : t.ts = i}
      BY DEF Stopped, At
    <3> QED
      BY <1>3, <3>1, <3>2 DEF CountedBefore
  <2>2. D \in SUBSET Timer /\ IsFiniteSet(D) /\ AllEnded(D)
    <3>1. {t \in Stopped(P) : t.ts \in settled /\ t.ts < i} \in SUBSET P
      BY DEF Stopped
    <3>2. IsFiniteSet({t \in Stopped(P) : t.ts \in settled /\ t.ts < i})
      BY <3>1, OneLess
    <3>3. AllEnded(Stopped(P))
      BY <1>1, StoppedEnded
    <3> QED
      BY <1>1, <3>1, <3>2, <3>3, FS_Union DEF CountedBefore, AllEnded
  <2>3. \A t \in D : t.ts < i
    <3>1. \A t \in C : t.ts < i
      BY <1>2, <1>3 DEF PendingGood
    <3> QED
      BY <3>1 DEF CountedBefore
  <2>4. acc.last_snapshot < i
    <3>1. storage.last_snapshot < i
      BY <1>2, <1>3 DEF PendingGood
    <3> QED
      BY <3>1 DEF Progress
  <2>5. NumberedUp(At(P, i)) /\ AllEnded(Stopped(P)) /\ Recorded(acc, D, f)
        /\ next = ProcessInstant(P, acc, i)
    <3>1. i \in 0 .. MaxNow
      BY <1>1, <1>2, <1>3 DEF Timer
    <3> QED
      BY <1>1, <1>3, <3>1, StoppedEnded DEF PendingGood, Progress, Round
  <2> HIDE DEF P, D, E, next
  <2>6. /\ Recorded(next, E, f) /\ next.pending = acc.pending
        /\ next.last_snapshot = acc.last_snapshot \/ next.last_snapshot = i
    <3> DEFINE res == ProcessInstant(P, acc, i)
               all == D \cup Stopped(At(P, i))
    <3>1. /\ Recorded(res, all, f)
          /\ res.pending = acc.pending
          /\ res.last_snapshot = acc.last_snapshot \/ res.last_snapshot = i
      <4>1. P \in SUBSET Timer
        BY <1>1
      <4> QED
        BY <2>2, <2>3, <2>4, <2>5, <4>1, InstantRecorded
    <3> HIDE DEF res, all
    <3>2. next = res /\ E = all
      BY <2>1, <2>5 DEF res, all
    <3> QED
      BY <3>1, <3>2
  <2>7. \/ next.last_snapshot = storage.last_snapshot
        \/ next.last_snapshot \in settled /\ next.last_snapshot < i + 1
    <3>1. CASE next.last_snapshot = i
      BY <1>3, <3>1
    <3>2. CASE next.last_snapshot = acc.last_snapshot
      BY <1>1, <3>2 DEF Progress
    <3> QED
      BY <2>6, <3>1, <3>2
  <2>8. acc.pending = P
    BY DEF Progress, P
  <2> QED
    BY <2>6, <2>7, <2>8 DEF Progress, P, E, next
<1>4. CASE i \notin settled
  <2>1. E = D
    <3>1. \A t \in Stopped(P) : t.ts \in settled => (t.ts < i + 1 <=> t.ts < i)
      BY <1>1, <1>4 DEF Stopped
    <3> QED
      BY <3>1 DEF CountedBefore
  <2>2. next = acc
    BY <1>4 DEF Round
  <2>3. \/ acc.last_snapshot = storage.last_snapshot
        \/ acc.last_snapshot \in settled /\ acc.last_snapshot < i + 1
    BY <1>1 DEF Progress
  <2>4. Recorded(acc, E, f) /\ acc.pending = P
    BY <2>1 DEF Progress
  <2> HIDE DEF next, E
  <2> QED
    BY <2>2, <2>3, <2>4 DEF Progress, next, E
<1> QED
  BY <1>3, <1>4

(* process_pending makes a round for each instant up to now. *)
LEMMA ProcessPendingProgress ==
    ASSUME NEW storage, NEW clock \in Nat, NEW C \in SUBSET Timer, NEW f \in Int,
           IsFiniteSet(C), AllEnded(C), IsFiniteSet(storage.pending),
           PendingGood(storage.pending, storage.last_snapshot, C, clock),
           Recorded(storage, C, f)
    PROVE  \E acc :
              /\ Progress(acc, storage, Settled(storage.pending, clock), C, f, clock + 1)
              /\ process_pending(storage, clock) =
                   [acc EXCEPT !.pending = Retain(storage.pending, clock)]
<1> DEFINE P == storage.pending
           settled == Settled(P, clock)
           n == clock + 1
           Good(acc, i) == Progress(acc, storage, settled, C, f, i)
           Is(g) == g = [i \in 0 .. n |->
                           IF i = 0 THEN storage
                           ELSE IF i - 1 \in settled THEN ProcessInstant(P, g[i - 1], i - 1)
                                ELSE g[i - 1]]
           after == CHOOSE g : Is(g)
           step == [p \in Storage \X (1 .. n) |->
                      IF Round(P, settled, p[1], p[2] - 1) \in Storage
                      THEN Round(P, settled, p[1], p[2] - 1) ELSE p[1]]
<1>1. n \in Nat /\ storage \in Storage /\ settled \in SUBSET Instants(P)
  BY DEF Recorded, Settled
<1>2. Good(storage, 0)
  <2>1. CountedBefore(P, settled, C, 0) = C
    <3>1. \A t \in P : ~ (t.ts < 0)
      BY DEF PendingGood, Timer
    <3> QED
      BY <3>1 DEF CountedBefore, Stopped
  <2> QED
    BY <2>1 DEF Progress
<1>3. ASSUME NEW acc, NEW i \in 1 .. n, Good(acc, i - 1)
      PROVE  Round(P, settled, acc, i - 1) \in Storage
             /\ Good(Round(P, settled, acc, i - 1), i)
  <2>1. i - 1 \in Nat /\ i - 1 + 1 = i
    BY <1>1
  <2>2. Progress(Round(P, settled, acc, i - 1), storage, settled, C, f, i - 1 + 1)
    <3> HIDE DEF settled
    <3> QED
      BY <1>1, <1>3, <2>1, RoundKeepsProgress
  <2>3. Good(Round(P, settled, acc, i - 1), i)
    BY <2>1, <2>2
  <2> QED
    BY <2>3 DEF Progress, Recorded
<1>4. step \in [Storage \X (1 .. n) -> Storage]
  OBVIOUS
<1>5. \A acc \in Storage, i \in 1 .. n :
         step[<<acc, i>>] = IF Round(P, settled, acc, i - 1) \in Storage
                            THEN Round(P, settled, acc, i - 1) ELSE acc
  OBVIOUS
<1> HIDE DEF step, n, settled, Good
<1>6. PICK g : LoopResults(Storage, n, storage, step, g)
  BY <1>1, <1>4, LoopHasResults
<1>7. /\ g \in [0 .. n -> Storage]
      /\ \A i \in 0 .. n : g[i] = IF i = 0 THEN storage ELSE step[<<g[i - 1], i>>]
  BY <1>6 DEF LoopResults
<1> DEFINE K == {i \in 0 .. n : Good(g[i], i)}
<1>8. 0 \in K
  <2>1. 0 \in 0 .. n
    BY <1>1
  <2>2. g[0] = storage
    BY <1>7, <2>1, Zenon
  <2> QED
    BY <1>2, <2>1, <2>2
<1>9. ASSUME NEW i \in 1 .. n
      PROVE  i \in 0 .. n /\ i # 0 /\ i - 1 \in 0 .. n /\ g[i - 1] \in Storage
             /\ g[i] = step[<<g[i - 1], i>>]
  <2>1. i \in 0 .. n /\ i # 0 /\ i - 1 \in 0 .. n
    BY <1>1
  <2>2. g[i - 1] \in Storage
    BY <1>7, <2>1
  <2>3. g[i] = step[<<g[i - 1], i>>]
    BY <1>7, <2>1, Zenon
  <2> QED
    BY <2>1, <2>2, <2>3
<1>10. ASSUME NEW i \in 1 .. n, i - 1 \in K
       PROVE  i \in K /\ g[i] = Round(P, settled, g[i - 1], i - 1)
  <2>1. Good(g[i - 1], i - 1)
    BY <1>10
  <2>2. Round(P, settled, g[i - 1], i - 1) \in Storage
        /\ Good(Round(P, settled, g[i - 1], i - 1), i)
    BY <1>3, <2>1
  <2>3. g[i] = Round(P, settled, g[i - 1], i - 1)
    BY <1>5, <1>9, <2>2
  <2> QED
    BY <1>9, <2>2, <2>3
<1> HIDE DEF K
<1>11. \A i \in 0 .. n : i \in K
  BY <1>1, <1>8, <1>10, UpTo
<1>12. Is(g)
  <2>1. ASSUME NEW i \in 0 .. n
        PROVE  g[i] = IF i = 0 THEN storage
                      ELSE IF i - 1 \in settled THEN ProcessInstant(P, g[i - 1], i - 1)
                           ELSE g[i - 1]
    <3>1. CASE i = 0
      BY <1>7, <3>1, Zenon
    <3>2. CASE i # 0
      <4>1. i \in 1 .. n
        BY <1>1, <3>2
      <4>2. g[i] = Round(P, settled, g[i - 1], i - 1)
        BY <1>9, <1>10, <1>11, <4>1
      <4> QED
        BY <3>2, <4>2 DEF Round
    <3> QED
      BY <3>1, <3>2
  <2>2. g = [i \in 0 .. n |-> g[i]]
    BY <1>7
  <2> QED
    BY <2>1, <2>2
<1>13. Is(after)
  <2> HIDE DEF Is
  <2> QED
    BY <1>12
<1>14. process_pending(storage, clock) = [after[n] EXCEPT !.pending = Retain(P, clock)]
  BY DEF process_pending, n, settled
<1> HIDE DEF after
<1>15. \A i \in 0 .. n : after[i] = IF i = 0 THEN storage
                                   ELSE Round(P, settled, after[i - 1], i - 1)
  BY <1>13 DEF Round
<1> DEFINE M == {i \in 0 .. n : Good(after[i], i)}
<1>16. 0 \in M
  <2>1. 0 \in 0 .. n
    BY <1>1
  <2>2. after[0] = storage
    BY <1>15, <2>1, Zenon
  <2> QED
    BY <1>2, <2>1, <2>2
<1>17. ASSUME NEW i \in 1 .. n, i - 1 \in M PROVE i \in M
  <2>1. Good(after[i - 1], i - 1) /\ i \in 0 .. n /\ i # 0
    BY <1>9, <1>17
  <2>2. after[i] = Round(P, settled, after[i - 1], i - 1)
    BY <1>15, <2>1, Zenon
  <2> QED
    BY <1>3, <2>1, <2>2
<1> HIDE DEF M
<1>18. n \in M
  <2>1. n \in 0 .. n
    BY <1>1
  <2> QED
    BY <1>1, <1>16, <1>17, <2>1, UpTo
<1>19. Good(after[n], n)
  BY <1>18 DEF M
<1> QED
  BY <1>14, <1>19 DEF Good, n, settled

-----------------------------------------------------------------------------
(* A timer that stops. *)

(* A timer keeps its number when it stops. *)
LEMMA SetExecutionNumbered ==
    ASSUME NEW T, NumberedUp(T), NEW t \in T, NEW u, u.id = t.id
    PROVE  NumberedUp((T \ {t}) \cup {u})
<1> DEFINE R == T \ {t}
           S == R \cup {u}
           n == Cardinality(T)
<1>1. /\ IsFiniteSet(T) /\ n \in Nat
      /\ \A x \in T : x.id \in 0 .. (n - 1)
      /\ \A x, y \in T : x.id = y.id => x = y
      /\ \A i \in 0 .. (n - 1) : \E x \in T : x.id = i
  BY FS_CardinalityType DEF NumberedUp
<1>2. \A x \in R : x \in T /\ x.id # u.id
  BY <1>1
<1>3. IsFiniteSet(R) /\ Cardinality(R) = n - 1 /\ u \notin R
  BY <1>1, <1>2, FS_RemoveElement
<1>4. IsFiniteSet(S) /\ Cardinality(S) = n
  <2>1. Cardinality(S) = n - 1 + 1 /\ IsFiniteSet(S)
    BY <1>3, FS_AddElement
  <2> HIDE DEF n
  <2> QED
    BY <1>1, <2>1
<1>5. \A x \in S : x.id \in 0 .. (n - 1)
  BY <1>1
<1>6. \A x, y \in S : x.id = y.id => x = y
  BY <1>1, <1>2
<1>7. ASSUME NEW i \in 0 .. (n - 1) PROVE \E x \in S : x.id = i
  <2>1. PICK x \in T : x.id = i
    BY <1>1
  <2> QED
    BY <2>1
<1> HIDE DEF S, n
<1> QED
  BY <1>4, <1>5, <1>6, <1>7 DEF NumberedUp, S

LEMMA SetExecutionKeeps ==
    ASSUME NEW storage, NEW C, NEW f, NEW clock \in Nat, Recorded(storage, C, f),
           PendingGood(storage.pending, storage.last_snapshot, C, clock),
           IsFiniteSet(storage.pending),
           NEW timer \in storage.pending, timer.ts < clock, NEW execution \in Executions
    PROVE  LET set == SetExecution(storage, timer, execution) IN
           /\ Recorded(set, C, f)
           /\ PendingGood(set.pending, set.last_snapshot, C, clock)
           /\ IsFiniteSet(set.pending)
           /\ set.last_snapshot = storage.last_snapshot
           /\ set.pending = (storage.pending \ {timer})
                               \cup {[timer EXCEPT !.execution = {execution}]}
<1> DEFINE P == storage.pending
           u == [timer EXCEPT !.execution = {execution}]
           Q == (P \ {timer}) \cup {u}
           set == SetExecution(storage, timer, execution)
<1>1. P \in SUBSET Timer /\ timer \in Timer
  BY DEF PendingGood
<1>2. u \in Timer /\ u.ts = timer.ts /\ u.id = timer.id /\ u.timed = timer.timed
  BY <1>1 DEF Timer
<1> HIDE DEF u
<1>3. Q \in SUBSET Timer
  BY <1>1, <1>2
<1>4. storage \in Storage /\ set = [storage EXCEPT !.pending = Q]
  BY DEF Recorded, SetExecution, u
<1> HIDE DEF Q, set
<1>5. /\ set \in Storage /\ set.pending = Q /\ set.histogram = storage.histogram
      /\ set.snapshots = storage.snapshots /\ set.last_snapshot = storage.last_snapshot
  BY <1>3, <1>4 DEF Storage
<1>6. Recorded(set, C, f)
  BY <1>5 DEF Recorded
<1>7. ASSUME NEW ts \in 0 .. MaxNow PROVE NumberedUp(At(Q, ts))
  <2>1. NumberedUp(At(P, ts))
    BY DEF PendingGood
  <2>2. CASE ts = timer.ts
    <3>1. At(Q, ts) = (At(P, ts) \ {timer}) \cup {u} /\ timer \in At(P, ts)
      BY <1>2, <2>2 DEF At, Q
    <3> QED
      BY <1>2, <2>1, <3>1, SetExecutionNumbered
  <2>3. CASE ts # timer.ts
    <3>1. At(Q, ts) = At(P, ts)
      BY <1>2, <2>3 DEF At, Q
    <3> QED
      BY <2>1, <3>1
  <2> QED
    BY <2>2, <2>3
<1>8. PendingGood(Q, storage.last_snapshot, C, clock)
  <2>1. \A t \in Q : t \in P \/ t = u
    BY DEF Q
  <2>2. \A t \in P : t.ts <= clock /\ storage.last_snapshot < t.ts
                     /\ (t.execution # Running => t.ts < clock) /\ \A c \in C : c.ts < t.ts
    BY DEF PendingGood
  <2>3. u.ts <= clock /\ storage.last_snapshot < u.ts /\ u.ts < clock /\ \A c \in C : c.ts < u.ts
    BY <1>2, <2>2
  <2> QED
    BY <1>3, <1>7, <2>1, <2>2, <2>3 DEF PendingGood
<1>9. IsFiniteSet(Q)
  BY FS_RemoveElement, FS_AddElement DEF Q
<1> QED
  BY <1>5, <1>6, <1>8, <1>9 DEF set, Q, u

(* What is settled is older than now: a timer of this instant has not stopped. *)
LEMMA SettledBefore ==
    ASSUME NEW P, NEW last, NEW C, NEW clock \in Nat, PendingGood(P, last, C, clock),
           NEW ts \in Settled(P, clock)
    PROVE  ts \in Nat /\ ts < clock /\ \E t \in P : t.ts = ts
<1>1. PICK t \in P : t.ts = ts
  BY DEF Settled, Instants
<1>2. t.ts \in Nat /\ t.ts <= clock /\ (t.execution # Running => t.ts < clock)
  BY DEF PendingGood, Timer
<1>3. CASE t.execution = Running /\ t.ts = clock
  <2>1. Hour \in Nat /\ Hour # 0
    BY MetricsAssumption
  <2>2. t.ts \in Incomplete(P, clock)
    BY <1>2, <1>3, <2>1 DEF Incomplete
  <2> QED
    BY <1>1, <1>2, <2>2 DEF Settled
<1> QED
  BY <1>1, <1>2, <1>3

(* What is kept is later than what is settled. *)
LEMMA RetainedAfterSettled ==
    ASSUME NEW P \in SUBSET Timer, NEW clock, NEW t \in Retain(P, clock),
           NEW ts \in Settled(P, clock)
    PROVE  ts < t.ts
<1>1. t \in P /\ t.ts \in Instants(P) /\ t.ts \notin Settled(P, clock)
  BY DEF Retain, Instants
<1>2. PICK i \in Incomplete(P, clock) : ~ (t.ts < i)
  BY <1>1 DEF Settled
<1>3. i \in Nat /\ ts \in Nat /\ t.ts \in Nat /\ ts < i
  BY <1>1, <1>2 DEF Settled, Instants, Incomplete, Timer
<1> QED
  BY <1>2, <1>3

LEMMA NoneNumbered == NumberedUp({})
BY FS_EmptySet DEF NumberedUp

(* What process_pending keeps is good. *)
LEMMA RetainKeeps ==
    ASSUME NEW P, NEW last, NEW C \in SUBSET Timer, NEW clock \in Nat,
           PendingGood(P, last, C, clock), NEW newest,
           newest = last \/ newest \in Settled(P, clock)
    PROVE  PendingGood(Retain(P, clock), newest,
                       C \cup {t \in Stopped(P) : t.ts \in Settled(P, clock)}, clock)
<1> DEFINE R == Retain(P, clock)
           E == C \cup {t \in Stopped(P) : t.ts \in Settled(P, clock)}
<1>1. R \subseteq P /\ P \in SUBSET Timer
  BY DEF Retain, PendingGood
<1>2. \A t \in R : \A ts \in Settled(P, clock) : ts < t.ts
  BY <1>1, RetainedAfterSettled
<1>3. ASSUME NEW ts \in 0 .. MaxNow PROVE NumberedUp(At(R, ts))
  <2>1. CASE ts \in Settled(P, clock)
    <3>1. At(R, ts) = {}
      BY <2>1 DEF At, Retain
    <3> QED
      BY <3>1, NoneNumbered
  <2>2. CASE ts \notin Settled(P, clock)
    <3>1. At(R, ts) = At(P, ts)
      BY <2>2 DEF At, Retain
    <3> QED
      BY <3>1 DEF PendingGood
  <2> QED
    BY <2>1, <2>2
<1>4. \A t \in R : t.ts <= clock /\ newest < t.ts /\ (t.execution # Running => t.ts < clock)
  BY <1>1, <1>2 DEF PendingGood
<1>5. \A t \in R, c \in E : c.ts < t.ts
  BY <1>1, <1>2 DEF PendingGood
<1> QED
  BY <1>1, <1>3, <1>4, <1>5 DEF PendingGood

-----------------------------------------------------------------------------
(* The handlers of a storage. *)

(***************************************************************************)
(* A good storage: its records are of the timers counted, and its pending  *)
(* timers are its own, numbered, and later than all that is recorded.      *)
(***************************************************************************)
StorageGood(storage, key, C, f, clock) ==
    /\ Recorded(storage, C, f)
    /\ PendingGood(storage.pending, storage.last_snapshot, C, clock)
    /\ IsFiniteSet(storage.pending)
    /\ \A t \in storage.pending : t.timed = key
    /\ storage.last_snapshot \in -1 .. (clock - 1)

(* Timers counted: finitely many, that stopped before now. *)
CountedGood(C, clock) ==
    /\ C \subseteq Timer /\ IsFiniteSet(C) /\ AllEnded(C)
    /\ \A t \in C : t.ts < clock

LEMMA StopTimerKeeps ==
    ASSUME NEW storage, NEW key, NEW C, NEW f \in Int, NEW clock \in Nat,
           StorageGood(storage, key, C, f, clock), CountedGood(C, clock),
           NEW timer \in storage.pending, timer.ts < clock, NEW execution \in Executions
    PROVE  LET P == SetExecution(storage, timer, execution).pending
               new == {t \in Stopped(P) : t.ts \in Settled(P, clock)}
               next == StopTimer(storage, clock, timer, execution)
           IN  /\ StorageGood(next, key, C \cup new, f, clock)
               /\ CountedGood(new, clock)
               /\ \A t \in new : t.timed = key
               /\ next.pending \subseteq
                    storage.pending \cup {[timer EXCEPT !.execution = {execution}]}
<1> DEFINE set == SetExecution(storage, timer, execution)
           P == set.pending
           settled == Settled(P, clock)
           new == {t \in Stopped(P) : t.ts \in settled}
           next == StopTimer(storage, clock, timer, execution)
           u == [timer EXCEPT !.execution = {execution}]
<1>1. /\ Recorded(set, C, f)
      /\ PendingGood(P, set.last_snapshot, C, clock)
      /\ IsFiniteSet(P)
      /\ set.last_snapshot = storage.last_snapshot
      /\ P = (storage.pending \ {timer}) \cup {u}
  BY SetExecutionKeeps DEF StorageGood
<1>2. next = process_pending(set, clock)
  BY DEF StopTimer
<1>3. u.timed = key
  <2>1. timer \in Timer /\ timer.timed = key
    BY DEF StorageGood, PendingGood
  <2> QED
    BY <2>1 DEF Timer
<1> HIDE DEF set, u, next
<1>4. P \in SUBSET Timer /\ \A t \in P : t.timed = key
  BY <1>1, <1>3 DEF PendingGood, StorageGood
<1>5. \A ts \in settled : ts \in Nat /\ ts < clock /\ \E t \in P : t.ts = ts
  BY <1>1, SettledBefore
<1>6. new \in SUBSET P /\ AllEnded(new)
  BY <1>4, StoppedEnded DEF Stopped, AllEnded
<1>7. CountedGood(new, clock) /\ \A t \in new : t.timed = key
  <2>1. IsFiniteSet(new)
    BY <1>1, <1>6, OneLess
  <2>2. \A t \in new : t.ts < clock
    BY <1>5
  <2> QED
    BY <1>4, <1>6, <2>1, <2>2 DEF CountedGood
<1>8. CountedBefore(P, settled, C, clock + 1) = C \cup new
  <2>1. \A ts \in settled : ts < clock + 1
    BY <1>5
  <2> QED
    BY <2>1 DEF CountedBefore
<1>9. PICK acc : /\ Progress(acc, set, settled, C, f, clock + 1)
                 /\ next = [acc EXCEPT !.pending = Retain(P, clock)]
  <2>1. C \in SUBSET Timer /\ IsFiniteSet(C) /\ AllEnded(C)
    BY DEF CountedGood
  <2>2. \E acc : /\ Progress(acc, set, settled, C, f, clock + 1)
                 /\ process_pending(set, clock) = [acc EXCEPT !.pending = Retain(P, clock)]
    BY <1>1, <2>1, ProcessPendingProgress
  <2> QED
    BY <1>2, <2>2
<1> DEFINE E == C \cup new
<1>10. /\ Recorded(acc, E, f) /\ acc.pending = P
       /\ acc.last_snapshot = storage.last_snapshot \/ acc.last_snapshot \in settled
  BY <1>1, <1>8, <1>9 DEF Progress
<1>11. /\ Retain(P, clock) \in SUBSET Timer /\ Retain(P, clock) \subseteq P
       /\ IsFiniteSet(Retain(P, clock))
  <2>1. Retain(P, clock) \in SUBSET P
    BY DEF Retain
  <2> QED
    BY <1>1, <1>4, <2>1, OneLess
<1>12. PendingGood(Retain(P, clock), acc.last_snapshot, E, clock)
  <2>1. C \in SUBSET Timer
    BY DEF CountedGood
  <2> QED
    BY <1>1, <1>10, <2>1, RetainKeeps
<1> HIDE DEF new, settled, E, P
<1>13. /\ next \in Storage /\ next.pending = Retain(P, clock)
       /\ next.histogram = acc.histogram /\ next.snapshots = acc.snapshots
       /\ next.last_snapshot = acc.last_snapshot
  BY <1>9, <1>10, <1>11 DEF Recorded, Storage
<1>14. Recorded(next, E, f)
  BY <1>10, <1>13 DEF Recorded
<1>15. acc.last_snapshot \in -1 .. (clock - 1)
  <2>1. storage.last_snapshot \in -1 .. (clock - 1)
    BY DEF StorageGood
  <2>2. CASE acc.last_snapshot \in settled
    BY <1>5, <2>2
  <2> QED
    BY <1>10, <2>1, <2>2
<1>16. StorageGood(next, key, E, f, clock)
  BY <1>4, <1>11, <1>12, <1>13, <1>14, <1>15 DEF StorageGood
<1>17. next.pending \subseteq storage.pending \cup {u}
  BY <1>1, <1>11, <1>13 DEF P
<1> QED
  BY <1>7, <1>16, <1>17 DEF E, new, settled, P, set, next, u

(* A timer that starts is numbered, and later than all that is recorded. *)
LEMMA StartTimerKeeps ==
    ASSUME NEW storage, NEW timed \in Actions, NEW C, NEW f, NEW clock \in 0 .. MaxNow,
           StorageGood(storage, timed, C, f, clock), CountedGood(C, clock),
           Cardinality(At(storage.pending, clock)) <= MaxTimers
    PROVE  LET next == StartTimer(storage, clock, timed) IN
           /\ StorageGood(next, timed, C, f, clock)
           /\ next.pending = storage.pending \cup {EmptyTimer(storage, clock, timed)}
<1> DEFINE P == storage.pending
           T == At(P, clock)
           n == Cardinality(T)
           u == EmptyTimer(storage, clock, timed)
           Q == P \cup {u}
           next == StartTimer(storage, clock, timed)
<1>1. clock \in Nat /\ MaxTimers \in Nat /\ P \in SUBSET Timer /\ NumberedUp(T)
      /\ IsFiniteSet(T) /\ n \in Nat
  <2>1. clock \in Nat /\ MaxTimers \in Nat /\ P \in SUBSET Timer /\ NumberedUp(T)
    BY ManagerAssumption DEF StorageGood, PendingGood
  <2> QED
    BY <2>1, FS_CardinalityType DEF NumberedUp
<1>2. u \in Timer /\ u.ts = clock /\ u.id = n /\ u.execution = Running /\ u.timed = timed
  <2>1. u.ts = clock /\ u.id = n /\ u.execution = Running /\ u.timed = timed
    BY DEF EmptyTimer
  <2>2. n \in 0 .. MaxTimers
    <3> HIDE DEF n
    <3>1. n <= MaxTimers
      BY DEF n
    <3> QED
      BY <1>1, <3>1
  <2>3. u = [ts |-> clock, id |-> n, execution |-> Running, timed |-> timed]
    BY DEF EmptyTimer
  <2> HIDE DEF n, u
  <2> QED
    BY <2>1, <2>2, <2>3 DEF Timer
<1>3. storage \in Storage /\ next = [storage EXCEPT !.pending = Q]
  BY DEF StorageGood, Recorded, StartTimer
<1> HIDE DEF u, n
<1>4. /\ next \in Storage /\ next.pending = Q /\ next.histogram = storage.histogram
      /\ next.snapshots = storage.snapshots /\ next.last_snapshot = storage.last_snapshot
  BY <1>1, <1>2, <1>3 DEF Storage
<1>5. Recorded(next, C, f)
  BY <1>4 DEF StorageGood, Recorded
<1>6. NumberedUp(T \cup {u})
  <2>1. u \notin T /\ \A t \in T : t.id \in 0 .. (n - 1)
    BY <1>1, <1>2 DEF NumberedUp, n
  <2>2. IsFiniteSet(T \cup {u}) /\ Cardinality(T \cup {u}) = n + 1
    BY <1>1, <2>1, FS_AddElement DEF n
  <2>3. \A t \in T \cup {u} : t.id \in 0 .. (n + 1 - 1)
    BY <1>1, <1>2, <2>1
  <2>4. \A x, y \in T \cup {u} : x.id = y.id => x = y
    <3>1. \A x \in T : x.id # u.id
      BY <1>1, <1>2, <2>1
    <3> QED
      BY <1>1, <3>1 DEF NumberedUp
  <2>5. ASSUME NEW i \in 0 .. (n + 1 - 1) PROVE \E t \in T \cup {u} : t.id = i
    <3>1. CASE i = n
      BY <1>2, <3>1
    <3>2. CASE i # n
      <4>1. i \in 0 .. (n - 1)
        BY <1>1, <3>2
      <4>2. \E t \in T : t.id = i
        BY <1>1, <4>1 DEF NumberedUp, n
      <4> QED
        BY <4>2
    <3> QED
      BY <3>1, <3>2
  <2> DEFINE S == T \cup {u}
             m == Cardinality(S)
  <2> HIDE DEF S, m
  <2>6. IsFiniteSet(S) /\ m = n + 1
    BY <2>2 DEF S, m
  <2>7. /\ \A t \in S : t.id \in 0 .. (m - 1)
        /\ \A x, y \in S : x.id = y.id => x = y
        /\ \A i \in 0 .. (m - 1) : \E t \in S : t.id = i
    <3>1. 0 .. (m - 1) = 0 .. (n + 1 - 1)
      BY <1>1, <2>6
    <3>2. \A t \in S : t.id \in 0 .. (m - 1)
      BY <2>3, <3>1, Zenon DEF S
    <3>3. \A x, y \in S : x.id = y.id => x = y
      BY <2>4, Zenon DEF S
    <3>4. \A i \in 0 .. (m - 1) : \E t \in S : t.id = i
      BY <2>5, <3>1, Zenon DEF S
    <3> QED
      BY <3>2, <3>3, <3>4, Zenon
  <2>8. NumberedUp(S)
    BY <2>6, <2>7 DEF NumberedUp, m
  <2> QED
    BY <2>8 DEF S
<1>7. ASSUME NEW ts \in 0 .. MaxNow PROVE NumberedUp(At(Q, ts))
  <2>1. CASE ts = clock
    <3>1. At(Q, ts) = T \cup {u}
      BY <1>2, <2>1 DEF At
    <3> QED
      BY <1>6, <3>1
  <2>2. CASE ts # clock
    <3>1. At(Q, ts) = At(P, ts)
      BY <1>2, <2>2 DEF At
    <3> QED
      BY <3>1 DEF StorageGood, PendingGood
  <2> QED
    BY <2>1, <2>2
<1>8. u.ts <= clock /\ storage.last_snapshot < u.ts /\ \A c \in C : c.ts < u.ts
  BY <1>1, <1>2 DEF StorageGood, CountedGood
<1>9. PendingGood(Q, storage.last_snapshot, C, clock)
  BY <1>1, <1>2, <1>7, <1>8 DEF StorageGood, PendingGood
<1>10. IsFiniteSet(Q)
  BY FS_AddElement DEF StorageGood
<1>11. StorageGood(next, timed, C, f, clock)
  BY <1>2, <1>4, <1>5, <1>9, <1>10 DEF StorageGood
<1> QED
  BY <1>4, <1>11 DEF u, next

(* What is good stays so as time passes. *)
LEMMA TimePassesKeeps ==
    ASSUME NEW storage, NEW key, NEW C, NEW f, NEW clock \in Nat,
           StorageGood(storage, key, C, f, clock)
    PROVE  StorageGood(storage, key, C, f, clock + 1)
<1>1. storage.pending \in SUBSET Timer /\ \A t \in Timer : t.ts \in Nat
  BY DEF StorageGood, PendingGood, Timer
<1>2. \A t \in storage.pending : t.ts <= clock + 1 /\ t.ts < clock + 1
  BY <1>1 DEF StorageGood, PendingGood
<1>3. PendingGood(storage.pending, storage.last_snapshot, C, clock + 1)
  BY <1>2 DEF StorageGood, PendingGood
<1>4. storage.last_snapshot \in -1 .. (clock + 1 - 1)
  BY DEF StorageGood
<1> QED
  BY <1>3, <1>4 DEF StorageGood

(* A storage whose snapshots are fetched starts from the last of them. *)
LEMMA FetchKeeps ==
    ASSUME NEW storage, NEW key, NEW C, NEW f, NEW clock,
           StorageGood(storage, key, C, f, clock), storage.snapshots # <<>>
    PROVE  LET last == storage.snapshots[Len(storage.snapshots)].timestamp IN
           /\ StorageGood(FetchMetrics(storage), key, C, last, clock)
           /\ last = storage.last_snapshot
           /\ FetchMetrics(storage).pending = storage.pending
<1> DEFINE s == storage.snapshots
           last == s[Len(s)].timestamp
           next == FetchMetrics(storage)
<1>1. storage \in Storage /\ s \in Seq(Snapshot) /\ Ring \in Nat
  BY MetricsAssumption DEF StorageGood, Recorded, Storage
<1>2. Len(s) # 0
  BY <1>1
<1>3. last = storage.last_snapshot
  BY <1>2 DEF StorageGood, Recorded, SnapshotsRecorded
<1>4. next = [storage EXCEPT !.snapshots = <<>>]
  BY DEF FetchMetrics
<1> HIDE DEF next, last
<1>5. /\ next \in Storage /\ next.pending = storage.pending
      /\ next.histogram = storage.histogram
      /\ next.snapshots = <<>> /\ next.last_snapshot = storage.last_snapshot
  <2>1. next = [pending |-> storage.pending, histogram |-> storage.histogram,
                snapshots |-> <<>>, last_snapshot |-> storage.last_snapshot]
    BY <1>1, <1>4 DEF Storage
  <2>2. <<>> \in Seq(Snapshot)
    OBVIOUS
  <2>3. next \in Storage
    <3> HIDE DEF s
    <3> QED
      BY <1>1, <2>1, <2>2 DEF Storage
  <2> QED
    BY <2>1, <2>3
<1>6. SnapshotsRecorded(<<>>, last, C, last)
  BY <1>1 DEF SnapshotsRecorded
<1>7. Recorded(next, C, last)
  BY <1>3, <1>5, <1>6 DEF StorageGood, Recorded
<1>8. StorageGood(next, key, C, last, clock)
  BY <1>5, <1>7 DEF StorageGood
<1> QED
  BY <1>3, <1>5, <1>8 DEF next, last

(* A new storage is good, of no timers. *)
LEMMA NewStorageGood ==
    ASSUME NEW key, NEW clock \in Nat
    PROVE  StorageGood(NewStorage, key, {}, -1, clock)
<1>1. EmptyHistogram = Tally({}) /\ EmptyHistogram \in Histograms
  BY EmptyTally
<1>2. /\ NewStorage.pending = {} /\ NewStorage.histogram = EmptyHistogram
      /\ NewStorage.snapshots = <<>> /\ NewStorage.last_snapshot = -1
  BY DEF NewStorage
<1>3. NewStorage \in Storage
  BY <1>1 DEF NewStorage, Storage
<1>4. Ring \in Nat
  BY MetricsAssumption
<1>5. SnapshotsRecorded(<<>>, -1, {}, -1)
  BY <1>4 DEF SnapshotsRecorded
<1>6. \A ts \in 0 .. MaxNow : At({}, ts) = {}
  BY DEF At
<1>7. PendingGood({}, -1, {}, clock)
  BY <1>6, NoneNumbered DEF PendingGood
<1>8. IsFiniteSet({}) /\ -1 \in -1 .. (clock - 1)
  BY FS_EmptySet
<1> QED
  BY <1>1, <1>2, <1>3, <1>5, <1>7, <1>8 DEF StorageGood, Recorded

-----------------------------------------------------------------------------
(***************************************************************************)
(* The inductive invariant: every storage is good for the timers counted   *)
(* of its action, and those are of actions with a storage.                 *)
(***************************************************************************)
StoragesGood ==
    \A key \in DOMAIN storages :
        StorageGood(storages[key], key, CountedOf(key), fetched[key], now)

MapsTyped ==
    /\ storages \in [DOMAIN storages -> Storage]
    /\ fetched \in [DOMAIN storages -> -1 .. MaxNow]
    /\ DOMAIN storages \subseteq Actions

IInv ==
    /\ now \in 0 .. MaxNow
    /\ MapsTyped
    /\ CountedGood(counted, now)
    /\ \A t \in counted : t.timed \in DOMAIN storages
    /\ IsFiniteSet(Pending)
    /\ StoragesGood

(* The timers counted of one action are good as all are. *)
LEMMA CountedOfGood ==
    ASSUME NEW C, NEW clock, CountedGood(C, clock), NEW D \in SUBSET C
    PROVE  CountedGood(D, clock)
BY OneLess DEF CountedGood, AllEnded

LEMMA MetricsInit == Init => IInv
<1> SUFFICES ASSUME Init PROVE IInv
  OBVIOUS
<1>1. now = 0 /\ storages = <<>> /\ counted = {} /\ fetched = <<>>
  BY DEF Init
<1>2. DOMAIN storages = {} /\ DOMAIN fetched = {}
  BY <1>1
<1>3. MapsTyped
  <2>1. storages \in [{} -> Storage] /\ fetched \in [{} -> -1 .. MaxNow]
    BY <1>1
  <2> QED
    BY <1>2, <2>1 DEF MapsTyped
<1>4. CountedGood(counted, now) /\ \A t \in counted : t.timed \in DOMAIN storages
  BY <1>1, FS_EmptySet DEF CountedGood, AllEnded
<1>5. Pending = {}
  BY <1>2 DEF Pending
<1>6. StoragesGood
  BY <1>2 DEF StoragesGood
<1>7. now \in 0 .. MaxNow
  BY <1>1, ManagerAssumption
<1> QED
  BY <1>3, <1>4, <1>5, <1>6, <1>7, FS_EmptySet DEF IInv

LEMMA StartKeeps ==
    ASSUME IInv, NEW timed \in Actions, StartActionTimer(timed)
    PROVE  IInv'
<1> DEFINE st == StorageOf(timed)
           next == StartTimer(st, now, timed)
           keys == DOMAIN storages \cup {timed}
           f == IF timed \in DOMAIN storages THEN fetched[timed] ELSE -1
<1>1. StorageKey(timed) = timed
  BY ManagerAssumption DEF StorageKey
<1>2. /\ Cardinality(Pending) + Cardinality(counted) < MaxTimers
      /\ storages' = [k \in keys |-> IF k = timed THEN next ELSE storages[k]]
      /\ fetched' = [k \in DOMAIN storages' |-> IF k \in DOMAIN fetched THEN fetched[k] ELSE -1]
      /\ now' = now /\ counted' = counted
  BY <1>1 DEF StartActionTimer
<1>3. DOMAIN storages' = keys /\ DOMAIN fetched = DOMAIN storages
  BY <1>2 DEF IInv, MapsTyped
<1>4. /\ now \in 0 .. MaxNow /\ now \in Nat
      /\ CountedGood(counted, now) /\ CountedGood(CountedOf(timed), now)
  <2>1. CountedOf(timed) \in SUBSET counted
    BY DEF CountedOf
  <2> QED
    BY <2>1, CountedOfGood DEF IInv
<1>5. StorageGood(st, timed, CountedOf(timed), f, now)
  <2>1. CASE timed \in DOMAIN storages
    BY <2>1 DEF IInv, StoragesGood, StorageOf
  <2>2. CASE timed \notin DOMAIN storages
    <3>1. CountedOf(timed) = {} /\ st = NewStorage /\ f = -1
      BY <2>2 DEF IInv, CountedOf, StorageOf
    <3> QED
      BY <1>4, <3>1, NewStorageGood
  <2> QED
    BY <2>1, <2>2
<1>6. Cardinality(At(st.pending, now)) <= MaxTimers
  <2>1. At(st.pending, now) \in SUBSET Pending
    BY DEF At, Pending, StorageOf, NewStorage
  <2>2. Cardinality(At(st.pending, now)) <= Cardinality(Pending)
        /\ Cardinality(At(st.pending, now)) \in Nat
        /\ Cardinality(Pending) \in Nat /\ Cardinality(counted) \in Nat
    BY <2>1, OneLess, FS_CardinalityType DEF IInv, CountedGood
  <2> QED
    BY <1>2, <2>2, ManagerAssumption
<1>7. /\ StorageGood(next, timed, CountedOf(timed), f, now)
      /\ next.pending = st.pending \cup {EmptyTimer(st, now, timed)}
  <2> HIDE DEF st, f
  <2> QED
    BY <1>4, <1>5, <1>6, StartTimerKeeps
<1> HIDE DEF next, st, f
<1>8. ASSUME NEW key \in DOMAIN storages'
      PROVE  /\ CountedOf(key)' = CountedOf(key)
             /\ storages'[key] = IF key = timed THEN next ELSE storages[key]
             /\ fetched'[key] = IF key = timed THEN f ELSE fetched[key]
             /\ StorageGood(storages'[key], key, CountedOf(key), fetched'[key], now)
  <2>1. CountedOf(key)' = CountedOf(key)
    BY <1>2 DEF CountedOf
  <2>2. storages'[key] = IF key = timed THEN next ELSE storages[key]
    BY <1>2, <1>3
  <2>3. fetched'[key] = IF key = timed THEN f ELSE fetched[key]
    BY <1>2, <1>3 DEF f
  <2> DEFINE good == StorageGood(storages'[key], key, CountedOf(key), fetched'[key], now)
  <2>4. ASSUME key = timed PROVE good
    <3>1. storages'[key] = next /\ fetched'[key] = f
      BY <2>2, <2>3, <2>4
    <3> QED
      BY <1>7, <2>4, <3>1, Zenon
  <2>5. ASSUME key # timed PROVE good
    <3>1. key \in DOMAIN storages
      BY <1>3, <2>5
    <3>2. StorageGood(storages[key], key, CountedOf(key), fetched[key], now)
      BY <3>1 DEF IInv, StoragesGood
    <3>3. storages'[key] = storages[key] /\ fetched'[key] = fetched[key]
      BY <2>2, <2>3, <2>5
    <3> QED
      BY <3>2, <3>3
  <2> HIDE DEF good
  <2> QED
    BY <2>1, <2>2, <2>3, <2>4, <2>5, Zenon DEF good
<1>9. StoragesGood'
  BY <1>2, <1>8 DEF StoragesGood
<1>10. MapsTyped'
  <2>1. \A key \in DOMAIN storages' : storages'[key] \in Storage
    BY <1>8 DEF StorageGood, Recorded
  <2>2. \A key \in DOMAIN storages' : fetched'[key] \in -1 .. MaxNow
    <3>2. \A key \in DOMAIN storages : fetched[key] \in -1 .. MaxNow
      BY DEF IInv, MapsTyped
    <3>3. -1 \in -1 .. MaxNow
      BY ManagerAssumption
    <3>1. f \in -1 .. MaxNow
      BY <3>2, <3>3, Zenon DEF f
    <3> QED
      BY <1>3, <1>8, <3>1, <3>2
  <2>3. /\ storages' = [k \in DOMAIN storages' |-> storages'[k]]
        /\ fetched' = [k \in DOMAIN storages' |-> fetched'[k]]
    BY <1>2, <1>3
  <2>4. DOMAIN storages' \subseteq Actions
    BY <1>3 DEF IInv, MapsTyped
  <2> QED
    BY <2>1, <2>2, <2>3, <2>4 DEF MapsTyped
<1>11. IsFiniteSet(Pending')
  <2> DEFINE u == EmptyTimer(st, now, timed)
  <2>1. Pending' \in SUBSET (Pending \cup {u})
    <3> SUFFICES ASSUME NEW key \in DOMAIN storages', NEW t \in storages'[key].pending
                 PROVE  t \in Pending \cup {u}
      BY DEF Pending
    <3>1. CASE key = timed
      <4>1. st.pending \subseteq Pending
        BY DEF st, StorageOf, NewStorage, Pending
      <4> QED
        BY <1>7, <1>8, <3>1, <4>1
    <3>2. CASE key # timed
      BY <1>3, <1>8, <3>2 DEF Pending
    <3> QED
      BY <3>1, <3>2
  <2>2. IsFiniteSet(Pending \cup {u})
    BY FS_AddElement DEF IInv
  <2> QED
    BY <2>1, <2>2, OneLess
<1>12. \A t \in counted' : t.timed \in DOMAIN storages'
  BY <1>2, <1>3 DEF IInv
<1>13. CountedGood(counted', now') /\ now' \in 0 .. MaxNow
  BY <1>2, <1>4
<1> QED
  BY <1>9, <1>10, <1>11, <1>12, <1>13 DEF IInv

LEMMA StopKeeps ==
    ASSUME IInv, NEW key \in DOMAIN storages, NEW timer \in storages[key].pending,
           NEW execution \in Executions, StopActionTimer(key, timer, execution)
    PROVE  IInv'
<1> DEFINE st == storages[key]
           P == SetExecution(st, timer, execution).pending
           new == {t \in Stopped(P) : t.ts \in Settled(P, now)}
           next == StopTimer(st, now, timer, execution)
           u == [timer EXCEPT !.execution = {execution}]
           C == CountedOf(key)
           f == fetched[key]
<1>1. /\ timer.ts < now
      /\ storages' = [storages EXCEPT ![key] = next]
      /\ counted' = counted \cup new
      /\ now' = now /\ fetched' = fetched
  BY DEF StopActionTimer
<1>2. /\ now \in 0 .. MaxNow /\ now \in Nat /\ f \in Int
      /\ storages \in [DOMAIN storages -> Storage]
      /\ CountedGood(counted, now) /\ CountedGood(C, now)
      /\ StorageGood(st, key, C, f, now)
  <2>1. C \in SUBSET counted
    BY DEF CountedOf
  <2>2. CountedGood(C, now)
    BY <2>1, CountedOfGood DEF IInv
  <2>3. f \in Int
    BY DEF IInv, MapsTyped
  <2>4. StorageGood(st, key, C, f, now)
    BY DEF IInv, StoragesGood
  <2> HIDE DEF C, f, st
  <2> QED
    BY <2>2, <2>3, <2>4 DEF IInv, MapsTyped
<1>3. /\ StorageGood(next, key, C \cup new, f, now)
      /\ CountedGood(new, now)
      /\ \A t \in new : t.timed = key
      /\ next.pending \subseteq st.pending \cup {u}
  <2>1. timer \in st.pending
    OBVIOUS
  <2> HIDE DEF C, f, st
  <2> QED
    BY <1>1, <1>2, <2>1, StopTimerKeeps
<1> HIDE DEF next, new, u
<1>4. DOMAIN storages' = DOMAIN storages
      /\ \A k \in DOMAIN storages : storages'[k] = IF k = key THEN next ELSE storages[k]
  BY <1>1, <1>2
<1>5. ASSUME NEW k \in DOMAIN storages
      PROVE  StorageGood(storages'[k], k, CountedOf(k)', fetched'[k], now')
  <2>1. CASE k = key
    <3>1. CountedOf(k)' = C \cup new
      BY <1>1, <1>3, <2>1 DEF CountedOf
    <3>2. storages'[k] = next /\ fetched'[k] = f /\ now' = now
      BY <1>1, <1>4, <2>1
    <3> QED
      BY <1>3, <2>1, <3>1, <3>2
  <2>2. CASE k # key
    <3>1. CountedOf(k)' = CountedOf(k)
      BY <1>1, <1>3, <2>2 DEF CountedOf
    <3>2. storages'[k] = storages[k] /\ fetched'[k] = fetched[k] /\ now' = now
      BY <1>1, <1>4, <2>2
    <3>3. StorageGood(storages[k], k, CountedOf(k), fetched[k], now)
      BY DEF IInv, StoragesGood
    <3> QED
      BY <3>1, <3>2, <3>3
  <2> QED
    BY <2>1, <2>2
<1>6. StoragesGood'
  BY <1>4, <1>5 DEF StoragesGood
<1>7. MapsTyped'
  <2>1. next \in Storage
    BY <1>3 DEF StorageGood, Recorded
  <2>2. storages' \in [DOMAIN storages -> Storage]
    BY <1>1, <1>2, <2>1
  <2> QED
    BY <1>1, <1>4, <2>2 DEF IInv, MapsTyped
<1>8. CountedGood(counted', now')
  <2>1. IsFiniteSet(counted \cup new)
    BY <1>2, <1>3, FS_Union DEF CountedGood
  <2> QED
    BY <1>1, <1>2, <1>3, <2>1 DEF CountedGood, AllEnded
<1>9. \A t \in counted' : t.timed \in DOMAIN storages'
  BY <1>1, <1>3, <1>4 DEF IInv
<1>10. IsFiniteSet(Pending')
  <2>1. Pending' \in SUBSET (Pending \cup {u})
    <3> SUFFICES ASSUME NEW k \in DOMAIN storages', NEW t \in storages'[k].pending
                 PROVE  t \in Pending \cup {u}
      BY DEF Pending
    <3>1. CASE k = key
      <4>1. t \in st.pending \cup {u}
        BY <1>3, <1>4, <3>1
      <4> QED
        BY <4>1 DEF Pending
    <3>2. CASE k # key
      BY <1>4, <3>2 DEF Pending
    <3> QED
      BY <3>1, <3>2
  <2>2. IsFiniteSet(Pending \cup {u})
    BY FS_AddElement DEF IInv
  <2> QED
    BY <2>1, <2>2, OneLess
<1> QED
  BY <1>1, <1>2, <1>6, <1>7, <1>8, <1>9, <1>10 DEF IInv

LEMMA FetchActionKeeps ==
    ASSUME IInv, NEW key \in DOMAIN storages, FetchActionMetrics(key)
    PROVE  IInv'
<1> DEFINE st == storages[key]
           last == st.snapshots[Len(st.snapshots)].timestamp
           next == FetchMetrics(st)
<1>1. /\ st.snapshots # <<>>
      /\ fetched' = [fetched EXCEPT ![key] = last]
      /\ storages' = [storages EXCEPT ![key] = next]
      /\ now' = now /\ counted' = counted
  BY DEF FetchActionMetrics
<1>2. /\ StorageGood(next, key, CountedOf(key), last, now)
      /\ last = st.last_snapshot
      /\ next.pending = st.pending
  <2>1. StorageGood(st, key, CountedOf(key), fetched[key], now)
    BY DEF IInv, StoragesGood
  <2> HIDE DEF st
  <2> QED
    BY <1>1, <2>1, FetchKeeps
<1>3. last \in -1 .. MaxNow
  <2>1. st.last_snapshot \in -1 .. (now - 1)
    BY DEF IInv, StoragesGood, StorageGood
  <2>2. now \in 0 .. MaxNow /\ MaxNow \in Nat
    BY ManagerAssumption DEF IInv
  <2> HIDE DEF st, last
  <2> QED
    BY <1>2, <2>1, <2>2
<1> HIDE DEF next, last
<1>4. /\ DOMAIN storages' = DOMAIN storages
      /\ \A k \in DOMAIN storages : storages'[k] = IF k = key THEN next ELSE storages[k]
      /\ \A k \in DOMAIN storages : fetched'[k] = IF k = key THEN last ELSE fetched[k]
  <2>1. storages \in [DOMAIN storages -> Storage] /\ fetched \in [DOMAIN storages -> -1 .. MaxNow]
    BY DEF IInv, MapsTyped
  <2> QED
    BY <1>1, <2>1
<1>5. ASSUME NEW k \in DOMAIN storages
      PROVE  StorageGood(storages'[k], k, CountedOf(k)', fetched'[k], now')
  <2>1. CountedOf(k)' = CountedOf(k)
    BY <1>1 DEF CountedOf
  <2>2. CASE k = key
    <3>1. storages'[k] = next /\ fetched'[k] = last
      BY <1>4, <2>2
    <3> QED
      BY <1>1, <1>2, <2>1, <2>2, <3>1
  <2>3. CASE k # key
    <3>1. storages'[k] = storages[k] /\ fetched'[k] = fetched[k]
      BY <1>4, <2>3
    <3>2. StorageGood(storages[k], k, CountedOf(k), fetched[k], now)
      BY DEF IInv, StoragesGood
    <3> QED
      BY <1>1, <2>1, <3>1, <3>2
  <2> QED
    BY <2>2, <2>3
<1>6. StoragesGood'
  BY <1>4, <1>5 DEF StoragesGood
<1>7. MapsTyped'
  <2>1. next \in Storage
    BY <1>2 DEF StorageGood, Recorded
  <2>2. storages' \in [DOMAIN storages -> Storage]
    BY <1>1, <2>1 DEF IInv, MapsTyped
  <2>3. fetched' \in [DOMAIN storages -> -1 .. MaxNow]
    BY <1>1, <1>3 DEF IInv, MapsTyped
  <2> QED
    BY <1>4, <2>2, <2>3 DEF IInv, MapsTyped
<1>8. \A k \in DOMAIN storages : storages'[k].pending = storages[k].pending
  BY <1>2, <1>4
<1>9. Pending' = Pending
  BY <1>4, <1>8 DEF Pending
<1> QED
  BY <1>1, <1>4, <1>6, <1>7, <1>9 DEF IInv

LEMMA TimeKeeps ==
    ASSUME IInv, TimePasses
    PROVE  IInv'
<1>1. /\ now < MaxNow /\ now' = now + 1
      /\ storages' = storages /\ counted' = counted /\ fetched' = fetched
  BY DEF TimePasses
<1>2. now \in Nat /\ now' \in 0 .. MaxNow
  BY <1>1, ManagerAssumption DEF IInv
<1>3. MapsTyped' /\ Pending' = Pending /\ \A key : CountedOf(key)' = CountedOf(key)
  BY <1>1 DEF IInv, MapsTyped, Pending, CountedOf
<1>4. CountedGood(counted', now')
  <2>1. \A t \in counted : t.ts \in Nat /\ t.ts < now
    BY DEF IInv, CountedGood, Timer
  <2>2. \A t \in counted : t.ts < now + 1
    BY <1>2, <2>1
  <2> QED
    BY <1>1, <2>2 DEF IInv, CountedGood
<1>5. ASSUME NEW key \in DOMAIN storages'
      PROVE  StorageGood(storages'[key], key, CountedOf(key)', fetched'[key], now')
  <2>1. StorageGood(storages[key], key, CountedOf(key), fetched[key], now)
    BY <1>1 DEF IInv, StoragesGood
  <2> QED
    BY <1>1, <1>2, <1>3, <2>1, TimePassesKeeps
<1>6. StoragesGood'
  BY <1>5 DEF StoragesGood
<1> QED
  BY <1>1, <1>2, <1>3, <1>4, <1>6 DEF IInv

(* Every step keeps the invariant. *)
LEMMA MetricsNext == IInv /\ [Next]_vars => IInv'
<1> SUFFICES ASSUME IInv, [Next]_vars PROVE IInv'
  OBVIOUS
<1>1. CASE \E timed \in Actions : StartActionTimer(timed)
  BY <1>1, StartKeeps
<1>2. CASE \E key \in DOMAIN storages :
              \E timer \in storages[key].pending, execution \in Executions :
                 StopActionTimer(key, timer, execution)
  BY <1>2, StopKeeps
<1>3. CASE \E key \in DOMAIN storages : FetchActionMetrics(key)
  BY <1>3, FetchActionKeeps
<1>4. CASE TimePasses
  BY <1>4, TimeKeeps
<1>5. CASE UNCHANGED vars
  BY <1>5 DEF vars, IInv, MapsTyped, StoragesGood, CountedOf, Pending
<1> QED
  BY <1>1, <1>2, <1>3, <1>4, <1>5 DEF Next

LEMMA MetricsInvariant == Spec => []IInv
<1>1. Init => IInv
  BY MetricsInit
<1>2. IInv /\ [Next]_vars => IInv'
  BY MetricsNext
<1> QED
  BY <1>1, <1>2, PTL DEF Spec

-----------------------------------------------------------------------------
(* Timers, rings and the clock have their types (`Timer', ArrayQueue, SystemTime). *)
THEOREM MetricsTypes == Spec => []TypeOK
<1>1. IInv => TypeOK
  <2> SUFFICES ASSUME IInv PROVE TypeOK
    OBVIOUS
  <2>1. ASSUME NEW key \in DOMAIN storages
        PROVE  /\ storages[key].pending \subseteq Timer
               /\ Len(storages[key].snapshots) <= Ring
               /\ storages[key].last_snapshot \in -1 .. MaxNow
    <3>1. StorageGood(storages[key], key, CountedOf(key), fetched[key], now)
      BY DEF IInv, StoragesGood
    <3>2. storages[key].last_snapshot \in -1 .. (now - 1)
      BY <3>1 DEF StorageGood
    <3>3. storages[key].last_snapshot \in -1 .. MaxNow
      BY <3>2, ManagerAssumption DEF IInv
    <3> QED
      BY <3>1, <3>3 DEF StorageGood, Recorded, SnapshotsRecorded, PendingGood
  <2> QED
    BY <2>1 DEF IInv, MapsTyped, CountedGood, TypeOK
<1> QED
  BY <1>1, MetricsInvariant, PTL

(***************************************************************************)
(* Each timer that stopped goes once into the histogram of its own action, *)
(* in its bucket (process_pending, observe).                               *)
(***************************************************************************)
THEOREM HistogramsAreExact == Spec => []HistogramIsExact
<1>1. IInv => HistogramIsExact
  BY DEF IInv, StoragesGood, StorageGood, Recorded, HistogramIsExact
<1> QED
  BY <1>1, MetricsInvariant, PTL

(***************************************************************************)
(* A snapshot counts all the timers up to its timestamp that ever count,   *)
(* and no other (process_pending, add_snapshot).                           *)
(***************************************************************************)
THEOREM SnapshotsStayFinal == Spec => []SnapshotsAreFinal
<1>1. IInv => SnapshotsAreFinal
  <2> SUFFICES ASSUME IInv, NEW key \in DOMAIN storages,
                      NEW i \in DOMAIN storages[key].snapshots
               PROVE  LET snap == storages[key].snapshots[i] IN
                      /\ snap.metrics = Tally({t \in CountedOf(key) : t.ts <= snap.timestamp})
                      /\ \A t \in storages[key].pending : t.ts > snap.timestamp
    BY DEF SnapshotsAreFinal
  <2> DEFINE st == storages[key]
             s == st.snapshots
  <2>1. StorageGood(st, key, CountedOf(key), fetched[key], now)
    BY DEF IInv, StoragesGood
  <2>2. s \in Seq(Snapshot) /\ st.last_snapshot \in Int
    BY <2>1 DEF StorageGood, Recorded, Storage
  <2>3. i \in 1 .. Len(s) /\ s[i] \in Snapshot
    BY <2>2
  <2>4. /\ s[i].timestamp <= st.last_snapshot
        /\ s[i].metrics = Tally(UpToInstant(CountedOf(key), s[i].timestamp))
    BY <2>1, <2>3 DEF StorageGood, Recorded, SnapshotsRecorded
  <2>5. \A t \in st.pending : t.ts \in Nat /\ st.last_snapshot < t.ts
    BY <2>1 DEF StorageGood, PendingGood, Timer
  <2>6. s[i].timestamp \in Nat
    BY <2>3 DEF Snapshot
  <2>7. \A t \in st.pending : t.ts > s[i].timestamp
    BY <2>2, <2>4, <2>5, <2>6
  <2> QED
    BY <2>4, <2>7 DEF UpToInstant
<1> QED
  BY <1>1, MetricsInvariant, PTL

(***************************************************************************)
(* Snapshots are in the order of time and more than the resolution apart,  *)
(* across fetches too (is_elapsed, FetchMetrics).                          *)
(***************************************************************************)
THEOREM SnapshotsStayApart == Spec => []SnapshotsApart
<1>1. IInv => SnapshotsApart
  <2> SUFFICES ASSUME IInv, NEW key \in DOMAIN storages
               PROVE  LET snapshots == storages[key].snapshots
                          first == IF fetched[key] = -1 THEN <<>> ELSE <<fetched[key]>>
                          times == first \o [i \in DOMAIN snapshots |-> snapshots[i].timestamp] IN
                      \A i \in DOMAIN times : i > 1 => times[i] > times[i - 1] + Resolution
    BY DEF SnapshotsApart
  <2> DEFINE st == storages[key]
             s == st.snapshots
             f == fetched[key]
             first == IF f = -1 THEN <<>> ELSE <<f>>
             stamps == [i \in DOMAIN s |-> s[i].timestamp]
             times == first \o stamps
             n == Len(s)
  <2>1. StorageGood(st, key, CountedOf(key), f, now)
    BY DEF IInv, StoragesGood
  <2>2. s \in Seq(Snapshot) /\ f \in Int /\ n \in Nat
    BY <2>1 DEF IInv, MapsTyped, StorageGood, Recorded, Storage
  <2>3. /\ \A i \in 2 .. n : s[i].timestamp > s[i - 1].timestamp + Resolution
        /\ n > 0 /\ f # -1 => s[1].timestamp > f + Resolution
    BY <2>1 DEF StorageGood, Recorded, SnapshotsRecorded
  <2> HIDE DEF s, f
  <2>4. stamps \in Seq(Int) /\ Len(stamps) = n /\ \A i \in 1 .. n : stamps[i] = s[i].timestamp
    <3>1. \A i \in 1 .. n : s[i].timestamp \in Int
      <4>1. \A i \in 1 .. n : s[i] \in Snapshot
        BY <2>2
      <4>2. \A x \in Snapshot : x.timestamp \in Int
        BY DEF Snapshot
      <4> QED
        BY <4>1, <4>2
    <3> QED
      BY <2>2, <3>1
  <2> HIDE DEF stamps, n
  <2>5. CASE f = -1
    <3>1. times = stamps
      BY <2>4, <2>5
    <3>2. \A i \in DOMAIN times : i > 1 => i \in 2 .. n /\ i \in 1 .. n /\ i - 1 \in 1 .. n
      BY <2>2, <2>4, <3>1
    <3>3. \A i \in DOMAIN times : i > 1 => times[i] > times[i - 1] + Resolution
      <4> HIDE DEF times
      <4> QED
        BY <2>3, <2>4, <3>1, <3>2
    <3> QED
      BY <3>3 DEF times, stamps, s, f
  <2>6. CASE f # -1
    <3>1. first = <<f>>
      BY <2>6
    <3>2. /\ DOMAIN times = 1 .. (n + 1) /\ times[1] = f
          /\ \A i \in 2 .. (n + 1) : times[i] = stamps[i - 1]
      BY <2>2, <2>4, <3>1
    <3> HIDE DEF times
    <3>3. ASSUME NEW i \in DOMAIN times, i > 1 PROVE times[i] > times[i - 1] + Resolution
      <4>1. i \in 2 .. (n + 1) /\ i - 1 \in 1 .. n /\ n > 0
        BY <2>2, <3>2, <3>3
      <4>2. times[i] = s[i - 1].timestamp
        BY <2>4, <3>2, <4>1
      <4>3. CASE i = 2
        BY <2>3, <2>6, <3>2, <4>1, <4>2, <4>3
      <4>4. CASE i # 2
        <5>1. i - 1 \in 2 .. n /\ i - 1 \in 2 .. (n + 1) /\ i - 1 - 1 \in 1 .. n
          BY <2>2, <4>1, <4>4
        <5>2. times[i - 1] = s[i - 1 - 1].timestamp
          BY <2>4, <3>2, <5>1
        <5> QED
          BY <2>3, <4>2, <5>1, <5>2
      <4> QED
        BY <4>3, <4>4
    <3> QED
      BY <3>3 DEF times, stamps, s, f
  <2> QED
    BY <2>5, <2>6
<1> QED
  BY <1>1, MetricsInvariant, PTL
=============================================================================
