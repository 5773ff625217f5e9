--------------------------- MODULE BotIds_proofs ---------------------------
(***************************************************************************)
(* The theorems of BotIds.  Of the generator: it stays exact, implements   *)
(* LowestFreeId, and its operations for many ids at once are what loops of *)
(* single calls come to, because a set of ids in use leaves one exact      *)
(* generator.  Of the compound ids: the bytes of a list of words, whatever *)
(* precedes them, are read back as that list.                              *)
(***************************************************************************)
EXTENDS BotIds, OperatorLemmas, FiniteSetTheorems

(* TypeOK and GeneratorExact together are inductive. *)
IInv == TypeOK /\ GeneratorExact

LEMMA InitIInv == Init => IInv
BY NewGeneratorExact DEF Init, IInv, TypeOK, GeneratorExact, Exact

LEMMA NextIInv == IInv /\ [Next]_vars => IInv'
<1> SUFFICES ASSUME IInv, [Next]_vars PROVE IInv'
  OBVIOUS
<1> USE DEF IInv, TypeOK, GeneratorExact
<1>1. CASE next
  <2>1. Exact(generator', inUse')
    BY <1>1, NextKeepsExact DEF next
  <2>2. NextId(generator) \in 1 .. MaxId
    BY <1>1, NextIdIsLowestFree, MaxIdAssumption DEF next
  <2>3. inUse' \in SUBSET (1 .. MaxId)
    BY <1>1, <2>2 DEF next
  <2> QED
    BY <2>1, <2>3 DEF Exact
<1>2. ASSUME NEW id \in inUse, release_id(id) PROVE IInv'
  <2>1. Exact(generator', inUse')
    BY <1>2, ReleaseKeepsExact DEF release_id
  <2> QED
    BY <1>2, <2>1 DEF Exact, release_id
<1>3. CASE UNCHANGED vars
  BY <1>3 DEF vars, Exact, Generator
<1> QED
  BY <1>1, <1>2, <1>3 DEF Next

(* The generator has a counter and a set of ids, and ids stay in bounds. *)
THEOREM TypeCorrect == Spec => []TypeOK
<1>1. IInv => TypeOK
  BY DEF IInv
<1> QED
  BY <1>1, InitIInv, NextIInv, PTL DEF Spec

(***************************************************************************)
(* The ids up to the counter of release_id and next() are split, at any    *)
(* time, between those released and those in use.                          *)
(***************************************************************************)
THEOREM GeneratorStaysExact == Spec => []GeneratorExact
<1>1. IInv => GeneratorExact
  BY DEF IInv
<1> QED
  BY <1>1, InitIInv, NextIInv, PTL DEF Spec

(* next() never returns the id of a live bot. *)
THEOREM NoIdIsSharedBySpawns == Spec => []NeverHandsOutAnIdInUse
<1>1. IInv => NeverHandsOutAnIdInUse
  BY NextIdIsLowestFree DEF IInv, GeneratorExact, NeverHandsOutAnIdInUse
<1> QED
  BY <1>1, InitIInv, NextIInv, PTL DEF Spec

(***************************************************************************)
(* next() and release_id implement the allocator that always hands out the *)
(* lowest free id.                                                         *)
(***************************************************************************)
THEOREM ImplementsLowest == Spec => ImplementsLowestFreeId
<1>1. Init => Lowest!Init
  BY DEF Init, Lowest!Init
<1>2. IInv /\ [Next]_vars => [Lowest!Next]_inUse
  <2> SUFFICES ASSUME IInv, [Next]_vars PROVE [Lowest!Next]_inUse
    OBVIOUS
  <2>1. CASE next
    <3>1. /\ NextId(generator) \in 1 .. MaxId
          /\ NextId(generator) \notin inUse
          /\ \A k \in 1 .. (NextId(generator) - 1) : k \in inUse
      BY <2>1, NextIdIsLowestFree, MaxIdAssumption DEF IInv, GeneratorExact, next
    <3> QED
      BY <2>1, <3>1 DEF next, Lowest!Next, Lowest!Acquire
  <2>2. ASSUME NEW id \in inUse, release_id(id) PROVE Lowest!Next
    BY <2>2 DEF release_id, Lowest!Next, Lowest!Release
  <2>3. CASE UNCHANGED vars
    BY <2>3 DEF vars
  <2> QED
    BY <2>1, <2>2, <2>3 DEF Next
<1> QED
  BY <1>1, <1>2, InitIInv, NextIInv, PTL DEF Spec, Lowest!Spec, ImplementsLowestFreeId
-----------------------------------------------------------------------------
(* An exact generator is determined by the ids in use. *)
LEMMA ExactIsUnique ==
    ASSUME NEW g, NEW h, NEW U, Exact(g, U), Exact(h, U)
    PROVE  g = h
<1>1. /\ g \in Generator /\ h \in Generator
      /\ g.released_ids \cup U = 1 .. g.last_generated_id
      /\ h.released_ids \cup U = 1 .. h.last_generated_id
      /\ g.released_ids \cap U = {} /\ h.released_ids \cap U = {}
      /\ g.last_generated_id \notin g.released_ids
      /\ h.last_generated_id \notin h.released_ids
  BY DEF Exact
<1>2. g.last_generated_id \in Nat /\ h.last_generated_id \in Nat
  BY <1>1 DEF Generator
<1> DEFINE m == g.last_generated_id
           n == h.last_generated_id
           R == g.released_ids
           Q == h.released_ids
<1>3. m = n
  <2> HIDE DEF m, n, R, Q
  <2>1. R \cup U = 1 .. m /\ Q \cup U = 1 .. n /\ m \notin R /\ n \notin Q
        /\ m \in Nat /\ n \in Nat
    BY <1>1, <1>2 DEF m, n, R, Q
  <2>2. m > 0 => m \in U
    BY <2>1
  <2>3. n > 0 => n \in U
    BY <2>1
  <2>4. m <= n
    BY <2>1, <2>2
  <2>5. n <= m
    BY <2>1, <2>3
  <2> QED
    BY <2>1, <2>4, <2>5
<1>4. R = Q
  BY <1>1, <1>3
<1> QED
  BY <1>1, <1>3, <1>4 DEF Generator

(* Results of n calls of next() that found the ids of U in use. *)
Calls(U, gen, ids, n) ==
    /\ Exact(gen, U \cup ids)
    /\ ids \cap U = {}
    /\ ids \subseteq 1 .. (MaxId + n)
    /\ IsFiniteSet(ids) /\ Cardinality(ids) = n
    /\ \A x \in ids : \A y \in 1 .. (x - 1) : y \in U \cup ids

(* One more call. *)
LEMMA OneMoreCall ==
    ASSUME NEW U \in SUBSET (1 .. MaxId), NEW n \in Nat, NEW gen, NEW ids, Calls(U, gen, ids, n)
    PROVE  Calls(U, AfterNext(gen), ids \cup {NextId(gen)}, n + 1)
<1> DEFINE id == NextId(gen)
           more == ids \cup {id}
<1>1. MaxId \in Nat
  BY MaxIdAssumption
<1>2. /\ id \in Nat \ {0} /\ id \notin U \cup ids
      /\ \A k \in 1 .. (id - 1) : k \in U \cup ids
  BY NextIdIsLowestFree DEF Calls
<1>3. Exact(AfterNext(gen), U \cup more)
  <2>1. Exact(AfterNext(gen), (U \cup ids) \cup {id})
    BY NextKeepsExact DEF Calls
  <2>2. (U \cup ids) \cup {id} = U \cup more
    OBVIOUS
  <2> QED
    BY <2>1, <2>2
<1> HIDE DEF id
<1>4. id <= MaxId + n + 1
  <2> SUFFICES ASSUME id > MaxId + n + 1 PROVE FALSE
    BY <1>1, <1>2
  <2>1. MaxId + n + 1 \in 1 .. (id - 1)
    BY <1>1, <1>2
  <2>2. MaxId + n + 1 \in U \cup ids
    BY <1>2, <2>1
  <2> QED
    BY <1>1, <2>2 DEF Calls
<1>5. more \subseteq 1 .. (MaxId + (n + 1))
  BY <1>1, <1>2, <1>4 DEF Calls
<1>6. more \cap U = {}
  BY <1>2 DEF Calls
<1>7. IsFiniteSet(more) /\ Cardinality(more) = n + 1
  BY <1>2, FS_AddElement DEF Calls
<1>8. \A x \in more : \A y \in 1 .. (x - 1) : y \in U \cup more
  BY <1>2 DEF Calls
<1> HIDE DEF more
<1>9. Calls(U, AfterNext(gen), more, n + 1)
  BY <1>3, <1>5, <1>6, <1>7, <1>8 DEF Calls
<1> QED
  BY <1>9 DEF more, id

(* Any generator, exact or not, is left a generator by next(). *)
LEMMA NextKeepsType ==
    ASSUME NEW g \in Generator
    PROVE  NextId(g) \in Nat /\ AfterNext(g) \in Generator
<1>1. CASE g.released_ids = {}
  BY <1>1 DEF Generator, NextId, AfterNext
<1>2. CASE g.released_ids # {}
  BY <1>2, LeastReleased DEF Generator, NextId, AfterNext
<1> QED
  BY <1>1, <1>2

(* The loop of calls does what its name says. *)
LEMMA CallsOfNextAreCalls ==
    ASSUME NEW g, NEW U \in SUBSET (1 .. MaxId), Exact(g, U), NEW k \in Nat
    PROVE  Calls(U, CallsOfNext(g, k).gen, CallsOfNext(g, k).ids, k)
<1> DEFINE S == [gen : Generator, ids : SUBSET Nat]
           base == [gen |-> g, ids |-> {}]
           More(r) == [gen |-> AfterNext(r.gen), ids |-> r.ids \cup {NextId(r.gen)}]
           step == [p \in S \X (1 .. k) |-> More(p[1])]
           Is(f) == f = [n \in 0 .. k |->
                           IF n = 0 THEN [gen |-> g, ids |-> {}]
                           ELSE [gen |-> AfterNext(f[n - 1].gen),
                                 ids |-> f[n - 1].ids \cup {NextId(f[n - 1].gen)}]]
           after == CHOOSE f : Is(f)
<1>1. base \in S
  BY DEF Exact
<1>2. \A r \in S : More(r) \in S
  BY NextKeepsType
<1>3. step \in [S \X (1 .. k) -> S]
  <2> HIDE DEF S, More
  <2> QED
    BY <1>2
<1>4. \A r \in S, i \in 1 .. k : step[<<r, i>>] = More(r)
  <2> HIDE DEF S, More
  <2> QED
    OBVIOUS
<1>5. PICK f : LoopResults(S, k, base, step, f)
  <2> HIDE DEF S, base, step
  <2> QED
    BY <1>1, <1>3, LoopHasResults
<1>6. /\ f \in [0 .. k -> S]
      /\ \A i \in 0 .. k : f[i] = IF i = 0 THEN base ELSE More(f[i - 1])
  <2> HIDE DEF S, base, More, step
  <2>1. /\ f \in [0 .. k -> S]
        /\ \A i \in 0 .. k : f[i] = IF i = 0 THEN base ELSE step[<<f[i - 1], i>>]
    BY <1>5 DEF LoopResults
  <2>2. \A i \in 0 .. k : i # 0 => step[<<f[i - 1], i>>] = More(f[i - 1])
    BY <1>4, <2>1
  <2> QED
    BY <2>1, <2>2
<1> HIDE DEF S
<1>7. Is(f)
  BY <1>6
<1>8. Is(after)
  <2> HIDE DEF Is
  <2> QED
    BY <1>7
<1>9. CallsOfNext(g, k) = after[k]
  BY DEF CallsOfNext
<1> HIDE DEF after
<1>10. \A i \in 0 .. k : after[i] = IF i = 0 THEN base ELSE More(after[i - 1])
  BY <1>8
<1> HIDE DEF Is, base, More
<1> DEFINE T == {i \in 0 .. k : Calls(U, after[i].gen, after[i].ids, i)}
<1>11. 0 \in T
  <2>1. after[0].gen = g /\ after[0].ids = {} /\ 0 \in 0 .. k
    BY <1>10 DEF base
  <2>2. Calls(U, g, {}, 0)
    BY FS_EmptySet DEF Calls
  <2> QED
    BY <2>1, <2>2
<1>12. ASSUME NEW i \in 1 .. k, i - 1 \in T
       PROVE  i \in T
  <2>1. i \in 0 .. k /\ i # 0 /\ i - 1 \in Nat /\ (i - 1) + 1 = i
    OBVIOUS
  <2>2. /\ after[i].gen = AfterNext(after[i - 1].gen)
        /\ after[i].ids = after[i - 1].ids \cup {NextId(after[i - 1].gen)}
    <3>1. after[i] = More(after[i - 1])
      BY <1>10, <2>1
    <3> QED
      BY <3>1 DEF More
  <2>3. Calls(U, after[i - 1].gen, after[i - 1].ids, i - 1)
    BY <1>12
  <2>4. Calls(U, after[i].gen, after[i].ids, (i - 1) + 1)
    BY <2>1, <2>2, <2>3, OneMoreCall
  <2> QED
    BY <2>1, <2>4
<1> HIDE DEF T
<1>13. k \in T
  BY <1>11, <1>12, UpTo
<1> QED
  BY <1>9, <1>13 DEF T

(* The next ids are free, and free ids below one of them are among them. *)
AreLowestFree(U, ids) ==
    /\ ids \cap U = {}
    /\ \A x \in ids : \A y \in 1 .. (x - 1) : y \in U \cup ids

LEMMA NextIdsAreLowestFree ==
    ASSUME NEW g, NEW U, Exact(g, U), NEW b \in Nat, NEW ids \in SUBSET (1 .. b)
    PROVE  AreNextIds(g, ids) <=> AreLowestFree(U, ids)
<1> DEFINE last == g.last_generated_id
           R == g.released_ids
<1>1. /\ last \in Nat /\ R \in SUBSET Nat /\ U \in SUBSET Nat
      /\ R \cup U = 1 .. last /\ R \cap U = {}
  BY DEF Exact, Generator
<1>2. AreNextIds(g, ids) <=>
        /\ \A x \in ids : x \in R \/ x > last
        /\ \A x \in ids : \A y \in R : y < x => y \in ids
        /\ \A x \in ids : \A y \in (last + 1) .. x : y \in ids
  BY DEF AreNextIds
<1> HIDE DEF last, R
<1>3. ASSUME AreNextIds(g, ids) PROVE AreLowestFree(U, ids)
  <2>1. ids \cap U = {}
    BY <1>1, <1>2, <1>3
  <2>2. ASSUME NEW x \in ids, NEW y \in 1 .. (x - 1) PROVE y \in U \cup ids
    <3>1. CASE y <= last
      <4>1. y \in R \/ y \in U
        BY <1>1, <3>1
      <4>2. y < x
        OBVIOUS
      <4> QED
        BY <1>2, <1>3, <4>1, <4>2
    <3>2. CASE y > last
      <4>1. y \in (last + 1) .. x
        BY <1>1, <3>2
      <4> QED
        BY <1>2, <1>3, <4>1
    <3> QED
      BY <1>1, <3>1, <3>2
  <2> QED
    BY <2>1, <2>2 DEF AreLowestFree
<1>4. ASSUME AreLowestFree(U, ids) PROVE AreNextIds(g, ids)
  <2>1. ids \cap U = {} /\ \A x \in ids : \A y \in 1 .. (x - 1) : y \in U \cup ids
    BY <1>4 DEF AreLowestFree
  <2>2. \A x \in ids : x \in R \/ x > last
    BY <1>1, <2>1
  <2>3. ASSUME NEW x \in ids, NEW y \in R, y < x PROVE y \in ids
    <3>1. y \in 1 .. (x - 1)
      BY <1>1, <2>3
    <3> QED
      BY <1>1, <2>1, <3>1
  <2>4. ASSUME NEW x \in ids, NEW y \in (last + 1) .. x PROVE y \in ids
    <3>1. y = x \/ y \in 1 .. (x - 1)
      BY <1>1
    <3>2. y \notin U
      BY <1>1
    <3> QED
      BY <2>1, <3>1, <3>2
  <2> QED
    BY <1>2, <2>2, <2>3, <2>4
<1> QED
  BY <1>3, <1>4

(* As many of the lowest free ids are the same ids. *)
LEMMA LowestFreeAreUnique ==
    ASSUME NEW U, NEW b \in Nat, NEW A \in SUBSET (1 .. b), NEW B \in SUBSET (1 .. b),
           AreLowestFree(U, A), AreLowestFree(U, B), Cardinality(A) = Cardinality(B)
    PROVE  A = B
<1>1. A \subseteq B \/ B \subseteq A
  <2> SUFFICES ASSUME NEW x \in A, x \notin B, NEW y \in B, y \notin A PROVE FALSE
    OBVIOUS
  <2>1. x \in 1 .. (y - 1) \/ y \in 1 .. (x - 1)
    OBVIOUS
  <2>2. ~(x \in 1 .. (y - 1))
    BY DEF AreLowestFree
  <2>3. ~(y \in 1 .. (x - 1))
    BY DEF AreLowestFree
  <2> QED
    BY <2>1, <2>2, <2>3
<1>2. IsFiniteSet(1 .. b)
  BY FS_Interval
<1>3. IsFiniteSet(A) /\ IsFiniteSet(B)
  BY <1>2, FS_Subset
<1>4. CASE A \subseteq B
  BY <1>3, <1>4, FS_Subset
<1>5. CASE B \subseteq A
  BY <1>3, <1>5, FS_Subset
<1> QED
  BY <1>1, <1>4, <1>5

(* The calls of next() return the next ids and leave what AfterNextIds says. *)
IsBatch(g, k, calls) ==
    /\ Cardinality(calls.ids) = k
    /\ AfterNextIds(g, calls.ids) = calls.gen
    /\ \A S \in SUBSET (1 .. (MaxId + MaxBatch)) :
          AreNextIds(g, S) /\ Cardinality(S) = k <=> S = calls.ids

LEMMA BatchOfCalls ==
    ASSUME NEW g, NEW U \in SUBSET (1 .. MaxId), Exact(g, U), NEW k \in 0 .. MaxBatch
    PROVE  IsBatch(g, k, CallsOfNext(g, k))
<1> DEFINE calls == CallsOfNext(g, k)
           ids == calls.ids
           gen == calls.gen
           b == MaxId + MaxBatch
<1>1. b \in Nat /\ k \in Nat /\ MaxId + k <= b /\ MaxId \in Nat
  BY MaxIdAssumption, MaxBatchAssumption
<1>2. Calls(U, gen, ids, k)
  BY <1>1, CallsOfNextAreCalls
<1> HIDE DEF b, ids, gen
<1>3. ids \in SUBSET (1 .. b) /\ AreLowestFree(U, ids) /\ Cardinality(ids) = k
  BY <1>1, <1>2 DEF Calls, AreLowestFree
<1>4. AreNextIds(g, ids)
  BY <1>1, <1>3, NextIdsAreLowestFree
<1>5. AfterNextIds(g, ids) = gen
  <2>1. Exact(AfterNextIds(g, ids), U \cup ids)
    BY <1>1, <1>3, <1>4, NextIdsKeepExact
  <2>2. Exact(gen, U \cup ids)
    BY <1>2 DEF Calls
  <2> QED
    BY <2>1, <2>2, ExactIsUnique
<1>6. ASSUME NEW S \in SUBSET (1 .. b), AreNextIds(g, S), Cardinality(S) = k
      PROVE  S = ids
  <2>1. AreLowestFree(U, S)
    BY <1>1, <1>6, NextIdsAreLowestFree
  <2> QED
    BY <1>1, <1>3, <1>6, <2>1, LowestFreeAreUnique
<1> QED
  BY <1>3, <1>4, <1>5, <1>6 DEF IsBatch, ids, gen, b

(***************************************************************************)
(* The loop of the tick over next() hands out the one set of ids that      *)
(* AreNextIds admits and leaves the generator AfterNextIds says, for any   *)
(* number of spawns: the tick of Simulation needs no loop.                 *)
(***************************************************************************)
THEOREM SpawnsOfATickAreALoop == Spec => []BatchIsLoop
<1>1. IInv => BatchIsLoop
  <2> SUFFICES ASSUME IInv PROVE BatchIsLoop
    OBVIOUS
  <2>1. Exact(generator, inUse) /\ inUse \in SUBSET (1 .. MaxId)
    BY DEF IInv, TypeOK, GeneratorExact
  <2>2. \A k \in 0 .. MaxBatch : IsBatch(generator, k, CallsOfNext(generator, k))
    BY <2>1, BatchOfCalls
  <2> QED
    BY <2>2, Zenon DEF BatchIsLoop, IsBatch
<1> QED
  BY <1>1, InitIInv, NextIInv, PTL DEF Spec

-----------------------------------------------------------------------------
(* The ids that the first n calls of release_id are for. *)
Released(order, n) == {order[i] : i \in 1 .. n}

(* Whatever the order of the calls, the generator is exact for the others. *)
LEMMA CallsOfReleaseKeepExact ==
    ASSUME NEW g, NEW U, Exact(g, U), NEW order \in Seq(U),
           \A i, j \in 1 .. Len(order) : i # j => order[i] # order[j]
    PROVE  Exact(CallsOfRelease(g, order), U \ Released(order, Len(order)))
<1> DEFINE k == Len(order)
           After(r, i) == AfterRelease(r, order[i])
           step == [p \in Generator \X (1 .. k) |->
                      IF After(p[1], p[2]) \in Generator THEN After(p[1], p[2]) ELSE p[1]]
           Is(f) == f = [n \in 0 .. k |-> IF n = 0 THEN g ELSE AfterRelease(f[n - 1], order[n])]
           after == CHOOSE f : Is(f)
           Left(i) == U \ Released(order, i)
<1>1. k \in Nat /\ g \in Generator /\ \A i \in 1 .. k : order[i] \in U
  BY DEF Exact
<1>2. step \in [Generator \X (1 .. k) -> Generator]
  <2> HIDE DEF k, After
  <2> QED
    OBVIOUS
<1>3. \A r \in Generator, i \in 1 .. k :
         After(r, i) \in Generator => step[<<r, i>>] = After(r, i)
  <2> HIDE DEF k, After
  <2> QED
    OBVIOUS
<1>4. ASSUME NEW i \in 1 .. k, NEW r, Exact(r, Left(i - 1))
      PROVE  r \in Generator /\ After(r, i) \in Generator /\ Exact(After(r, i), Left(i))
  <2>1. order[i] \in Left(i - 1)
    <3>1. ASSUME NEW j \in 1 .. (i - 1) PROVE order[j] # order[i]
      <4>1. j \in 1 .. k /\ j # i
        BY <1>1
      <4> QED
        BY <4>1
    <3> QED
      BY <1>1, <3>1 DEF Released
  <2>2. Left(i - 1) \ {order[i]} = Left(i)
    <3>1. 1 .. i = (1 .. (i - 1)) \cup {i}
      BY <1>1
    <3>2. Released(order, i) = Released(order, i - 1) \cup {order[i]}
      BY <3>1 DEF Released
    <3> QED
      BY <3>2
  <2> HIDE DEF Left
  <2>3. Exact(AfterRelease(r, order[i]), Left(i - 1) \ {order[i]})
    BY <1>4, <2>1, ReleaseKeepsExact
  <2> QED
    BY <1>4, <2>2, <2>3 DEF Exact
<1>5. PICK f : LoopResults(Generator, k, g, step, f)
  <2> HIDE DEF k, step
  <2> QED
    BY <1>1, <1>2, LoopHasResults
<1>6. /\ f \in [0 .. k -> Generator]
      /\ \A i \in 0 .. k : f[i] = IF i = 0 THEN g ELSE step[<<f[i - 1], i>>]
  BY <1>5 DEF LoopResults
<1> HIDE DEF k, After, step
<1> DEFINE T == {i \in 0 .. k : Exact(f[i], Left(i)) /\ (i # 0 => f[i] = After(f[i - 1], i))}
<1>7. 0 \in T
  <2>1. 0 \in 0 .. k
    BY <1>1
  <2>2. f[0] = g
    BY <1>6, <2>1, Zenon
  <2>3. Left(0) = U
    BY DEF Released
  <2> HIDE DEF Left
  <2> QED
    BY <2>1, <2>2, <2>3
<1>8. ASSUME NEW i \in 1 .. k, i - 1 \in T
      PROVE  i \in T
  <2>1. i \in 0 .. k /\ i # 0
    BY <1>1
  <2>2. f[i] = step[<<f[i - 1], i>>]
    BY <1>6, <2>1
  <2> HIDE DEF Left
  <2>3. Exact(f[i - 1], Left(i - 1))
    BY <1>8
  <2>4. After(f[i - 1], i) \in Generator /\ Exact(After(f[i - 1], i), Left(i))
        /\ f[i - 1] \in Generator
    BY <1>4, <2>3
  <2>5. f[i] = After(f[i - 1], i)
    BY <1>3, <2>2, <2>4
  <2> QED
    BY <2>1, <2>4, <2>5
<1>9. \A i \in 0 .. k : i \in T
  <2> HIDE DEF T
  <2> QED
    BY <1>1, <1>7, <1>8, UpTo
<1>10. Is(f)
  <2>1. \A i \in 0 .. k : f[i] = IF i = 0 THEN g ELSE AfterRelease(f[i - 1], order[i])
    <3> SUFFICES ASSUME NEW i \in 0 .. k
                 PROVE  f[i] = IF i = 0 THEN g ELSE AfterRelease(f[i - 1], order[i])
      OBVIOUS
    <3>1. CASE i = 0
      BY <1>6, <3>1
    <3>2. CASE i # 0
      BY <1>9, <3>2 DEF After
    <3> QED
      BY <3>1, <3>2
  <2> QED
    BY <1>6, <2>1
<1>11. Is(after)
  <2> HIDE DEF Is
  <2> QED
    BY <1>10
<1>12. CallsOfRelease(g, order) = after[k]
  BY DEF CallsOfRelease, k
<1> HIDE DEF after
<1> DEFINE V == {i \in 0 .. k : after[i] = f[i]}
<1>13. 0 \in V
  <2>1. 0 \in 0 .. k
    BY <1>1
  <2>2. f[0] = g /\ after[0] = g
    BY <1>6, <1>11, <2>1
  <2> QED
    BY <2>1, <2>2
<1>14. ASSUME NEW i \in 1 .. k, i - 1 \in V
       PROVE  i \in V
  <2>1. i \in 0 .. k /\ i # 0
    BY <1>1
  <2>2. after[i] = AfterRelease(after[i - 1], order[i])
    BY <1>11, <2>1
  <2>3. f[i] = AfterRelease(f[i - 1], order[i])
    BY <1>10, <2>1
  <2> QED
    BY <1>14, <2>1, <2>2, <2>3
<1>15. after[k] = f[k] /\ Exact(f[k], Left(k))
  <2>1. \A i \in 0 .. k : i \in V
    <3> HIDE DEF V
    <3> QED
      BY <1>1, <1>13, <1>14, UpTo
  <2>2. k \in 0 .. k
    BY <1>1
  <2>3. k \in V /\ k \in T
    <3> HIDE DEF V, T
    <3> QED
      BY <1>9, <2>1, <2>2
  <2> HIDE DEF Left
  <2> QED
    BY <2>3
<1> QED
  BY <1>12, <1>15 DEF k

(***************************************************************************)
(* retain releases the ids of bots in the order in which a HashMap visits  *)
(* them: whatever it is, the generator is left as AfterReleases says.      *)
(***************************************************************************)
THEOREM ReleasesCommute == Spec => []ReleaseOrderIsIrrelevant
<1>1. IInv => ReleaseOrderIsIrrelevant
  <2> SUFFICES ASSUME IInv, NEW S \in SUBSET inUse, Cardinality(S) = MaxBatch,
                      NEW order \in SetToSeqs(S)
               PROVE  CallsOfRelease(generator, order) = AfterReleases(generator, S)
    BY Zenon DEF ReleaseOrderIsIrrelevant, kSubset
  <2>1. Exact(generator, inUse) /\ inUse \in SUBSET (1 .. MaxId) /\ MaxId \in Nat
    BY MaxIdAssumption DEF IInv, TypeOK, GeneratorExact
  <2> DEFINE n == Cardinality(S)
  <2>2. IsFiniteSet(S) /\ n \in Nat
    <3>1. IsFiniteSet(1 .. MaxId)
      BY <2>1, FS_Interval
    <3>2. S \in SUBSET (1 .. MaxId)
      BY <2>1
    <3> QED
      BY <3>1, <3>2, FS_Subset, FS_CardinalityType
  <2>3. order \in [1 .. n -> S] /\ \A i, j \in 1 .. n : i # j => order[i] # order[j]
    BY DEF SetToSeqs
  <2> HIDE DEF n
  <2>4. order \in Seq(inUse) /\ Len(order) = n
    BY <2>2, <2>3
  <2>5. Released(order, n) = S
    <3>1. order \in Injection(1 .. n, S)
      BY <2>3 DEF Injection, IsInjective
    <3>2. Cardinality(1 .. n) = Cardinality(S)
      BY <2>2, FS_Interval DEF n
    <3>3. order \in Surjection(1 .. n, S)
      BY <2>2, <3>1, <3>2, FS_Injection
    <3> QED
      BY <2>3, <3>3 DEF Surjection, Released
  <2>6. Exact(CallsOfRelease(generator, order), inUse \ S)
    BY <2>1, <2>3, <2>4, <2>5, CallsOfReleaseKeepExact
  <2>7. Exact(AfterReleases(generator, S), inUse \ S)
    BY <2>1, ReleasesKeepExact
  <2> QED
    BY <2>6, <2>7, ExactIsUnique
<1> QED
  BY <1>1, InitIInv, NextIInv, PTL DEF Spec
-----------------------------------------------------------------------------
(* Division. *)

(* A quotient is told by a rest that is less than the divisor. *)
LEMMA Quotient ==
    ASSUME NEW c \in Nat, NEW n \in Nat \ {0}, NEW q \in Nat, NEW s \in 0 .. (n - 1),
           c = n * q + s
    PROVE  c \div n = q /\ c % n = s
<1> DEFINE d == c \div n
           e == c % n
<1>1. d \in Nat /\ e \in 0 .. (n - 1) /\ c = n * d + e
  BY Division
<1> HIDE DEF d, e
<1>2. n * q \in Nat /\ n * d \in Nat
  BY <1>1
<1>3. d <= q
  BY <1>1, <1>2, Multiples
<1>4. q <= d
  BY <1>1, <1>2, Multiples
<1>5. d = q
  BY <1>1, <1>3, <1>4
<1>6. e = s
  BY <1>1, <1>2, <1>5
<1> QED
  BY <1>5, <1>6 DEF d, e

(* Shifting by m and then by n shifts by both. *)
LEMMA DivDiv ==
    ASSUME NEW c \in Nat, NEW m \in Nat \ {0}, NEW n \in Nat \ {0}
    PROVE  (c \div m) \div n = c \div (m * n)
<1> DEFINE d == c \div m
           q == d \div n
           s == c % m
           u == d % n
<1>1. d \in Nat /\ s \in 0 .. (m - 1) /\ c = m * d + s
  BY Division
<1>2. q \in Nat /\ u \in 0 .. (n - 1) /\ d = n * q + u
  <2> HIDE DEF d
  <2> QED
    BY <1>1, Division
<1> HIDE DEF d, q, s, u
<1>3. m * n \in Nat \ {0}
  BY SMT
<1>4. c = (m * n) * q + (m * u + s)
  <2>1. m * d = m * (n * q) + m * u
    BY <1>1, <1>2, SMT
  <2>2. m * (n * q) = (m * n) * q
    BY <1>2, SMT
  <2>3. (m * n) * q \in Nat /\ m * u \in Nat
    BY <1>2, SMT
  <2> DEFINE md == m * d
             mnq == (m * n) * q
             mu == m * u
  <2>4. c = md + s /\ md = mnq + mu /\ mnq \in Nat /\ mu \in Nat /\ s \in Nat
    BY <1>1, <2>1, <2>2, <2>3
  <2> HIDE DEF md, mnq, mu
  <2>5. c = mnq + (mu + s)
    BY <2>4
  <2> QED
    BY <2>5 DEF mnq, mu
<1>5. m * u + s \in 0 .. (m * n - 1)
  <2>1. m * u <= m * (n - 1)
    BY <1>2, SMT
  <2>2. m * (n - 1) = m * n - m
    BY SMT
  <2>3. m * u \in Nat
    BY <1>2, SMT
  <2> QED
    BY <1>1, <1>3, <2>1, <2>2, <2>3
<1> DEFINE mn == m * n
           rest == m * u + s
<1>6. mn \in Nat \ {0} /\ rest \in 0 .. (mn - 1) /\ c = mn * q + rest
  BY <1>3, <1>4, <1>5
<1> HIDE DEF mn, rest
<1>7. c \div mn = q
  BY <1>2, <1>6, Quotient
<1> QED
  BY <1>7 DEF mn, q, d

(* Multiples of the divisor show in the quotient only. *)
LEMMA AddMultiple ==
    ASSUME NEW c \in Nat, NEW n \in Nat \ {0}, NEW k \in Nat
    PROVE  (n * k + c) \div n = k + (c \div n) /\ (n * k + c) % n = c % n
<1> DEFINE q == c \div n
           s == c % n
           big == n * k + c
<1>1. q \in Nat /\ s \in 0 .. (n - 1) /\ c = n * q + s
  BY Division
<1> HIDE DEF q, s
<1>2. n * (k + q) = n * k + n * q
  BY <1>1, SMT
<1>3. big \in Nat /\ big = n * (k + q) + s
  <2>1. n * k \in Nat /\ n * q \in Nat
    BY <1>1, SMT
  <2> QED
    BY <1>1, <1>2, <2>1
<1> HIDE DEF big
<1>4. big \div n = k + q /\ big % n = s
  <2>1. k + q \in Nat
    BY <1>1
  <2> DEFINE kq == k + q
  <2> HIDE DEF kq
  <2>2. kq \in Nat /\ big = n * kq + s
    BY <2>1, <1>3 DEF kq
  <2>3. big \div n = kq /\ big % n = s
    BY <1>1, <1>3, <2>2, Quotient
  <2> QED
    BY <2>3 DEF kq
<1> QED
  BY <1>4 DEF big, q, s

-----------------------------------------------------------------------------
(* Powers of 2. *)

LEMMA Widths ==
    /\ Word \in Nat /\ Group \in Nat \ {0}
    /\ 4 * Group \in Nat /\ 5 * Group \in Nat /\ 4 * Group < Word /\ Word <= 5 * Group
BY CompoundIdAssumption

LEMMA Pow2Value ==
    /\ Pow2[0] = 1
    /\ \A n \in 1 .. 5 * Group : Pow2[n] = 2 * Pow2[n - 1]
    /\ \A n \in 0 .. 5 * Group : Pow2[n] \in Nat \ {0}
<1> DEFINE m == 5 * Group
           X == Nat \ {0}
           step == [p \in X \X (1 .. m) |-> 2 * p[1]]
           Is(f) == f = [n \in 0 .. m |-> IF n = 0 THEN 1 ELSE 2 * f[n - 1]]
<1>1. m \in Nat
  BY Widths
<1>2. Pow2 = CHOOSE f : Is(f)
  BY DEF Pow2
<1> HIDE DEF m
<1>3. 1 \in X /\ step \in [X \X (1 .. m) -> X] /\ \A x \in X, i \in 1 .. m : step[<<x, i>>] = 2 * x
  OBVIOUS
<1>4. PICK f : LoopResults(X, m, 1, step, f)
  <2> HIDE DEF X, step
  <2> QED
    BY <1>1, <1>3, LoopHasResults
<1>5. f \in [0 .. m -> X] /\ \A i \in 0 .. m : f[i] = IF i = 0 THEN 1 ELSE step[<<f[i - 1], i>>]
  <2> HIDE DEF X, step
  <2> QED
    BY <1>4 DEF LoopResults
<1>6. \A i \in 0 .. m : f[i] = IF i = 0 THEN 1 ELSE 2 * f[i - 1]
  <2> SUFFICES ASSUME NEW i \in 0 .. m, i # 0 PROVE f[i] = 2 * f[i - 1]
    BY <1>5
  <2>1. f[i - 1] \in X /\ i \in 1 .. m
    BY <1>1, <1>5
  <2> HIDE DEF X, step
  <2> QED
    BY <1>3, <1>5, <2>1
<1>7. Is(f)
  BY <1>5, <1>6
<1>8. Is(Pow2)
  <2> HIDE DEF Is
  <2> QED
    BY <1>2, <1>7
<1>9. \A i \in 0 .. m : Pow2[i] = IF i = 0 THEN 1 ELSE 2 * Pow2[i - 1]
  BY <1>8
<1> DEFINE T == {i \in 0 .. m : Pow2[i] \in Nat \ {0}}
<1>10. 0 \in T
  BY <1>1, <1>9
<1>11. ASSUME NEW i \in 1 .. m, i - 1 \in T PROVE i \in T
  <2>1. i \in 0 .. m /\ i # 0
    BY <1>1
  <2>2. Pow2[i] = 2 * Pow2[i - 1]
    BY <1>9, <2>1
  <2> QED
    BY <1>11, <2>1, <2>2
<1>12. \A i \in 0 .. m : i \in T
  <2> HIDE DEF T
  <2> QED
    BY <1>1, <1>10, <1>11, UpTo
<1>13. 0 \in 0 .. m /\ \A n \in 1 .. m : n \in 0 .. m /\ n # 0
  BY <1>1
<1>14. Pow2[0] = 1 /\ \A n \in 1 .. m : Pow2[n] = 2 * Pow2[n - 1]
  BY <1>9, <1>13
<1> QED
  BY <1>12, <1>14 DEF m

LEMMA Pow2Sum ==
    ASSUME NEW j \in Nat, NEW k \in Nat, j + k <= 5 * Group
    PROVE  Pow2[j + k] = Pow2[j] * Pow2[k]
<1> DEFINE T == {i \in 0 .. k : Pow2[j + i] = Pow2[j] * Pow2[i]}
<1>1. 5 * Group \in Nat
  BY Widths
<1> DEFINE m == 5 * Group
<1> HIDE DEF m
<1>2. /\ m \in Nat /\ j + k <= m /\ Pow2[0] = 1
      /\ \A n \in 1 .. m : Pow2[n] = 2 * Pow2[n - 1]
      /\ \A n \in 0 .. m : Pow2[n] \in Nat \ {0}
  BY <1>1, Pow2Value DEF m
<1>3. 0 \in T
  <2>1. j \in 0 .. m
    BY <1>2
  <2>2. Pow2[j] \in Nat
    BY <1>2, <2>1
  <2> QED
    BY <1>2, <2>2
<1>4. ASSUME NEW i \in 1 .. k, i - 1 \in T PROVE i \in T
  <2>1. i \in 0 .. k /\ i \in 1 .. m /\ j + i \in 1 .. m /\ j + i - 1 = j + (i - 1)
        /\ j \in 0 .. m /\ i - 1 \in 0 .. m
    BY <1>2
  <2>2. Pow2[j + i] = 2 * Pow2[j + (i - 1)] /\ Pow2[i] = 2 * Pow2[i - 1]
    BY <1>2, <2>1
  <2>3. Pow2[j + (i - 1)] = Pow2[j] * Pow2[i - 1]
    BY <1>4
  <2>4. Pow2[j] \in Nat /\ Pow2[i - 1] \in Nat
    BY <1>2, <2>1
  <2> DEFINE x == Pow2[j]
             y == Pow2[i - 1]
  <2> HIDE DEF x, y
  <2>5. 2 * (x * y) = x * (2 * y)
    BY <2>4, SMT DEF x, y
  <2>6. Pow2[j + i] = Pow2[j] * Pow2[i]
    BY <2>2, <2>3, <2>5 DEF x, y
  <2> QED
    BY <2>1, <2>6
<1>5. \A i \in 0 .. k : i \in T
  <2> HIDE DEF T
  <2> QED
    BY <1>3, <1>4, UpTo
<1>6. k \in 0 .. k
  OBVIOUS
<1> QED
  BY <1>5, <1>6

LEMMA Pow2Grows ==
    ASSUME NEW j \in Nat, NEW k \in Nat, j <= k, k <= 5 * Group
    PROVE  Pow2[j] <= Pow2[k]
<1> DEFINE d == k - j
<1>1. d \in Nat /\ j + d = k /\ 5 * Group \in Nat
  BY Widths
<1>2. Pow2[k] = Pow2[j] * Pow2[d]
  <2> HIDE DEF d
  <2> QED
    BY <1>1, Pow2Sum
<1>3. j \in 0 .. 5 * Group /\ d \in 0 .. 5 * Group
  BY <1>1
<1>4. Pow2[j] \in Nat \ {0} /\ Pow2[d] \in Nat \ {0}
  BY <1>3, Pow2Value
<1> DEFINE x == Pow2[j]
           y == Pow2[d]
<1> HIDE DEF x, y
<1>5. x <= x * y
  BY <1>4, SMT DEF x, y
<1> QED
  BY <1>2, <1>5 DEF x, y
-----------------------------------------------------------------------------
(* Groups of bits. *)

(* The number of values of a group, and the group above k others. *)
Radix == Pow2[Group]
Digit(v, k) == (v \div Pow2[k * Group]) % Radix

(* k groups weigh Radix times as much as k - 1. *)
LEMMA Weights ==
    ASSUME NEW k \in 0 .. 4
    PROVE  /\ Radix \in Nat \ {0}
           /\ k * Group \in Nat /\ k * Group <= 4 * Group
           /\ Pow2[k * Group] \in Nat \ {0} /\ Pow2[(k + 1) * Group] \in Nat \ {0}
           /\ Pow2[(k + 1) * Group] = Pow2[k * Group] * Radix
<1>1. Group \in Nat \ {0}
  BY Widths
<1>2. k * Group \in Nat /\ k * Group <= 4 * Group
  BY <1>1, k \in {0, 1, 2, 3, 4}
<1>3. (k + 1) * Group = k * Group + Group
  BY <1>1, k \in {0, 1, 2, 3, 4}
<1> DEFINE w == k * Group
           m == 5 * Group
           next_w == (k + 1) * Group
<1>4. w \in 0 .. m /\ next_w \in 0 .. m /\ Group \in 0 .. m /\ next_w = w + Group
  BY <1>1, <1>2, <1>3
<1>5. \A n \in 0 .. m : Pow2[n] \in Nat \ {0}
  BY Pow2Value
<1>6. Pow2[w + Group] = Pow2[w] * Pow2[Group]
  <2>1. w \in Nat /\ Group \in Nat /\ w + Group <= 5 * Group
    BY <1>1, <1>4
  <2> HIDE DEF w
  <2> QED
    BY <2>1, Pow2Sum
<1> HIDE DEF w, m, next_w
<1>7. Pow2[w] \in Nat \ {0} /\ Pow2[next_w] \in Nat \ {0} /\ Pow2[Group] \in Nat \ {0}
      /\ Pow2[next_w] = Pow2[w] * Pow2[Group]
  BY <1>4, <1>5, <1>6
<1> QED
  BY <1>2, <1>7 DEF w, next_w, Radix

LEMMA WordType == Words \subseteq Nat /\ Pow2[Word] \in Nat \ {0} /\ \A v \in Words : v < Pow2[Word]
<1>1. Word \in 0 .. 5 * Group
  BY Widths
<1>2. Pow2[Word] \in Nat \ {0}
  BY <1>1, Pow2Value
<1> QED
  BY <1>2 DEF Words

(* The mask keeps a group and its place in the byte. *)
LEMMA MaskedValue ==
    ASSUME NEW x \in Nat
    PROVE  Masked(x) = 2 * ((x \div 2) % Radix)
<1> DEFINE h == x \div 2
           b == x % 2
           m == h \div Radix
           s == h % Radix
<1>1. Radix \in Nat \ {0}
  BY Weights, 0 \in 0 .. 4
<1>2. h \in Nat /\ b \in 0 .. 1 /\ x = 2 * h + b
  BY Division
<1>3. m \in Nat /\ s \in 0 .. (Radix - 1) /\ h = Radix * m + s
  <2> HIDE DEF h
  <2> QED
    BY <1>1, <1>2, Division
<1> HIDE DEF h, b, m, s
<1>4. x = (2 * Radix) * m + (2 * s + b)
  <2> DEFINE r == Radix
             rm == r * m
  <2>1. (2 * r) * m = 2 * rm /\ rm \in Nat
    <3> HIDE DEF r
    <3>1. r \in Nat
      BY <1>1 DEF r
    <3> QED
      BY <1>3, <3>1, SMT
  <2>2. h = rm + s
    BY <1>3
  <2> HIDE DEF rm
  <2>3. x = 2 * rm + (2 * s + b)
    BY <1>2, <1>3, <2>1, <2>2
  <2> QED
    BY <2>1, <2>3 DEF r
<1>5. x % (2 * Radix) = 2 * s + b
  <2> DEFINE rr == 2 * Radix
             y == 2 * s + b
  <2>1. rr \in Nat \ {0} /\ y \in 0 .. (rr - 1) /\ x = rr * m + y
    BY <1>1, <1>2, <1>3, <1>4
  <2> HIDE DEF rr, y
  <2>2. x % rr = y
    BY <1>3, <2>1, Quotient
  <2> QED
    BY <2>2 DEF rr, y
<1>6. Pow2[Group + 1] = 2 * Radix
  <2>1. Group + 1 \in 1 .. 5 * Group /\ (Group + 1) - 1 = Group
    BY Widths
  <2> QED
    BY <2>1, Pow2Value DEF Radix
<1>7. Masked(x) = (2 * s + b) - b
  BY <1>5, <1>6 DEF Masked, b
<1>8. Masked(x) = 2 * s
  BY <1>2, <1>3, <1>7
<1> QED
  BY <1>8 DEF s, h

(* Each byte has one group, whichever way it is shifted. *)
LEMMA ByteValue ==
    ASSUME NEW v \in Words, NEW g \in 0 .. 4
    PROVE  Byte(v, g) = 2 * Digit(v, 4 - g)
<1> DEFINE k == 4 - g
           q == Pow2[k * Group]
<1>1. k \in 0 .. 4 /\ v \in Nat
  BY WordType
<1>2. Radix \in Nat \ {0} /\ q \in Nat \ {0}
  <2> HIDE DEF k
  <2> QED
    BY <1>1, Weights
<1>3. CASE g > 0
  <2> DEFINE W == Pow2[Word]
             y == (2 * v) % W
             m == (2 * v) \div W
             low == k * Group + (Group + 1)
             z == Pow2[Word - low]
             x == y \div q
  <2>1. k \in 0 .. 3
    BY <1>3
  <2>2. W \in Nat \ {0}
    BY WordType
  <2>3. m \in Nat /\ y \in Nat /\ 2 * v = W * m + y
    <3> DEFINE c == 2 * v
    <3>1. c \in Nat
      BY <1>1
    <3> HIDE DEF c, W
    <3>2. c \div W \in Nat /\ c % W \in 0 .. (W - 1) /\ c = W * (c \div W) + (c % W)
      BY <2>2, <3>1, Division
    <3> QED
      BY <2>2, <3>2 DEF c
  <2>4. W = (q * 2) * (Radix * z) /\ z \in Nat \ {0}
    <3>1. Group \in Nat \ {0} /\ Word \in Nat /\ 4 * Group + 1 <= Word /\ Word <= 5 * Group
      BY Widths
    <3>2. k * Group \in Nat /\ k * Group <= 3 * Group
      BY <2>1, <3>1, k \in {0, 1, 2, 3}
    <3>3. low \in Nat /\ Word - low \in Nat /\ low + (Word - low) = Word
      BY <3>1, <3>2
    <3>4. W = Pow2[low] * z
      <4> DEFINE e == Word - low
      <4>1. e \in Nat /\ low + e = Word
        BY <3>3
      <4> HIDE DEF e, low
      <4>2. Pow2[low + e] = Pow2[low] * Pow2[e]
        BY <3>1, <3>3, <4>1, Pow2Sum
      <4> QED
        BY <4>1, <4>2 DEF e
    <3>5. Pow2[low] = q * Pow2[Group + 1]
      <4> DEFINE kg == k * Group
      <4>1. kg \in Nat /\ Group + 1 \in Nat /\ kg + (Group + 1) <= 5 * Group
        BY <3>1, <3>2
      <4> HIDE DEF kg
      <4>2. Pow2[kg + (Group + 1)] = Pow2[kg] * Pow2[Group + 1]
        BY <4>1, Pow2Sum
      <4> QED
        BY <4>2 DEF kg
    <3>6. Pow2[Group + 1] = 2 * Radix
      <4>1. Group + 1 \in 1 .. 5 * Group /\ (Group + 1) - 1 = Group
        BY <3>1
      <4> QED
        BY <4>1, Pow2Value DEF Radix
    <3>7. z \in Nat \ {0}
      <4>1. Word - low \in 0 .. 5 * Group
        BY <3>1, <3>3
      <4> QED
        BY <4>1, Pow2Value
    <3> DEFINE r == Radix
    <3>8. r \in Nat /\ W = (q * (2 * r)) * z
      BY <1>2, <3>4, <3>5, <3>6
    <3> HIDE DEF r, q, z, W
    <3>9. (q * (2 * r)) * z = (q * 2) * (r * z)
      BY <1>2, <3>7, <3>8, SMT
    <3> QED
      BY <3>7, <3>8, <3>9 DEF r
  <2>5. Byte(v, g) = Masked(x)
    BY <1>3 DEF Byte, ByteOfShifted
  <2> HIDE DEF W, z
  <2>6. x \in Nat
    <3> HIDE DEF y, q
    <3> QED
      BY <1>2, <2>3, Division
  <2>7. x \div 2 = y \div (q * 2)
    <3> HIDE DEF y, q
    <3> QED
      BY <1>2, <2>3, DivDiv
  <2> DEFINE Q == q * 2
             zm == z * m
             r == Radix
  <2>8. Q \in Nat \ {0} /\ zm \in Nat /\ r \in Nat \ {0} /\ r * zm \in Nat
    <3> HIDE DEF q, r, m
    <3>1. zm \in Nat
      BY <2>3, <2>4, SMT
    <3> HIDE DEF zm
    <3>2. r * zm \in Nat
      BY <1>2, <3>1, SMT DEF r
    <3> QED
      BY <1>2, <3>1, <3>2 DEF r
  <2>9. 2 * v = Q * (r * zm) + y
    <3> HIDE DEF q, m, y
    <3>1. W * m = (Q * (r * z)) * m
      BY <2>4
    <3> HIDE DEF Q, r
    <3>2. (Q * (r * z)) * m = Q * (r * (z * m))
      BY <2>3, <2>4, <2>8, SMT
    <3> QED
      BY <2>3, <3>1, <3>2
  <2> HIDE DEF zm, r, m
  <2>10. (2 * v) \div Q = r * zm + (y \div Q)
    <3> DEFINE k2 == r * zm
    <3> HIDE DEF k2, Q, y
    <3>1. k2 \in Nat /\ 2 * v = Q * k2 + y
      BY <2>8, <2>9 DEF k2
    <3>2. (Q * k2 + y) \div Q = k2 + (y \div Q)
      BY <2>3, <2>8, <3>1, AddMultiple
    <3> QED
      BY <3>1, <3>2 DEF k2
  <2>11. ((2 * v) \div Q) % r = (y \div Q) % r
    <3> DEFINE d == y \div Q
    <3>1. d \in Nat
      <4> HIDE DEF y, Q
      <4> QED
        BY <2>3, <2>8, Division
    <3> HIDE DEF d
    <3>2. (r * zm + d) % r = d % r
      BY <2>8, <3>1, AddMultiple
    <3> QED
      BY <2>10, <3>2 DEF d
  <2>12. (2 * v) \div Q = v \div q
    <3> DEFINE c == 2 * v
    <3>1. c \in Nat /\ c = 2 * v + 0 /\ 0 \in 0 .. (2 - 1)
      BY <1>1
    <3> HIDE DEF c, q
    <3>2. c \div 2 = v
      BY <1>1, <3>1, Quotient
    <3>3. (c \div 2) \div q = c \div (2 * q)
      BY <1>2, <3>1, DivDiv
    <3>4. 2 * q = Q
      BY <1>2
    <3> QED
      BY <3>2, <3>3, <3>4 DEF c
  <2>13. Masked(x) = 2 * ((x \div 2) % r)
    <3> HIDE DEF x
    <3> QED
      BY <2>6, MaskedValue DEF r
  <2> QED
    BY <2>5, <2>7, <2>11, <2>12, <2>13 DEF Digit, r
<1>4. CASE g = 0
  <2> DEFINE h == Pow2[4 * Group - 1]
             x == v \div h
  <2>1. 4 * Group \in 1 .. 5 * Group /\ 4 * Group - 1 \in 0 .. 5 * Group /\ k = 4
    BY <1>4, Widths
  <2>2. h \in Nat \ {0} /\ q = 2 * h
    BY <2>1, Pow2Value
  <2>3. Byte(v, g) = Masked(x)
    BY <1>4 DEF Byte
  <2> HIDE DEF h, q
  <2>4. x \in Nat
    BY <1>1, <2>2, Division
  <2>5. x \div 2 = v \div q
    <3>1. x \div 2 = v \div (h * 2)
      <4>1. v \in Nat /\ h \in Nat \ {0} /\ 2 \in Nat \ {0}
        BY <1>1, <2>2
      <4>2. (v \div h) \div 2 = v \div (h * 2)
        BY <4>1, DivDiv, Zenon
      <4> QED
        BY <4>2
    <3>2. q = h * 2
      BY <2>2
    <3> QED
      BY <3>1, <3>2
  <2>6. Masked(x) = 2 * ((x \div 2) % Radix)
    <3> HIDE DEF x
    <3> QED
      BY <2>4, MaskedValue
  <2> QED
    BY <2>3, <2>5, <2>6 DEF Digit, q
<1> QED
  BY <1>3, <1>4
-----------------------------------------------------------------------------
(* One integer. *)

(* filled_bits is the least width that holds the value. *)
LEMMA FilledBits ==
    ASSUME NEW v \in Words
    PROVE  /\ filled_bits(v) \in 0 .. Word
           /\ v < Pow2[filled_bits(v)]
           /\ filled_bits(v) > 0 => v >= Pow2[filled_bits(v) - 1]
<1> DEFINE T == {n \in 0 .. Word : v < Pow2[n]}
<1>1. T \in SUBSET Nat /\ T # {}
  <2>1. Word \in 0 .. Word
    BY Widths
  <2> QED
    BY <2>1, WordType
<1>2. PICK n \in T : \A i \in T : n <= i
  <2> HIDE DEF T
  <2> QED
    BY <1>1, LeastOfNaturals
<1>3. n > 0 => v >= Pow2[n - 1]
  <2> SUFFICES ASSUME n > 0 PROVE v >= Pow2[n - 1]
    OBVIOUS
  <2>1. n - 1 \in 0 .. Word /\ n - 1 \notin T
    BY <1>2, Widths
  <2>2. n - 1 \in 0 .. 5 * Group
    BY <2>1, Widths
  <2>3. Pow2[n - 1] \in Nat /\ v \in Nat
    BY <2>2, Pow2Value, WordType
  <2> QED
    BY <2>1, <2>3
<1>4. \E i \in 0 .. Word : v < Pow2[i] /\ (i > 0 => v >= Pow2[i - 1])
  BY <1>2, <1>3
<1> QED
  BY <1>4, Zenon DEF filled_bits

(* What result_len says of the value: its first group is not 0, but for 0. *)
LEMMA ResultLen ==
    ASSUME NEW v \in Words
    PROVE  /\ result_len(v) \in 1 .. 5
           /\ v < Pow2[result_len(v) * Group]
           /\ result_len(v) > 1 => v >= Pow2[(result_len(v) - 1) * Group]
<1> DEFINE fb == filled_bits(v)
           c == (fb + Group - 1) \div Group
           len == result_len(v)
<1>1. fb \in 0 .. Word /\ v < Pow2[fb] /\ (fb > 0 => v >= Pow2[fb - 1])
  BY FilledBits
<1>2. Group \in Nat \ {0} /\ Word \in Nat /\ Word <= 5 * Group /\ 5 * Group \in Nat
  BY Widths
<1>3. len = IF c > 1 THEN c ELSE 1
  BY DEF result_len
<1>4. /\ c \in Nat /\ Group * c \in Nat
      /\ Group * c <= fb + Group - 1 /\ fb <= Group * c
  <2> DEFINE e == fb + Group - 1
  <2>1. e \in Nat
    BY <1>1, <1>2
  <2> HIDE DEF e
  <2>2. e \div Group \in Nat /\ e % Group \in 0 .. (Group - 1)
        /\ e = Group * (e \div Group) + (e % Group)
    BY <1>2, <2>1, Division
  <2> DEFINE d == e \div Group
  <2> HIDE DEF d
  <2>3. Group * d \in Nat
    BY <1>2, <2>2, SMT DEF d
  <2>4. d \in Nat /\ Group * d <= e /\ e < Group * d + Group
    <3> DEFINE gd == Group * d
               rest == e % Group
    <3>1. gd \in Nat /\ rest \in 0 .. (Group - 1) /\ e = gd + rest /\ d \in Nat
      BY <2>2, <2>3 DEF d
    <3> HIDE DEF gd, rest
    <3>2. gd <= e /\ e < gd + Group
      BY <1>2, <3>1
    <3> QED
      BY <3>1, <3>2 DEF gd
  <2>5. c = d
    BY DEF d, e
  <2> HIDE DEF c, fb
  <2>6. e = fb + Group - 1
    BY DEF e, fb
  <2> QED
    BY <1>1, <1>2, <2>3, <2>4, <2>5, <2>6 DEF fb
<1> HIDE DEF fb, c, len
<1>5. c <= 5
  <2>1. Group * c < Group * 5 + Group
    BY <1>1, <1>2, <1>4
  <2> QED
    BY <1>2, <1>4, <2>1, Multiples
<1>6. CASE c <= 1
  <2>1. len = 1
    BY <1>3, <1>4, <1>6
  <2>2. Group * c <= Group
    BY <1>2, <1>4, <1>6, c \in {0, 1}
  <2>3. fb \in Nat /\ fb <= Group /\ Group <= 5 * Group
    BY <1>1, <1>2, <1>4, <2>2
  <2>4. Pow2[fb] <= Pow2[Group]
    BY <1>2, <2>3, Pow2Grows
  <2>5. Pow2[fb] \in Nat /\ Pow2[Group] \in Nat /\ v \in Nat
    <3>1. fb \in 0 .. 5 * Group /\ Group \in 0 .. 5 * Group
      BY <1>2, <2>3
    <3> QED
      BY <3>1, Pow2Value, WordType
  <2>6. v < Pow2[Group]
    BY <1>1, <2>4, <2>5
  <2>7. 1 * Group = Group
    BY <1>2
  <2> QED
    BY <2>1, <2>6, <2>7 DEF len
<1>7. CASE c > 1
  <2>1. len = c /\ c \in 2 .. 5
    BY <1>3, <1>4, <1>5, <1>7
  <2>2. /\ c * Group = Group * c /\ (c - 1) * Group = Group * c - Group
        /\ c * Group \in Nat /\ c * Group <= 5 * Group /\ (c - 1) * Group \in Nat
    BY <1>2, <2>1, c \in {2, 3, 4, 5}
  <2> DEFINE high == c * Group
             low == (c - 1) * Group
  <2>3. /\ high \in Nat /\ low \in Nat /\ high <= 5 * Group
        /\ fb <= high /\ fb - 1 >= low /\ fb \in Nat /\ fb - 1 \in Nat /\ fb - 1 <= 5 * Group
    BY <1>1, <1>2, <1>4, <2>2
  <2> HIDE DEF high, low
  <2>4. Pow2[fb] <= Pow2[high] /\ Pow2[low] <= Pow2[fb - 1]
    BY <2>3, Pow2Grows
  <2>5. Pow2[fb] \in Nat /\ Pow2[high] \in Nat /\ Pow2[low] \in Nat /\ Pow2[fb - 1] \in Nat
        /\ v \in Nat
    <3>1. /\ fb \in 0 .. 5 * Group /\ high \in 0 .. 5 * Group
          /\ low \in 0 .. 5 * Group /\ fb - 1 \in 0 .. 5 * Group
      BY <1>2, <2>3
    <3> QED
      BY <3>1, Pow2Value, WordType
  <2>6. fb > 0
    BY <2>3
  <2>7. v < Pow2[high] /\ v >= Pow2[low]
    BY <1>1, <2>4, <2>5, <2>6
  <2> QED
    BY <2>1, <2>7 DEF len, high, low
<1> QED
  BY <1>4, <1>6, <1>7

(* A sequence of bytes that is one integer: its end is marked, its begin seen. *)
IsVarint(bytes) ==
    /\ bytes \in Seq(Nat) /\ Len(bytes) \in 1 .. 5
    /\ bytes[1] > 0
    /\ \A i \in 1 .. (Len(bytes) - 1) : bytes[i] % 2 = 0
    /\ bytes[Len(bytes)] % 2 = 1

LEMMA DigitType ==
    ASSUME NEW v \in Nat, NEW k \in 0 .. 4
    PROVE  Digit(v, k) \in Nat /\ v \div Pow2[k * Group] \in Nat
<1> DEFINE q == Pow2[k * Group]
           h == v \div q
<1>1. q \in Nat \ {0} /\ Radix \in Nat \ {0}
  BY Weights
<1> HIDE DEF q
<1>2. h \in Nat
  BY <1>1, Division
<1> HIDE DEF h
<1>3. h % Radix \in Nat
  BY <1>1, <1>2, Division
<1> QED
  BY <1>2, <1>3 DEF Digit, h, q

(* An integer in bytes: a group in each, the highest first. *)
LEMMA VarintShape ==
    ASSUME NEW v \in Words
    PROVE  /\ IsVarint(to_varint(v))
           /\ Len(to_varint(v)) = result_len(v)
           /\ \A i \in 1 .. result_len(v) :
                 to_varint(v)[i] \div 2 = Digit(v, result_len(v) - i)
<1> DEFINE len == result_len(v)
           bytes == to_varint(v)
           end(i) == IF i = len THEN 1 ELSE 0
<1>1. len \in 1 .. 5 /\ v \in Nat
  BY ResultLen, WordType
<1>2. bytes = [i \in 1 .. len |-> Byte(v, 4 - len + i) + end(i)]
  BY DEF to_varint
<1> HIDE DEF bytes, len
<1>3. ASSUME NEW i \in 1 .. len
      PROVE  /\ Digit(v, len - i) \in Nat
             /\ bytes[i] = 2 * Digit(v, len - i) + end(i)
  <2>1. 4 - len + i \in 0 .. 4 /\ 4 - (4 - len + i) = len - i /\ len - i \in 0 .. 4
    BY <1>1
  <2>2. Byte(v, 4 - len + i) = 2 * Digit(v, len - i)
    <3> DEFINE g == 4 - len + i
    <3>1. g \in 0 .. 4 /\ 4 - g = len - i
      BY <2>1
    <3> HIDE DEF g
    <3>2. Byte(v, g) = 2 * Digit(v, 4 - g)
      BY <3>1, ByteValue
    <3> QED
      BY <3>1, <3>2 DEF g
  <2>3. Digit(v, len - i) \in Nat
    BY <1>1, <2>1, DigitType
  <2> QED
    BY <1>2, <2>2, <2>3
<1>4. ASSUME NEW i \in 1 .. len
      PROVE  /\ bytes[i] \in Nat /\ bytes[i] \div 2 = Digit(v, len - i)
             /\ bytes[i] % 2 = end(i)
  <2> DEFINE d == Digit(v, len - i)
             b == bytes[i]
             e == end(i)
  <2>1. e \in 0 .. (2 - 1)
    BY <1>1
  <2>2. d \in Nat /\ b = 2 * d + e
    BY <1>3
  <2> HIDE DEF d, b, e
  <2>3. b \in Nat
    BY <2>1, <2>2
  <2>4. b \div 2 = d /\ b % 2 = e
    BY <2>1, <2>2, <2>3, Quotient
  <2> QED
    BY <2>3, <2>4 DEF d, b, e
<1>5. bytes \in Seq(Nat) /\ Len(bytes) = len
  <2> HIDE DEF end
  <2>1. \A i \in 1 .. len : bytes[i] \in Nat
    BY <1>4
  <2>2. bytes = [i \in 1 .. len |-> bytes[i]]
    BY <1>2
  <2>3. len \in Nat
    BY <1>1
  <2> QED
    BY <2>1, <2>2, <2>3
<1>6. bytes[1] > 0
  <2>1. 1 \in 1 .. len /\ bytes[1] \in Nat
    BY <1>1, <1>4
  <2>2. CASE len = 1
    BY <1>3, <2>1, <2>2
  <2>3. CASE len > 1
    <3> DEFINE q == Pow2[(len - 1) * Group]
               h == v \div q
    <3>1. len - 1 \in 0 .. 4 /\ (len - 1) + 1 = len
      BY <1>1
    <3>2. q \in Nat \ {0} /\ Radix \in Nat \ {0} /\ Pow2[len * Group] = q * Radix
      <4> DEFINE k == len - 1
      <4> HIDE DEF k
      <4>1. k \in 0 .. 4 /\ k + 1 = len
        BY <3>1 DEF k
      <4>2. Pow2[(k + 1) * Group] = Pow2[k * Group] * Radix /\ Pow2[k * Group] \in Nat \ {0}
            /\ Radix \in Nat \ {0}
        BY <4>1, Weights
      <4> QED
        BY <4>1, <4>2 DEF k
    <3>3. v < q * Radix /\ v >= q
      BY <2>3, <3>2, ResultLen DEF len
    <3> HIDE DEF q
    <3>4. h \in Nat /\ v % q \in 0 .. (q - 1) /\ v = q * h + (v % q)
      BY <1>1, <3>2, Division
    <3> HIDE DEF h
    <3>5. h >= 1
      <4> SUFFICES ASSUME h = 0 PROVE FALSE
        BY <3>4
      <4>1. q * h = 0
        BY <3>2
      <4> QED
        BY <3>2, <3>3, <3>4, <4>1
    <3>6. h < Radix
      <4> DEFINE r == Radix
      <4> HIDE DEF r
      <4> SUFFICES ASSUME h >= r PROVE FALSE
        BY <3>2, <3>4 DEF r
      <4>1. q * h >= q * r
        BY <3>2, <3>4, Z3 DEF r
      <4>2. q * h \in Nat /\ q * r \in Nat
        BY <3>2, <3>4, SMT DEF r
      <4> QED
        BY <1>1, <3>2, <3>3, <3>4, <4>1, <4>2 DEF r
    <3>7. h % Radix = h
      <4>1. h = Radix * 0 + h /\ h \in 0 .. (Radix - 1)
        BY <3>2, <3>4, <3>6
      <4> QED
        BY <3>2, <3>4, <4>1, Quotient
    <3>8. Digit(v, len - 1) >= 1
      BY <3>5, <3>7 DEF Digit, h, q
    <3> QED
      BY <1>3, <2>1, <3>8
  <2> QED
    BY <1>1, <2>2, <2>3
<1>7. \A i \in 1 .. (len - 1) : bytes[i] % 2 = 0
  <2> SUFFICES ASSUME NEW i \in 1 .. (len - 1) PROVE bytes[i] % 2 = 0
    OBVIOUS
  <2>1. i \in 1 .. len /\ i # len
    BY <1>1
  <2> QED
    BY <1>4, <2>1
<1>8. bytes[len] % 2 = 1
  BY <1>1, <1>4, len \in 1 .. len
<1>9. IsVarint(bytes)
  BY <1>1, <1>5, <1>6, <1>7, <1>8 DEF IsVarint
<1>10. \A i \in 1 .. len : bytes[i] \div 2 = Digit(v, len - i)
  BY <1>4
<1> QED
  BY <1>5, <1>9, <1>10 DEF bytes, len

(* Decoding gives back the integer. *)
LEMMA VarintRoundTrip ==
    ASSUME NEW v \in Words
    PROVE  from_varint(to_varint(v)) = v
<1> DEFINE len == result_len(v)
           bytes == to_varint(v)
           n == Len(bytes)
           step == [p \in Nat \X (1 .. n) |-> p[1] * Radix + bytes[p[2]] \div 2]
           Is(f) == f = [i \in 0 .. n |->
                           IF i = 0 THEN 0 ELSE f[i - 1] * Pow2[Group] + bytes[i] \div 2]
           value == CHOOSE f : Is(f)
<1>1. /\ v \in Nat /\ len \in 1 .. 5 /\ n = len /\ Radix \in Nat \ {0}
      /\ \A i \in 1 .. n : bytes[i] \div 2 = Digit(v, len - i)
  BY WordType, ResultLen, VarintShape, Weights, 0 \in 0 .. 4
<1>2. from_varint(bytes) = value[n] % Pow2[Word]
  BY DEF from_varint
<1> HIDE DEF bytes, n, len
<1>3. n \in Nat /\ \A i \in 1 .. n : bytes[i] \div 2 \in Nat
  <2>1. n \in Nat
    BY <1>1
  <2>2. ASSUME NEW i \in 1 .. n PROVE bytes[i] \div 2 \in Nat
    <3>1. len - i \in 0 .. 4
      BY <1>1
    <3>2. Digit(v, len - i) \in Nat
      BY <1>1, <3>1, DigitType
    <3> QED
      BY <1>1, <3>2
  <2> QED
    BY <2>1, <2>2
<1>4. step \in [Nat \X (1 .. n) -> Nat]
      /\ \A x \in Nat, i \in 1 .. n : step[<<x, i>>] = x * Radix + bytes[i] \div 2
  <2>1. \A x \in Nat, i \in 1 .. n : x * Radix + bytes[i] \div 2 \in Nat
    BY <1>1, <1>3, SMT
  <2> DEFINE Of(x, i) == x * Radix + bytes[i] \div 2
  <2>2. step = [p \in Nat \X (1 .. n) |-> Of(p[1], p[2])]
    OBVIOUS
  <2> HIDE DEF step, Of
  <2>3. \A x \in Nat, i \in 1 .. n : Of(x, i) \in Nat
    BY <2>1 DEF Of
  <2>4. step \in [Nat \X (1 .. n) -> Nat] /\ \A x \in Nat, i \in 1 .. n : step[<<x, i>>] = Of(x, i)
    BY <2>2, <2>3
  <2> QED
    BY <2>4 DEF Of
<1>5. PICK f : LoopResults(Nat, n, 0, step, f)
  <2> HIDE DEF step
  <2> QED
    BY <1>3, <1>4, LoopHasResults
<1>6. Is(f)
  <2> HIDE DEF step
  <2>1. f \in [0 .. n -> Nat] /\ \A i \in 0 .. n : f[i] = IF i = 0 THEN 0 ELSE step[<<f[i - 1], i>>]
    BY <1>5 DEF LoopResults
  <2>2. ASSUME NEW i \in 0 .. n, i # 0 PROVE step[<<f[i - 1], i>>] = f[i - 1] * Radix + bytes[i] \div 2
    <3>1. f[i - 1] \in Nat /\ i \in 1 .. n
      BY <1>3, <2>1, <2>2
    <3> QED
      BY <1>4, <3>1
  <2> DEFINE Next_value(i) == f[i - 1] * Radix + bytes[i] \div 2
  <2>3. \A i \in 0 .. n : f[i] = IF i = 0 THEN 0 ELSE Next_value(i)
    BY <2>1, <2>2
  <2> HIDE DEF Next_value
  <2>4. f = [i \in 0 .. n |-> IF i = 0 THEN 0 ELSE Next_value(i)]
    BY <2>1, <2>3
  <2> QED
    BY <2>4 DEF Next_value, Radix
<1>7. Is(value)
  <2> HIDE DEF Is
  <2> QED
    BY <1>6
<1> HIDE DEF value
<1>8. value[0] = 0 /\ \A i \in 1 .. n : value[i] = value[i - 1] * Radix + bytes[i] \div 2
  <2>1. 0 \in 0 .. n /\ \A i \in 1 .. n : i \in 0 .. n /\ i # 0
    BY <1>3
  <2> QED
    BY <1>7, <2>1 DEF Radix
<1> HIDE DEF Is
<1> DEFINE Above(i) == v \div Pow2[(len - i) * Group]
           T == {i \in 0 .. n : value[i] = Above(i)}
<1>9. 0 \in T
  <2> DEFINE w == Pow2[len * Group]
  <2>1. w \in Nat \ {0} /\ v < w
    <3> DEFINE k == len - 1
    <3>1. k \in 0 .. 4 /\ k + 1 = len
      BY <1>1
    <3> HIDE DEF k
    <3>2. Pow2[(k + 1) * Group] \in Nat \ {0}
      BY <3>1, Weights
    <3> QED
      BY <3>1, <3>2, ResultLen DEF len
  <2> HIDE DEF w
  <2>2. v = w * 0 + v /\ v \in 0 .. (w - 1)
    BY <1>1, <2>1
  <2>3. v \div w = 0
    BY <1>1, <2>1, <2>2, Quotient
  <2>4. len - 0 = len /\ 0 \in 0 .. n
    BY <1>1, <1>3
  <2> QED
    BY <1>8, <2>3, <2>4 DEF w
<1>10. ASSUME NEW i \in 1 .. n, i - 1 \in T PROVE i \in T
  <2> DEFINE k == len - i
             q == Pow2[k * Group]
             h == v \div q
  <2>1. k \in 0 .. 4 /\ k + 1 = len - (i - 1) /\ i \in 0 .. n
    BY <1>1
  <2>2. q \in Nat \ {0} /\ Pow2[(k + 1) * Group] = q * Radix
    <3> HIDE DEF k
    <3> QED
      BY <2>1, Weights
  <2>3. value[i] = value[i - 1] * Radix + Digit(v, k)
    BY <1>1, <1>8
  <2>4. value[i - 1] = v \div Pow2[(k + 1) * Group]
    BY <1>10, <2>1
  <2>5. Digit(v, k) = h % Radix
    BY DEF Digit
  <2> HIDE DEF k, q
  <2>6. h \in Nat
    BY <1>1, <2>2, Division
  <2>7. h \div Radix = v \div (q * Radix)
    BY <1>1, <2>2, DivDiv
  <2> HIDE DEF h
  <2>8. /\ h \div Radix \in Nat /\ h % Radix \in 0 .. (Radix - 1)
        /\ h = Radix * (h \div Radix) + (h % Radix)
    BY <1>1, <2>6, Division
  <2> DEFINE d == h \div Radix
             r == Radix
  <2> HIDE DEF d, r
  <2>9. d \in Nat /\ r \in Nat /\ h = r * d + (h % r) /\ value[i] = d * r + (h % r)
    BY <1>1, <2>2, <2>3, <2>4, <2>5, <2>7, <2>8 DEF d, r
  <2>10. d * r = r * d
    BY <2>9, SMT
  <2>11. value[i] = h
    BY <2>9, <2>10
  <2> QED
    BY <2>1, <2>11 DEF h, q, k
<1>11. \A i \in 0 .. n : i \in T
  <2> HIDE DEF T
  <2> QED
    BY <1>3, <1>9, <1>10, UpTo
<1>12. value[n] = v
  <2>1. n \in 0 .. n /\ len - n = 0
    BY <1>1, <1>3
  <2>2. 0 * Group = 0
    BY Widths
  <2>3. Pow2[(len - n) * Group] = 1
    BY <2>1, <2>2, Pow2Value
  <2>4. v = 1 * v + 0 /\ 0 \in 0 .. (1 - 1)
    BY <1>1
  <2>5. v \div 1 = v
    BY <1>1, <2>4, Quotient
  <2> QED
    BY <1>11, <2>1, <2>3, <2>5
<1>13. v % Pow2[Word] = v
  <2> DEFINE w == Pow2[Word]
  <2>1. w \in Nat \ {0} /\ v < w
    BY WordType
  <2> HIDE DEF w
  <2>2. v = w * 0 + v /\ v \in 0 .. (w - 1)
    BY <1>1, <2>1
  <2>3. v % w = v
    BY <1>1, <2>1, <2>2, Quotient
  <2> QED
    BY <2>3 DEF w
<1> QED
  BY <1>2, <1>12, <1>13 DEF bytes
-----------------------------------------------------------------------------
(* Several integers in a row. *)

(* What Parts may have: an integer at least, though it be empty. *)
SomeParts == Seq(Seq(Nat)) \ {<<>>}

LEMMA AddByteType ==
    ASSUME NEW parts \in SomeParts, NEW byte \in Nat
    PROVE  AddByte(parts, byte) \in SomeParts
<1> DEFINE n == Len(parts)
           longer == [parts EXCEPT ![n] = Append(parts[n], byte)]
           more(part) == Append(parts, part)
<1>1. n \in Nat \ {0} /\ parts \in Seq(Seq(Nat)) /\ parts[n] \in Seq(Nat)
  BY DEF SomeParts
<1>2. longer \in SomeParts
  BY <1>1 DEF SomeParts
<1>3. more(<<byte>>) \in SomeParts /\ more(<<>>) \in SomeParts
  <2>1. \A part \in Seq(Nat) : more(part) \in SomeParts
    <3> SUFFICES ASSUME NEW part \in Seq(Nat) PROVE more(part) \in SomeParts
      OBVIOUS
    <3>1. more(part) \in Seq(Seq(Nat)) /\ Len(more(part)) = n + 1 /\ n + 1 # 0
      BY <1>1
    <3> HIDE DEF more
    <3>2. more(part) # <<>>
      BY <3>1
    <3> QED
      BY <3>1, <3>2 DEF SomeParts
  <2>2. <<byte>> \in Seq(Nat) /\ <<>> \in Seq(Nat)
    OBVIOUS
  <2> HIDE DEF more
  <2> QED
    BY <2>1, <2>2
<1>4. AddByte(parts, byte) \in {parts, longer, more(<<byte>>), more(<<>>)}
  <2> HIDE DEF SomeParts
  <2> QED
    BY DEF AddByte, Last
<1> HIDE DEF longer, more
<1> QED
  BY <1>2, <1>3, <1>4

(* The loop of Parts and its result. *)
PartsLoop(bytes, f) ==
    /\ Parts(bytes) = f[Len(bytes)]
    /\ f[0] = <<<<>>>>
    /\ \A i \in 1 .. Len(bytes) : f[i] = AddByte(f[i - 1], bytes[i])
    /\ \A i \in 0 .. Len(bytes) : f[i] \in SomeParts

LEMMA PartsIsLoop ==
    ASSUME NEW bytes \in Seq(Nat)
    PROVE  \E f : PartsLoop(bytes, f)
<1> DEFINE n == Len(bytes)
           empty == <<<<>>>>
           step == [p \in SomeParts \X (1 .. n) |-> AddByte(p[1], bytes[p[2]])]
           Is(f) == f = [i \in 0 .. n |-> IF i = 0 THEN <<<<>>>> ELSE AddByte(f[i - 1], bytes[i])]
           parts == CHOOSE f : Is(f)
<1>1. n \in Nat /\ \A i \in 1 .. n : bytes[i] \in Nat
  OBVIOUS
<1>2. empty \in SomeParts
  BY DEF SomeParts
<1>3. Parts(bytes) = parts[n]
  BY DEF Parts
<1> HIDE DEF n, empty
<1>4. step \in [SomeParts \X (1 .. n) -> SomeParts]
      /\ \A x \in SomeParts, i \in 1 .. n : step[<<x, i>>] = AddByte(x, bytes[i])
  <2>1. \A x \in SomeParts, i \in 1 .. n : AddByte(x, bytes[i]) \in SomeParts
    BY <1>1, AddByteType
  <2> QED
    BY <2>1
<1>5. PICK f : LoopResults(SomeParts, n, empty, step, f)
  <2> HIDE DEF step
  <2> QED
    BY <1>1, <1>2, <1>4, LoopHasResults
<1>6. Is(f)
  <2> HIDE DEF step
  <2>1. /\ f \in [0 .. n -> SomeParts]
        /\ \A i \in 0 .. n : f[i] = IF i = 0 THEN empty ELSE step[<<f[i - 1], i>>]
    BY <1>5 DEF LoopResults
  <2>2. ASSUME NEW i \in 0 .. n, i # 0 PROVE step[<<f[i - 1], i>>] = AddByte(f[i - 1], bytes[i])
    <3>1. f[i - 1] \in SomeParts /\ i \in 1 .. n
      BY <1>1, <2>1, <2>2
    <3> QED
      BY <1>4, <3>1
  <2>3. \A i \in 0 .. n : f[i] = IF i = 0 THEN empty ELSE AddByte(f[i - 1], bytes[i])
    BY <2>1, <2>2
  <2> QED
    BY <2>1, <2>3 DEF empty
<1>7. Is(parts)
  <2> HIDE DEF Is
  <2> QED
    BY <1>6
<1> HIDE DEF parts
<1>8. \A i \in 0 .. n : parts[i] = IF i = 0 THEN empty ELSE AddByte(parts[i - 1], bytes[i])
  BY <1>7 DEF empty
<1> HIDE DEF Is
<1>9. parts[0] = empty
  <2>1. 0 \in 0 .. n
    BY <1>1
  <2> QED
    BY <1>8, <2>1
<1>10. \A i \in 1 .. n : parts[i] = AddByte(parts[i - 1], bytes[i])
  <2>1. \A i \in 1 .. n : i \in 0 .. n /\ i # 0
    BY <1>1
  <2> QED
    BY <1>8, <2>1
<1> DEFINE T == {i \in 0 .. n : parts[i] \in SomeParts}
<1>11. 0 \in T
  BY <1>1, <1>2, <1>9
<1>12. ASSUME NEW i \in 1 .. n, i - 1 \in T PROVE i \in T
  <2>1. i \in 0 .. n
    BY <1>1
  <2>2. parts[i] \in SomeParts
    BY <1>1, <1>10, <1>12, AddByteType
  <2> QED
    BY <2>1, <2>2
<1>13. \A i \in 0 .. n : i \in T
  <2> HIDE DEF T
  <2> QED
    BY <1>1, <1>11, <1>12, UpTo
<1>14. PartsLoop(bytes, parts)
  BY <1>3, <1>9, <1>10, <1>13 DEF PartsLoop, n, empty
<1> QED
  BY <1>14

(* One byte more is one step more. *)
LEMMA PartsOfNothing == Parts(<<>>) = <<<<>>>>
<1>1. <<>> \in Seq(Nat) /\ Len(<<>>) = 0
  OBVIOUS
<1>2. PICK f : PartsLoop(<<>>, f)
  BY <1>1, PartsIsLoop
<1> QED
  BY <1>1, <1>2 DEF PartsLoop

LEMMA PartsAppend ==
    ASSUME NEW bytes \in Seq(Nat), NEW byte \in Nat
    PROVE  Parts(Append(bytes, byte)) = AddByte(Parts(bytes), byte)
<1> DEFINE more == Append(bytes, byte)
           n == Len(bytes)
<1>1. n \in Nat /\ more \in Seq(Nat) /\ Len(more) = n + 1 /\ more[n + 1] = byte
      /\ \A i \in 1 .. n : more[i] = bytes[i]
  OBVIOUS
<1> HIDE DEF more
<1>2. PICK f : PartsLoop(bytes, f)
  BY PartsIsLoop
<1>3. PICK h : PartsLoop(more, h)
  BY <1>1, PartsIsLoop
<1>4. /\ Parts(bytes) = f[n] /\ f[0] = <<<<>>>>
      /\ \A i \in 1 .. n : f[i] = AddByte(f[i - 1], bytes[i])
  BY <1>2 DEF PartsLoop
<1>5. /\ Parts(more) = h[n + 1] /\ h[0] = <<<<>>>>
      /\ \A i \in 1 .. n + 1 : h[i] = AddByte(h[i - 1], more[i])
  BY <1>1, <1>3 DEF PartsLoop
<1> HIDE DEF n
<1> DEFINE T == {i \in 0 .. n : h[i] = f[i]}
<1>6. 0 \in T
  <2>1. 0 \in 0 .. n
    BY <1>1
  <2>2. h[0] = f[0]
    BY <1>4, <1>5, Zenon
  <2> QED
    BY <2>1, <2>2
<1>7. ASSUME NEW i \in 1 .. n, i - 1 \in T PROVE i \in T
  <2>1. i \in 0 .. n /\ i \in 1 .. n + 1 /\ more[i] = bytes[i] /\ h[i - 1] = f[i - 1]
    BY <1>1, <1>7
  <2> QED
    BY <1>4, <1>5, <2>1
<1>8. \A i \in 0 .. n : i \in T
  <2> HIDE DEF T
  <2> QED
    BY <1>1, <1>6, <1>7, UpTo
<1>9. n \in 0 .. n /\ n + 1 \in 1 .. n + 1 /\ (n + 1) - 1 = n
  BY <1>1
<1>10. h[n] = f[n] /\ h[n + 1] = AddByte(h[n], more[n + 1])
  BY <1>5, <1>8, <1>9
<1> QED
  BY <1>1, <1>4, <1>5, <1>10 DEF more

(* Between two integers: those read, or one that is not begun. *)
Begun(done) == IF done = <<>> THEN <<<<>>>> ELSE done

(* A byte that is not 0 begins an integer after a whole one. *)
LEMMA AddFirst ==
    ASSUME NEW done \in Seq(Seq(Nat)), \A i \in 1 .. Len(done) : IsVarint(done[i]),
           NEW byte \in Nat \ {0}
    PROVE  AddByte(Begun(done), byte) = Append(done, <<byte>>)
<1>1. CASE done = <<>>
  <2>1. Begun(done) = <<<<>>>> /\ Append(done, <<byte>>) = <<<<byte>>>>
    BY <1>1 DEF Begun
  <2>2. Last(<<<<>>>>) = <<>>
    BY DEF Last
  <2>3. AddByte(<<<<>>>>, byte) = [<<<<>>>> EXCEPT ![Len(<<<<>>>>)] = Append(@, byte)]
    BY <2>2 DEF AddByte
  <2>4. [<<<<>>>> EXCEPT ![Len(<<<<>>>>)] = Append(@, byte)] = <<<<byte>>>>
    OBVIOUS
  <2> QED
    BY <2>1, <2>3, <2>4
<1>2. CASE done # <<>>
  <2> DEFINE last == done[Len(done)]
  <2>1. Len(done) \in 1 .. Len(done) /\ Last(done) = last
    BY <1>2 DEF Last
  <2>2. IsVarint(last)
    BY <2>1
  <2> HIDE DEF last
  <2>3. last # <<>> /\ Last(last) % 2 = 1
    BY <2>2 DEF IsVarint, Last
  <2>4. Begun(done) = done
    BY <1>2 DEF Begun
  <2>5. byte > 0
    OBVIOUS
  <2> QED
    BY <2>1, <2>3, <2>4, <2>5 DEF AddByte
<1> QED
  BY <1>1, <1>2

(* Any byte goes on with an integer whose end was not marked. *)
LEMMA AddNext ==
    ASSUME NEW done \in Seq(Seq(Nat)), NEW part \in Seq(Nat), part # <<>>,
           part[Len(part)] % 2 = 0, NEW byte \in Nat
    PROVE  AddByte(Append(done, part), byte) = Append(done, Append(part, byte))
<1> DEFINE parts == Append(done, part)
           n == Len(done) + 1
           longer == Append(part, byte)
<1>1. /\ Len(done) \in Nat /\ parts \in Seq(Seq(Nat)) /\ Len(parts) = n /\ parts[n] = part
      /\ \A i \in 1 .. Len(done) : parts[i] = done[i]
  OBVIOUS
<1>2. Last(parts) = part /\ Last(part) % 2 = 0
  BY <1>1 DEF Last
<1>3. AddByte(parts, byte) = [parts EXCEPT ![n] = Append(parts[n], byte)]
  <2> HIDE DEF parts, n
  <2> QED
    BY <1>1, <1>2 DEF AddByte
<1>4. [parts EXCEPT ![n] = longer] = Append(done, longer)
  <2> DEFINE s == [parts EXCEPT ![n] = longer]
             t == Append(done, longer)
  <2>1. longer \in Seq(Nat) /\ n \in 1 .. Len(parts)
    BY <1>1
  <2> HIDE DEF longer, parts, n
  <2>2. s \in Seq(Seq(Nat)) /\ Len(s) = n
        /\ \A i \in 1 .. n : s[i] = IF i = n THEN longer ELSE parts[i]
    BY <1>1, <2>1, ExceptSeq
  <2>3. t \in Seq(Seq(Nat)) /\ Len(t) = n
        /\ \A i \in 1 .. n : t[i] = IF i = n THEN longer ELSE done[i]
    BY <1>1, <2>1 DEF n
  <2>4. \A i \in 1 .. n : i # n => parts[i] = done[i]
    <3>1. \A i \in 1 .. n : i # n => i \in 1 .. Len(done)
      BY <1>1 DEF n
    <3> QED
      BY <1>1, <3>1
  <2> HIDE DEF s, t
  <2>5. \A i \in 1 .. n : s[i] = t[i]
    BY <2>2, <2>3, <2>4
  <2>6. s = t
    BY <2>2, <2>3, <2>5, SeqEqual
  <2> QED
    BY <2>6 DEF s, t
<1> QED
  BY <1>1, <1>3, <1>4

(* The first i elements. *)
LEMMA Prefix ==
    ASSUME NEW X, NEW s \in Seq(X), NEW i \in 1 .. Len(s)
    PROVE  /\ SubSeq(s, 1, i) = Append(SubSeq(s, 1, i - 1), s[i])
           /\ SubSeq(s, 1, i) \in Seq(X) /\ Len(SubSeq(s, 1, i)) = i
           /\ SubSeq(s, 1, i)[i] = s[i]
           /\ SubSeq(s, 1, i - 1) \in Seq(X) /\ Len(SubSeq(s, 1, i - 1)) = i - 1
           /\ SubSeq(s, 1, Len(s)) = s
OBVIOUS

LEMMA ConcatAppend ==
    ASSUME NEW s \in Seq(Nat), NEW t \in Seq(Nat), NEW x \in Nat
    PROVE  s \o Append(t, x) = Append(s \o t, x)
OBVIOUS

(* The bytes of an integer are one more part. *)
LEMMA OneMoreVarint ==
    ASSUME NEW bytes \in Seq(Nat), NEW done \in Seq(Seq(Nat)),
           \A i \in 1 .. Len(done) : IsVarint(done[i]), Parts(bytes) = Begun(done),
           NEW varint, IsVarint(varint)
    PROVE  Parts(bytes \o varint) = Append(done, varint)
<1> DEFINE n == Len(varint)
           First(i) == SubSeq(varint, 1, i)
           T == {i \in 1 .. n : Parts(bytes \o First(i)) = Append(done, First(i))}
<1>1. /\ varint \in Seq(Nat) /\ n \in Nat \ {0} /\ varint[1] > 0
      /\ \A i \in 1 .. n - 1 : varint[i] % 2 = 0
      /\ \A i \in 1 .. n : varint[i] \in Nat
  BY DEF IsVarint
<1>2. ASSUME NEW i \in 1 .. n
      PROVE  /\ First(i) = Append(First(i - 1), varint[i])
             /\ First(i) \in Seq(Nat) /\ Len(First(i)) = i /\ First(i)[i] = varint[i]
             /\ First(i - 1) \in Seq(Nat)
             /\ Parts(bytes \o First(i)) = AddByte(Parts(bytes \o First(i - 1)), varint[i])
  <2>1. /\ First(i) = Append(First(i - 1), varint[i])
        /\ First(i) \in Seq(Nat) /\ Len(First(i)) = i /\ First(i)[i] = varint[i]
        /\ First(i - 1) \in Seq(Nat)
    BY <1>1, Prefix
  <2> HIDE DEF First
  <2>2. bytes \o First(i) = Append(bytes \o First(i - 1), varint[i])
    <3> DEFINE before == First(i - 1)
               b == varint[i]
    <3>1. before \in Seq(Nat) /\ b \in Nat /\ First(i) = Append(before, b)
      BY <1>1, <2>1
    <3> HIDE DEF before, b
    <3>2. bytes \o Append(before, b) = Append(bytes \o before, b)
      BY <3>1, ConcatAppend
    <3> QED
      BY <3>1, <3>2 DEF before, b
  <2>3. bytes \o First(i - 1) \in Seq(Nat) /\ varint[i] \in Nat
    BY <1>1, <2>1
  <2>4. Parts(Append(bytes \o First(i - 1), varint[i]))
        = AddByte(Parts(bytes \o First(i - 1)), varint[i])
    <3> DEFINE before == bytes \o First(i - 1)
    <3> HIDE DEF before
    <3>1. before \in Seq(Nat)
      BY <2>3 DEF before
    <3>2. Parts(Append(before, varint[i])) = AddByte(Parts(before), varint[i])
      BY <2>3, <3>1, PartsAppend
    <3> QED
      BY <3>2 DEF before
  <2> QED
    BY <2>1, <2>2, <2>4
<1>3. First(0) = <<>> /\ bytes \o <<>> = bytes
  BY <1>1
<1> HIDE DEF n
<1>4. 1 \in T
  <2>1. 1 \in 1 .. n /\ 1 - 1 = 0
    BY <1>1
  <2>2. First(1) = <<varint[1]>>
    <3> DEFINE b == varint[1]
    <3>1. First(1) = Append(First(0), b)
      BY <1>2, <2>1
    <3> HIDE DEF First, b
    <3>2. Append(<<>>, b) = <<b>>
      OBVIOUS
    <3>3. First(1) = <<b>>
      BY <1>3, <3>1, <3>2
    <3> QED
      BY <3>3 DEF b
  <2> HIDE DEF First
  <2>3. Parts(bytes \o First(1)) = AddByte(Parts(bytes), varint[1])
    BY <1>2, <1>3, <2>1
  <2>4. varint[1] \in Nat \ {0}
    BY <1>1, <2>1
  <2>5. AddByte(Begun(done), varint[1]) = Append(done, <<varint[1]>>)
    BY <2>4, AddFirst
  <2> QED
    BY <2>1, <2>2, <2>3, <2>5
<1>5. ASSUME NEW i \in 2 .. n, i - 1 \in T PROVE i \in T
  <2>1. i \in 1 .. n /\ i - 1 \in 1 .. n /\ i - 1 \in 1 .. n - 1
    BY <1>1
  <2> HIDE DEF First
  <2>2. First(i - 1) \in Seq(Nat) /\ Len(First(i - 1)) = i - 1 /\ First(i - 1)[i - 1] = varint[i - 1]
    BY <1>2, <2>1
  <2>3. First(i - 1) # <<>> /\ First(i - 1)[Len(First(i - 1))] % 2 = 0
    <3> DEFINE part == First(i - 1)
               k == i - 1
    <3>1. part \in Seq(Nat) /\ Len(part) = k /\ part[k] = varint[k] /\ k \in 1 .. n - 1
      BY <2>1, <2>2
    <3> HIDE DEF part, k
    <3>2. part # <<>>
      BY <3>1, EmptySeq
    <3>3. part[Len(part)] % 2 = 0
      BY <1>1, <3>1
    <3> QED
      BY <3>2, <3>3 DEF part
  <2>4. AddByte(Append(done, First(i - 1)), varint[i]) = Append(done, Append(First(i - 1), varint[i]))
    BY <1>1, <2>1, <2>2, <2>3, AddNext
  <2>5. Parts(bytes \o First(i - 1)) = Append(done, First(i - 1))
    BY <1>5
  <2>6. Parts(bytes \o First(i)) = AddByte(Parts(bytes \o First(i - 1)), varint[i])
        /\ First(i) = Append(First(i - 1), varint[i])
    BY <1>2, <2>1
  <2> QED
    BY <2>1, <2>4, <2>5, <2>6
<1>6. n \in T
  <2> DEFINE U == {i \in 0 .. n : i = 0 \/ i \in T}
  <2> HIDE DEF T
  <2>1. 0 \in U
    BY <1>1
  <2>2. ASSUME NEW i \in 1 .. n, i - 1 \in U PROVE i \in U
    <3>1. i = 1 \/ (i \in 2 .. n /\ i - 1 \in T)
      BY <1>1, <2>2
    <3>2. i \in T
      BY <1>4, <1>5, <3>1
    <3>3. i \in 0 .. n
      BY <1>1
    <3> QED
      BY <3>2, <3>3
  <2>3. \A i \in 0 .. n : i \in U
    <3> HIDE DEF U
    <3> QED
      BY <1>1, <2>1, <2>2, UpTo
  <2> QED
    BY <1>1, <2>3
<1>7. First(n) = varint
  BY <1>1 DEF n
<1> HIDE DEF First
<1> QED
  BY <1>6, <1>7

(* Zeros before the first integer do not count. *)
Zeros(n) == [i \in 1 .. n |-> 0]

LEMMA PartsOfZeros ==
    ASSUME NEW n \in Nat
    PROVE  Zeros(n) \in Seq(Nat) /\ Parts(Zeros(n)) = <<<<>>>>
<1> DEFINE T == {i \in 0 .. n : Parts(Zeros(i)) = <<<<>>>>}
<1>1. \A i \in Nat : Zeros(i) \in Seq(Nat)
  BY DEF Zeros
<1>2. 0 \in T
  <2>1. Zeros(0) = <<>>
    BY DEF Zeros
  <2> QED
    BY <2>1, PartsOfNothing
<1>3. ASSUME NEW i \in 1 .. n, i - 1 \in T PROVE i \in T
  <2>1. Zeros(i) = Append(Zeros(i - 1), 0)
    BY DEF Zeros
  <2>2. Zeros(i - 1) \in Seq(Nat) /\ i \in 0 .. n
    BY <1>1
  <2>3. Parts(Zeros(i)) = AddByte(<<<<>>>>, 0)
    <3>1. Parts(Append(Zeros(i - 1), 0)) = AddByte(Parts(Zeros(i - 1)), 0)
      BY <2>2, PartsAppend
    <3> QED
      BY <1>3, <2>1, <3>1
  <2>4. AddByte(<<<<>>>>, 0) = <<<<>>>>
    BY DEF AddByte, Last
  <2> QED
    BY <2>2, <2>3, <2>4
<1>4. \A i \in 0 .. n : i \in T
  <2> HIDE DEF T
  <2> QED
    BY <1>2, <1>3, UpTo
<1>5. n \in 0 .. n
  OBVIOUS
<1> QED
  BY <1>1, <1>4, <1>5
(* The loop of to_varints and its result. *)
JoinLoop(values, f) ==
    /\ to_varints(values) = f[Len(values)]
    /\ f[0] = <<>>
    /\ \A i \in 1 .. Len(values) : f[i] = f[i - 1] \o to_varint(values[i])
    /\ \A i \in 0 .. Len(values) : f[i] \in Seq(Nat)

LEMMA JoinIsLoop ==
    ASSUME NEW values \in Seq(Words)
    PROVE  \E f : JoinLoop(values, f)
<1> DEFINE n == Len(values)
           S == Seq(Nat)
           nothing == <<>>
           step == [p \in S \X (1 .. n) |-> p[1] \o to_varint(values[p[2]])]
           Is(f) == f = [i \in 0 .. n |->
                           IF i = 0 THEN <<>> ELSE f[i - 1] \o to_varint(values[i])]
           joined == CHOOSE f : Is(f)
<1>1. n \in Nat /\ nothing \in S /\ \A i \in 1 .. n : to_varint(values[i]) \in S
  <2>1. n \in Nat /\ \A i \in 1 .. n : values[i] \in Words
    OBVIOUS
  <2>2. \A i \in 1 .. n : to_varint(values[i]) \in S
    <3> HIDE DEF n
    <3> QED
      BY <2>1, VarintShape DEF IsVarint
  <2> QED
    BY <2>1, <2>2
<1>2. to_varints(values) = joined[n]
  BY DEF to_varints
<1>3. \A x, y \in S : x \o y \in S
  OBVIOUS
<1> HIDE DEF n, nothing, S
<1>4. step \in [S \X (1 .. n) -> S]
      /\ \A x \in S, i \in 1 .. n : step[<<x, i>>] = x \o to_varint(values[i])
  <2>1. \A x \in S, i \in 1 .. n : x \o to_varint(values[i]) \in S
    BY <1>1, <1>3
  <2> DEFINE Of(x, i) == x \o to_varint(values[i])
  <2>2. step = [p \in S \X (1 .. n) |-> Of(p[1], p[2])]
    OBVIOUS
  <2> HIDE DEF step, Of
  <2>3. \A x \in S, i \in 1 .. n : Of(x, i) \in S
    BY <2>1 DEF Of
  <2>4. step \in [S \X (1 .. n) -> S] /\ \A x \in S, i \in 1 .. n : step[<<x, i>>] = Of(x, i)
    BY <2>2, <2>3
  <2> QED
    BY <2>4 DEF Of
<1>5. PICK f : LoopResults(S, n, nothing, step, f)
  <2> HIDE DEF step
  <2> QED
    BY <1>1, <1>4, LoopHasResults
<1>6. f \in [0 .. n -> S] /\ \A i \in 0 .. n : f[i] = IF i = 0 THEN nothing ELSE step[<<f[i - 1], i>>]
  <2> HIDE DEF step
  <2> QED
    BY <1>5 DEF LoopResults
<1>7. ASSUME NEW i \in 0 .. n, i # 0 PROVE step[<<f[i - 1], i>>] = f[i - 1] \o to_varint(values[i])
  <2> HIDE DEF step
  <2>1. f[i - 1] \in S /\ i \in 1 .. n
    BY <1>1, <1>6, <1>7
  <2> QED
    BY <1>4, <2>1
<1>8. Is(f)
  <2> DEFINE More(i) == f[i - 1] \o to_varint(values[i])
  <2>1. \A i \in 0 .. n : f[i] = IF i = 0 THEN nothing ELSE More(i)
    <3> HIDE DEF step
    <3> QED
      BY <1>6, <1>7
  <2> HIDE DEF More, step
  <2>2. f = [i \in 0 .. n |-> IF i = 0 THEN nothing ELSE More(i)]
    BY <1>6, <2>1
  <2> QED
    BY <2>2 DEF More, nothing
<1>9. Is(joined)
  <2> HIDE DEF Is
  <2> QED
    BY <1>8
<1> HIDE DEF joined, step
<1>10. \A i \in 0 .. n : joined[i] = IF i = 0 THEN nothing ELSE joined[i - 1] \o to_varint(values[i])
  BY <1>9 DEF nothing
<1> HIDE DEF Is
<1>11. joined[0] = nothing
  <2>1. 0 \in 0 .. n
    BY <1>1
  <2> QED
    BY <1>10, <2>1, Zenon
<1>12. ASSUME NEW i \in 1 .. n PROVE joined[i] = joined[i - 1] \o to_varint(values[i])
  <2>1. i \in 0 .. n /\ i # 0
    BY <1>1
  <2> QED
    BY <1>10, <2>1, Zenon
<1> DEFINE T == {i \in 0 .. n : joined[i] \in S}
<1>13. 0 \in T
  BY <1>1, <1>11
<1>14. ASSUME NEW i \in 1 .. n, i - 1 \in T PROVE i \in T
  <2>1. i \in 0 .. n /\ joined[i - 1] \in S
    BY <1>1, <1>14
  <2>2. joined[i] \in S
    BY <1>1, <1>3, <1>12, <2>1
  <2> QED
    BY <2>1, <2>2
<1>15. \A i \in 0 .. n : i \in T
  <2> HIDE DEF T
  <2> QED
    BY <1>1, <1>13, <1>14, UpTo
<1>16. \A i \in 0 .. n : joined[i] \in S
  BY <1>15
<1>17. JoinLoop(values, joined)
  BY <1>2, <1>11, <1>12, <1>16, Zenon DEF JoinLoop, n, S, nothing
<1> QED
  BY <1>17

(* Concatenation is associative. *)
LEMMA ConcatConcat ==
    ASSUME NEW s \in Seq(Nat), NEW t \in Seq(Nat), NEW u \in Seq(Nat)
    PROVE  (s \o t) \o u = s \o (t \o u)
BY SMTT(30)

(* The encodings of the first n integers. *)
Encodings(values, n) == [i \in 1 .. n |-> to_varint(values[i])]

LEMMA PartsOfVarints ==
    ASSUME NEW values \in Seq(Words), NEW z \in Nat
    PROVE  /\ to_varints(values) \in Seq(Nat)
           /\ Parts(Zeros(z) \o to_varints(values)) = Begun(Encodings(values, Len(values)))
<1> DEFINE n == Len(values)
           Enc(i) == Encodings(values, i)
<1>1. PICK f : JoinLoop(values, f)
  BY JoinIsLoop
<1>2. /\ to_varints(values) = f[n] /\ f[0] = <<>>
      /\ \A i \in 1 .. n : f[i] = f[i - 1] \o to_varint(values[i])
      /\ \A i \in 0 .. n : f[i] \in Seq(Nat)
  BY <1>1 DEF JoinLoop
<1>3. n \in Nat /\ \A i \in 1 .. n : values[i] \in Words
  OBVIOUS
<1> HIDE DEF n
<1>4. \A i \in 1 .. n : IsVarint(to_varint(values[i])) /\ to_varint(values[i]) \in Seq(Nat)
  BY <1>3, VarintShape DEF IsVarint
<1>5. Zeros(z) \in Seq(Nat) /\ Parts(Zeros(z)) = <<<<>>>>
  BY PartsOfZeros
<1>6. ASSUME NEW i \in 0 .. n
      PROVE  /\ Enc(i) \in Seq(Seq(Nat)) /\ Len(Enc(i)) = i
             /\ \A j \in 1 .. i : Enc(i)[j] = to_varint(values[j])
  <2>1. i \in Nat /\ \A j \in 1 .. i : j \in 1 .. n
    BY <1>3
  <2> DEFINE Of(j) == to_varint(values[j])
  <2>2. \A j \in 1 .. i : Of(j) \in Seq(Nat)
    BY <1>4, <2>1
  <2>3. Enc(i) = [j \in 1 .. i |-> Of(j)]
    BY DEF Encodings
  <2> HIDE DEF Of, Enc
  <2>4. Enc(i) \in Seq(Seq(Nat)) /\ Len(Enc(i)) = i /\ \A j \in 1 .. i : Enc(i)[j] = Of(j)
    BY <2>1, <2>2, <2>3
  <2> QED
    BY <2>4 DEF Of
<1> HIDE DEF Enc
<1> DEFINE T == {i \in 0 .. n : Parts(Zeros(z) \o f[i]) = Begun(Enc(i))}
<1>7. 0 \in T
  <2>1. 0 \in 0 .. n
    BY <1>3
  <2>2. Zeros(z) \o f[0] = Zeros(z)
    BY <1>2, <1>5, ConcatEmptySeq
  <2>3. Enc(0) = <<>>
    BY <1>6, <2>1, EmptySeq
  <2> QED
    BY <1>5, <2>1, <2>2, <2>3 DEF Begun
<1>8. ASSUME NEW i \in 1 .. n, i - 1 \in T PROVE i \in T
  <2> DEFINE varint == to_varint(values[i])
             done == Enc(i - 1)
             before == Zeros(z) \o f[i - 1]
  <2>1. i \in 0 .. n /\ i - 1 \in 0 .. n /\ i \in Nat
    BY <1>3
  <2>2. f[i - 1] \in Seq(Nat) /\ varint \in Seq(Nat) /\ IsVarint(varint)
    BY <1>2, <1>4, <2>1
  <2>3. before \in Seq(Nat)
    BY <1>5, <2>2, ConcatProperties
  <2>4. Zeros(z) \o f[i] = before \o varint
    <3>1. f[i] = f[i - 1] \o varint
      BY <1>2
    <3> DEFINE s == Zeros(z)
               t == f[i - 1]
    <3>2. s \in Seq(Nat) /\ t \in Seq(Nat) /\ f[i] = t \o varint
      BY <1>5, <2>2, <3>1
    <3> HIDE DEF s, t, varint
    <3>3. (s \o t) \o varint = s \o (t \o varint)
      <4>1. varint \in Seq(Nat)
        BY <2>2
      <4> QED
        BY <3>2, <4>1, ConcatConcat, Zenon
    <3> QED
      BY <3>2, <3>3 DEF s, t
  <2>5. /\ done \in Seq(Seq(Nat)) /\ Len(done) = i - 1
        /\ \A j \in 1 .. (i - 1) : done[j] = to_varint(values[j])
        /\ Enc(i) \in Seq(Seq(Nat)) /\ Len(Enc(i)) = i
        /\ \A j \in 1 .. i : Enc(i)[j] = to_varint(values[j])
    BY <1>6, <2>1
  <2>6. \A j \in 1 .. (i - 1) : j \in 1 .. n
    BY <1>3
  <2>7. \A j \in 1 .. Len(done) : IsVarint(done[j])
    BY <1>4, <2>5, <2>6
  <2>8. Parts(before) = Begun(done)
    BY <1>8
  <2> HIDE DEF before, done
  <2>9. Parts(before \o varint) = Append(done, varint)
    <3> HIDE DEF varint
    <3> QED
      BY <2>2, <2>3, <2>5, <2>7, <2>8, OneMoreVarint
  <2>10. Append(done, varint) = Enc(i)
    <3> DEFINE s == Append(done, varint)
               t == Enc(i)
    <3>1. \A j \in 1 .. i : t[j] = IF j = i THEN varint ELSE to_varint(values[j])
      BY <2>5
    <3> HIDE DEF varint
    <3>2. s \in Seq(Seq(Nat)) /\ Len(s) = i
          /\ \A j \in 1 .. i : s[j] = IF j = i THEN varint ELSE done[j]
      BY <2>1, <2>2, <2>5
    <3>3. \A j \in 1 .. i : j # i => done[j] = to_varint(values[j])
      BY <2>1, <2>5
    <3> HIDE DEF s
    <3>4. \A j \in 1 .. i : s[j] = t[j]
      BY <3>1, <3>2, <3>3
    <3>5. t \in Seq(Seq(Nat)) /\ Len(t) = i
      BY <2>5
    <3> HIDE DEF t
    <3>6. s = t
      BY <3>2, <3>4, <3>5, SeqEqual
    <3> QED
      BY <3>6 DEF s, t
  <2>11. Begun(Enc(i)) = Enc(i)
    <3>1. Enc(i) # <<>>
      BY <2>1, <2>5, EmptySeq
    <3> QED
      BY <3>1 DEF Begun
  <2> QED
    BY <2>1, <2>4, <2>9, <2>10, <2>11
<1>9. \A i \in 0 .. n : i \in T
  <2> HIDE DEF T
  <2> QED
    BY <1>3, <1>7, <1>8, UpTo
<1>10. n \in 0 .. n
  BY <1>3
<1>11. Parts(Zeros(z) \o f[n]) = Begun(Enc(n)) /\ f[n] \in Seq(Nat)
  BY <1>2, <1>9, <1>10
<1> QED
  BY <1>2, <1>11 DEF n, Enc

(***************************************************************************)
(* Any list of words is read back from the bytes it was written to, with   *)
(* any number of zeros before them: where an integer begins and ends is    *)
(* never mistaken, though an integer may be 0 and may have zero groups.    *)
(***************************************************************************)
THEOREM VarintsRoundTrip ==
    ASSUME NEW values \in Seq(Words), values # <<>>, NEW z \in Nat
    PROVE  from_varints(Zeros(z) \o to_varints(values)) = values
<1> DEFINE n == Len(values)
           bytes == Zeros(z) \o to_varints(values)
           enc == Encodings(values, n)
<1>1. n \in Nat \ {0} /\ values = [i \in 1 .. n |-> values[i]] /\ \A i \in 1 .. n : values[i] \in Words
  BY EmptySeq
<1>2. Parts(bytes) = Begun(enc)
  BY PartsOfVarints
<1> HIDE DEF bytes, n
<1>3. DOMAIN enc = 1 .. n /\ \A i \in 1 .. n : enc[i] = to_varint(values[i])
  BY DEF Encodings
<1> HIDE DEF enc
<1>4. Begun(enc) = enc
  <2>1. enc # <<>>
    <3>1. 1 \in DOMAIN enc
      BY <1>1, <1>3
    <3> QED
      BY <3>1
  <2> QED
    BY <2>1 DEF Begun
<1>5. \A i \in 1 .. n : Len(enc[i]) <= 5 /\ from_varint(enc[i]) = values[i]
  <2> SUFFICES ASSUME NEW i \in 1 .. n
               PROVE  Len(enc[i]) <= 5 /\ from_varint(enc[i]) = values[i]
    OBVIOUS
  <2>1. IsVarint(to_varint(values[i])) /\ from_varint(to_varint(values[i])) = values[i]
    BY <1>1, VarintShape, VarintRoundTrip
  <2> DEFINE varint == enc[i]
  <2>2. IsVarint(varint) /\ from_varint(varint) = values[i]
    BY <1>3, <2>1
  <2> HIDE DEF varint
  <2> DEFINE len == Len(varint)
  <2>3. len \in 1 .. 5
    BY <2>2, Zenon DEF IsVarint
  <2> HIDE DEF len
  <2>4. len <= 5
    BY <2>3
  <2> QED
    BY <2>2, <2>4, Zenon DEF varint, len
<1>6. ~ \E i \in DOMAIN enc : Len(enc[i]) > 5
  <2> SUFFICES ASSUME NEW i \in DOMAIN enc, Len(enc[i]) > 5 PROVE FALSE
    OBVIOUS
  <2>1. i \in 1 .. n
    BY <1>3
  <2> DEFINE varint == enc[i]
  <2>2. IsVarint(varint) /\ Len(varint) > 5
    BY <1>1, <1>3, <2>1, VarintShape
  <2> HIDE DEF varint
  <2> DEFINE len == Len(varint)
  <2>3. len \in 1 .. 5 /\ len > 5
    BY <2>2, Zenon DEF IsVarint
  <2> HIDE DEF len
  <2> QED
    BY <2>3
<1>7. from_varints(bytes) = [i \in DOMAIN enc |-> from_varint(enc[i])]
  BY <1>2, <1>4, <1>6 DEF from_varints
<1>8. [i \in DOMAIN enc |-> from_varint(enc[i])] = [i \in 1 .. n |-> values[i]]
  BY <1>3, <1>5
<1> QED
  BY <1>1, <1>7, <1>8 DEF bytes

-----------------------------------------------------------------------------
(* Ids of bots. *)

(* What fits is read back, after the zeros that fill the eight bytes. *)
LEMMA EightBytesRoundTrip ==
    ASSUME NEW values \in Seq(Words), values # <<>>
    PROVE  /\ InEightBytes(to_varints(values)) # Panic
                => from_varints(InEightBytes(to_varints(values))) = values
           /\ Len(to_varints(values)) <= 8
                => from_varints(InEightBytes(to_varints(values))) = values
<1> DEFINE bytes == to_varints(values)
           z == 8 - Len(bytes)
<1>1. bytes \in Seq(Nat)
  BY PartsOfVarints, 0 \in Nat
<1>2. Len(bytes) \in Nat
  BY <1>1
<1>3. CASE Len(bytes) > 8
  <2>1. InEightBytes(bytes) = Panic
    BY <1>3 DEF InEightBytes
  <2>2. ~(Len(bytes) <= 8)
    BY <1>2, <1>3
  <2> QED
    BY <2>1, <2>2
<1>4. CASE ~(Len(bytes) > 8)
  <2>1. InEightBytes(bytes) = Zeros(z) \o bytes
    BY <1>4 DEF InEightBytes, Zeros
  <2>2. z \in Nat
    BY <1>2, <1>4
  <2> HIDE DEF z
  <2>3. from_varints(Zeros(z) \o bytes) = values
    BY <2>2, VarintsRoundTrip
  <2> QED
    BY <2>1, <2>3
<1> QED
  BY <1>3, <1>4

(* Two words in a row take the bytes of both. *)
LEMMA LengthOfTwo ==
    ASSUME NEW a \in Words, NEW b \in Words
    PROVE  Len(to_varints(<<a, b>>)) = result_len(a) + result_len(b)
<1> DEFINE values == <<a, b>>
           u == to_varint(a)
           w == to_varint(b)
<1>1. /\ values \in Seq(Words) /\ Len(values) = 2 /\ values[1] = a /\ values[2] = b
      /\ 1 \in 1 .. 2 /\ 2 \in 1 .. 2
  OBVIOUS
<1> HIDE DEF values
<1>2. PICK f : JoinLoop(values, f)
  BY <1>1, JoinIsLoop
<1>3. /\ to_varints(values) = f[2] /\ f[0] = <<>>
      /\ \A i \in 1 .. 2 : f[i] = f[i - 1] \o to_varint(values[i])
  BY <1>1, <1>2 DEF JoinLoop
<1>4. f[1] = <<>> \o u /\ f[2] = f[1] \o w
  <2>1. 1 - 1 = 0 /\ 2 - 1 = 1
    OBVIOUS
  <2>2. f[1] = f[1 - 1] \o to_varint(values[1]) /\ f[2] = f[2 - 1] \o to_varint(values[2])
    BY <1>1, <1>3, Zenon
  <2> QED
    BY <1>1, <1>3, <2>1, <2>2, Zenon
<1>5. u \in Seq(Nat) /\ w \in Seq(Nat) /\ Len(u) = result_len(a) /\ Len(w) = result_len(b)
  BY VarintShape DEF IsVarint
<1> HIDE DEF u, w
<1>6. f[1] = u
  BY <1>4, <1>5, ConcatEmptySeq
<1>7. Len(u \o w) = Len(u) + Len(w)
  BY <1>5, ConcatProperties
<1> QED
  BY <1>3, <1>4, <1>5, <1>6, <1>7 DEF values

(* A value below the weight of a group takes the bytes of the groups below. *)
LEMMA ShortLen ==
    ASSUME NEW v \in Words, NEW k \in 1 .. 5, v < Pow2[k * Group]
    PROVE  result_len(v) <= k
<1> DEFINE len == result_len(v)
<1>1. len \in 1 .. 5 /\ (len > 1 => v >= Pow2[(len - 1) * Group])
  BY ResultLen
<1> HIDE DEF len
<1> SUFFICES ASSUME len > k PROVE FALSE
  BY <1>1 DEF len
<1> DEFINE j == len - 1
           low == k * Group
           high == j * Group
<1>2. k \in {1, 2, 3, 4} /\ j \in {1, 2, 3, 4} /\ k <= j
  BY <1>1
<1>3. Group \in Nat /\ 5 * Group \in Nat
  BY Widths
<1>4. low \in Nat /\ high \in Nat /\ low <= high /\ high <= 5 * Group
  <2> HIDE DEF j
  <2> QED
    BY <1>2, <1>3
<1>5. v >= Pow2[high] /\ v < Pow2[low]
  BY <1>1, <1>2
<1> HIDE DEF low, high
<1>6. Pow2[low] <= Pow2[high]
  BY <1>4, Pow2Grows
<1>7. Pow2[low] \in Nat /\ Pow2[high] \in Nat /\ v \in Nat
  BY <1>3, <1>4, Pow2Value, WordType
<1> QED
  BY <1>5, <1>6, <1>7

(* The index of a model takes three bytes at most. *)
LEMMA ModelIdLen ==
    ASSUME NEW model \in ModelIds
    PROVE  model \in Words /\ result_len(model) <= 3
<1>1. 3 * Group \in Nat /\ 3 * Group <= Word /\ Word <= 5 * Group /\ Word \in Nat
      /\ Group \in Nat /\ 4 * Group \in Nat
  BY Widths
<1> DEFINE w == 3 * Group
           low == Pow2[3 * Group]
<1>2. model \in 0 .. (low - 1)
  BY CompoundIdAssumption
<1>3. low \in Nat /\ low <= Pow2[Word] /\ Pow2[Word] \in Nat
  <2>1. w \in 0 .. 5 * Group /\ Word \in 0 .. 5 * Group
    BY <1>1
  <2>2. Pow2[w] <= Pow2[Word]
    <3> HIDE DEF w
    <3> QED
      BY <1>1, Pow2Grows DEF w
  <2> QED
    BY <2>1, <2>2, Pow2Value
<1>4. model \in Words
  BY <1>2, <1>3 DEF Words
<1>5. result_len(model) <= 3
  BY <1>2, <1>3, <1>4, 3 \in 1 .. 5, ShortLen
<1> QED
  BY <1>4, <1>5

LEMMA BotIdsAreWords ==
    ASSUME TypeOK
    PROVE  BotIds \subseteq Words
<1>1. 1 .. MaxId \subseteq Words
  BY BotIdsAssumption, MaxIdAssumption, WordType DEF Words
<1> QED
  BY <1>1, BotIdsAssumption DEF BotIds, TypeOK

(***************************************************************************)
(* For every width of words and groups, the key of a bot's entry exists    *)
(* and gives back the model and the bot, so that contains_id, retain and   *)
(* remove_bot, which read the key, never panic nor take another bot's id.  *)
(***************************************************************************)
THEOREM KeysNameTheirBots == Spec => []InternalIdDecodes
<1>1. TypeOK => InternalIdDecodes
  <2> SUFFICES ASSUME TypeOK, NEW model \in ModelIds, NEW bot \in BotIds
               PROVE  from_internal_id(internal_id(model, bot)) = <<model, bot>>
    BY DEF InternalIdDecodes
  <2>1. model \in Words /\ bot \in Words /\ result_len(model) <= 3
    BY ModelIdLen, BotIdsAreWords
  <2> DEFINE values == <<model, bot>>
             id == internal_id(model, bot)
  <2>2. values \in Seq(Words) /\ values # <<>> /\ Len(values) = 2
    BY <2>1
  <2>3. Len(to_varints(values)) <= 8
    <3>1. result_len(model) \in 1 .. 5 /\ result_len(bot) \in 1 .. 5
      BY <2>1, ResultLen
    <3>2. Len(to_varints(values)) = result_len(model) + result_len(bot)
      BY <2>1, LengthOfTwo
    <3> HIDE DEF values
    <3> QED
      BY <2>1, <3>1, <3>2
  <2>4. id = InEightBytes(to_varints(values))
    BY DEF internal_id
  <2> HIDE DEF values, id
  <2>5. from_varints(id) = values
    BY <2>2, <2>3, <2>4, EightBytesRoundTrip
  <2>6. from_internal_id(id) = values
    BY <2>2, <2>5 DEF from_internal_id
  <2> QED
    BY <2>6 DEF values, id
<1> QED
  BY <1>1, TypeCorrect, PTL

-----------------------------------------------------------------------------
(* Which bots have a global id. *)

(* Three words in a row take the bytes of all. *)
LEMMA LengthOfThree ==
    ASSUME NEW a \in Words, NEW b \in Words, NEW c \in Words
    PROVE  Len(to_varints(<<a, b, c>>)) = result_len(a) + result_len(b) + result_len(c)
<1> DEFINE values == <<a, b, c>>
           u == to_varint(a)
           w == to_varint(b)
           x == to_varint(c)
<1>1. /\ values \in Seq(Words) /\ Len(values) = 3
      /\ values[1] = a /\ values[2] = b /\ values[3] = c
      /\ 1 \in 1 .. 3 /\ 2 \in 1 .. 3 /\ 3 \in 1 .. 3
  OBVIOUS
<1> HIDE DEF values
<1>2. PICK f : JoinLoop(values, f)
  BY <1>1, JoinIsLoop
<1>3. /\ to_varints(values) = f[3] /\ f[0] = <<>>
      /\ \A i \in 1 .. 3 : f[i] = f[i - 1] \o to_varint(values[i])
  BY <1>1, <1>2 DEF JoinLoop
<1>4. f[1] = <<>> \o u /\ f[2] = f[1] \o w /\ f[3] = f[2] \o x
  <2>1. 1 - 1 = 0 /\ 2 - 1 = 1 /\ 3 - 1 = 2
    OBVIOUS
  <2>2. /\ f[1] = f[1 - 1] \o to_varint(values[1])
        /\ f[2] = f[2 - 1] \o to_varint(values[2])
        /\ f[3] = f[3 - 1] \o to_varint(values[3])
    BY <1>1, <1>3, Zenon
  <2> QED
    BY <1>1, <1>3, <2>1, <2>2, Zenon
<1>5. /\ u \in Seq(Nat) /\ w \in Seq(Nat) /\ x \in Seq(Nat)
      /\ Len(u) = result_len(a) /\ Len(w) = result_len(b) /\ Len(x) = result_len(c)
  BY VarintShape DEF IsVarint
<1> HIDE DEF u, w, x
<1>6. f[1] = u
  BY <1>4, <1>5, ConcatEmptySeq
<1>7. f[2] \in Seq(Nat) /\ Len(f[2]) = Len(u) + Len(w)
  BY <1>4, <1>5, <1>6, ConcatProperties
<1>8. Len(f[3]) = Len(f[2]) + Len(x)
  BY <1>4, <1>5, <1>7, ConcatProperties
<1> QED
  BY <1>3, <1>5, <1>7, <1>8 DEF values

(***************************************************************************)
(* A global id exists exactly when its three integers have eight bytes at  *)
(* most: this is all that the subtraction of global_id asks for.           *)
(***************************************************************************)
THEOREM GlobalIdsFit ==
    ASSUME NEW agent \in Words, NEW model \in Words, NEW bot \in Words
    PROVE  global_id(agent, model, bot) # Panic
              <=> result_len(agent) + result_len(model) + result_len(bot) <= 8
<1> DEFINE values == <<agent, model, bot>>
           bytes == to_varints(values)
           total == result_len(agent) + result_len(model) + result_len(bot)
<1>1. values \in Seq(Words) /\ values # <<>>
  OBVIOUS
<1>2. Len(bytes) = total
  BY LengthOfThree
<1>3. total \in Nat
  BY ResultLen
<1>4. global_id(agent, model, bot) = InEightBytes(bytes)
  BY DEF global_id
<1> HIDE DEF values, total
<1>5. CASE total > 8
  <2>1. InEightBytes(bytes) = Panic
    BY <1>2, <1>5 DEF InEightBytes
  <2> QED
    BY <1>3, <1>4, <1>5, <2>1 DEF total
<1>6. CASE ~(total > 8)
  <2>1. bytes \in Seq(Nat)
    BY <1>1, PartsOfVarints, 0 \in Nat
  <2> DEFINE zeros == Zeros(8 - Len(bytes))
  <2>2. InEightBytes(bytes) = zeros \o bytes
    BY <1>2, <1>6 DEF InEightBytes, Zeros
  <2>3. zeros \in Seq(Nat) /\ Len(zeros) = 8 - total
    BY <1>2, <1>3, <1>6 DEF Zeros
  <2> HIDE DEF bytes, zeros
  <2>4. Len(zeros \o bytes) = 8
    BY <1>2, <1>3, <2>1, <2>3, ConcatProperties
  <2>5. zeros \o bytes # Panic
    BY <2>4 DEF Panic
  <2> QED
    BY <1>3, <1>4, <1>6, <2>2, <2>5 DEF total
<1> QED
  BY <1>5, <1>6

(* Three words fit together when the bytes they take are eight at most. *)
LEMMA FitInBytes ==
    ASSUME NEW agent \in Words, NEW model \in Words, NEW bot \in Words
    PROVE  FitTogether(agent, model, bot)
              <=> result_len(agent) + result_len(model) + result_len(bot) <= 8
<1> DEFINE total == result_len(agent) + result_len(model) + result_len(bot)
<1>1. /\ result_len(agent) \in 1 .. 5 /\ agent < Pow2[result_len(agent) * Group]
      /\ result_len(model) \in 1 .. 5 /\ model < Pow2[result_len(model) * Group]
      /\ result_len(bot) \in 1 .. 5 /\ bot < Pow2[result_len(bot) * Group]
  BY ResultLen
<1>2. ASSUME total <= 8
      PROVE  FitTogether(agent, model, bot)
  BY <1>1, <1>2 DEF FitTogether
<1>3. ASSUME FitTogether(agent, model, bot)
      PROVE  total <= 8
  <2>1. PICK a \in 1 .. 5, m \in 1 .. 5, b \in 1 .. 5 :
           /\ a + m + b <= 8
           /\ agent < Pow2[a * Group] /\ model < Pow2[m * Group] /\ bot < Pow2[b * Group]
    BY <1>3 DEF FitTogether
  <2>2. result_len(agent) <= a /\ result_len(model) <= m /\ result_len(bot) <= b
    BY <2>1, ShortLen
  <2> QED
    BY <1>1, <2>1, <2>2
<1> QED
  BY <1>2, <1>3

(***************************************************************************)
(* For whatever widths, a global id exists exactly where the three parts   *)
(* fit together in eight groups, and gives back agent, model and bot.      *)
(***************************************************************************)
THEOREM GlobalIdsNameTheirBots == Spec => []GlobalIdDecodes
<1>1. TypeOK => GlobalIdDecodes
  <2> SUFFICES ASSUME TypeOK, NEW agent \in AgentIds, NEW model \in ModelIds, NEW bot \in BotIds
               PROVE  LET id == global_id(agent, model, bot) IN
                      /\ id # Panic <=> FitTogether(agent, model, bot)
                      /\ id # Panic => from_varints(id) = <<agent, model, bot>>
    BY DEF GlobalIdDecodes
  <2>1. agent \in Words /\ model \in Words /\ bot \in Words
    BY ModelIdLen, BotIdsAreWords, CompoundIdAssumption
  <2>2. global_id(agent, model, bot) # Panic <=> FitTogether(agent, model, bot)
    BY <2>1, FitInBytes, GlobalIdsFit
  <2>3. ASSUME global_id(agent, model, bot) # Panic
        PROVE  from_varints(global_id(agent, model, bot)) = <<agent, model, bot>>
    <3> DEFINE values == <<agent, model, bot>>
    <3>1. values \in Seq(Words) /\ values # <<>>
      BY <2>1
    <3>2. global_id(agent, model, bot) = InEightBytes(to_varints(values))
      BY DEF global_id
    <3> HIDE DEF values
    <3>3. from_varints(InEightBytes(to_varints(values))) = values
      BY <2>3, <3>1, <3>2, EightBytesRoundTrip
    <3> QED
      BY <3>2, <3>3 DEF values
  <2> QED
    BY <2>2, <2>3
<1> QED
  BY <1>1, TypeCorrect, PTL

(***************************************************************************)
(* Two bots with one global id are one bot of one agent.                   *)
(***************************************************************************)
THEOREM GlobalIdsDiffer ==
    ASSUME NEW agent \in Words, NEW model \in Words, NEW bot \in Words,
           NEW agent2 \in Words, NEW model2 \in Words, NEW bot2 \in Words,
           global_id(agent, model, bot) = global_id(agent2, model2, bot2),
           global_id(agent, model, bot) # Panic
    PROVE  agent = agent2 /\ model = model2 /\ bot = bot2
<1> DEFINE one == <<agent, model, bot>>
           two == <<agent2, model2, bot2>>
<1>1. one \in Seq(Words) /\ two \in Seq(Words) /\ one # <<>> /\ two # <<>>
  OBVIOUS
<1>2. /\ global_id(agent, model, bot) = InEightBytes(to_varints(one))
      /\ global_id(agent2, model2, bot2) = InEightBytes(to_varints(two))
  BY DEF global_id
<1> HIDE DEF one, two
<1>3. /\ from_varints(InEightBytes(to_varints(one))) = one
      /\ from_varints(InEightBytes(to_varints(two))) = two
  BY <1>1, <1>2, EightBytesRoundTrip
<1>4. one = two
  BY <1>2, <1>3
<1> QED
  BY <1>4 DEF one, two

(***************************************************************************)
(* Every bot has a global id where the groups of the largest agent, model  *)
(* and bot ids are eight in all, as with agent ids below 2^28, 128 models, *)
(* and 2^21 bots.                                                          *)
(***************************************************************************)
THEOREM ShortIdsAreGlobal ==
    ASSUME NEW a \in 1 .. 5, NEW m \in 1 .. 5, NEW b \in 1 .. 5, a + m + b <= 8,
           \A agent \in AgentIds : agent < Pow2[a * Group],
           \A model \in ModelIds : model < Pow2[m * Group],
           MaxId < Pow2[b * Group]
    PROVE  Spec => []EveryBotHasAGlobalId
<1>1. TypeOK => EveryBotHasAGlobalId
  <2> SUFFICES ASSUME TypeOK, NEW agent \in AgentIds, NEW model \in ModelIds, NEW bot \in inUse
               PROVE  global_id(agent, model, bot) # Panic
    BY DEF EveryBotHasAGlobalId
  <2>1. agent \in Words /\ model \in Words /\ bot \in Words
    BY ModelIdLen, BotIdsAreWords, CompoundIdAssumption DEF BotIds
  <2>2. bot < Pow2[b * Group]
    <3>1. bot \in 1 .. MaxId /\ MaxId \in Nat
      BY MaxIdAssumption DEF TypeOK
    <3>2. b * Group \in 0 .. 5 * Group
      BY Widths, b \in {1, 2, 3, 4, 5}
    <3> DEFINE limit == Pow2[b * Group]
    <3>3. limit \in Nat
      BY <3>2, Pow2Value
    <3> HIDE DEF limit
    <3>4. MaxId < limit
      BY DEF limit
    <3>5. bot < limit
      BY <3>1, <3>3, <3>4
    <3> QED
      BY <3>5 DEF limit
  <2>3. result_len(agent) <= a /\ result_len(model) <= m /\ result_len(bot) <= b
    BY <2>1, <2>2, ShortLen
  <2>4. result_len(agent) \in 1 .. 5 /\ result_len(model) \in 1 .. 5 /\ result_len(bot) \in 1 .. 5
    BY <2>1, ResultLen
  <2>5. result_len(agent) + result_len(model) + result_len(bot) <= 8
    BY <2>3, <2>4
  <2> QED
    BY <2>1, <2>5, GlobalIdsFit
<1> QED
  BY <1>1, TypeCorrect, PTL
=============================================================================
