--------------------------- MODULE OperatorLemmas ---------------------------
(***************************************************************************)
(* Facts about the operators that models are built from.  Loops: one that  *)
(* starts somewhere and makes a step for each index has a result for each  *)
(* index, and what its steps keep holds of all of them.  Division, which   *)
(* shares of a load and the bytes of an id are made of.  Selection: what   *)
(* Select keeps of a sequence.  IdGenerator: each operation, one call at a *)
(* time or in a batch, keeps a generator exact.                            *)
(***************************************************************************)
EXTENDS IdGenerator, Selection, SequenceTheorems, WellFoundedInduction, TLAPS

(* A non-empty set of naturals has a least element. *)
LEMMA LeastOfNaturals ==
    ASSUME NEW T \in SUBSET Nat, T # {}
    PROVE  \E x \in T : \A y \in T : x <= y
<1> DEFINE R == OpToRel(<, Nat)
<1>1. IsWellFoundedOn(R, Nat)
  BY NatLessThanWellFounded, Zenon
<1>2. \A x, y \in Nat : x < y => <<x, y>> \in R
  BY DEF OpToRel
<1> HIDE DEF R
<1>3. PICK x \in T : \A y \in T : ~ (<<y, x>> \in R)
  BY <1>1, WFMin
<1>4. \A y \in T : ~ (y < x)
  BY <1>2, <1>3, Zenon
<1> QED
  BY <1>4

(* A non-empty set of naturals with an upper bound has a greatest element. *)
LEMMA GreatestOfNaturals ==
    ASSUME NEW T \in SUBSET Nat, T # {},
           NEW b \in Nat, \A x \in T : x <= b
    PROVE  \E x \in T : \A y \in T : y <= x
<1> DEFINE U == {b - x : x \in T}
<1>1. U \in SUBSET Nat /\ U # {}
  <2>1. \A x \in T : b - x \in Nat
    OBVIOUS
  <2>2. U \in SUBSET Nat
    BY <2>1
  <2>3. U # {}
    BY Zenon
  <2> QED
    BY <2>2, <2>3
<1>2. PICK u \in U : \A v \in U : u <= v
  <2> HIDE DEF U
  <2> QED
    BY <1>1, LeastOfNaturals
<1>3. PICK x \in T : u = b - x
  BY <1>2
<1>4. ASSUME NEW y \in T PROVE y <= x
  BY <1>2, <1>3, b - y \in U
<1> QED
  BY <1>3, <1>4

-----------------------------------------------------------------------------
(* A quotient and its rest. *)
LEMMA Division ==
    ASSUME NEW c \in Nat, NEW n \in Nat \ {0}
    PROVE  /\ c \div n \in Nat /\ c % n \in 0 .. (n - 1)
           /\ c = n * (c \div n) + (c % n)
BY SMT

(* One multiple of n cannot exceed another without exceeding it by n. *)
LEMMA Multiples ==
    ASSUME NEW a \in Int, NEW b \in Int, NEW n \in Nat \ {0}, n * a < n * b + n
    PROVE  a <= b
<1>1. SUFFICES ASSUME a >= b + 1 PROVE FALSE
  OBVIOUS
<1>2. n * a >= n * (b + 1)
  BY <1>1, Z3
<1>3. n * (b + 1) = n * b + n
  BY SMT
<1> QED
  BY <1>2, <1>3, SMT

-----------------------------------------------------------------------------
(* What holds at 0 and is kept by each step holds up to the last one. *)
LEMMA UpTo ==
    ASSUME NEW n \in Nat, NEW T, 0 \in T, \A i \in 1 .. n : i - 1 \in T => i \in T
    PROVE  \A i \in 0 .. n : i \in T
<1> DEFINE bad == {i \in 0 .. n : i \notin T}
<1> SUFFICES ASSUME bad # {}
             PROVE  FALSE
  OBVIOUS
<1>1. bad \in SUBSET Nat
  OBVIOUS
<1>2. PICK k \in bad : \A i \in bad : k <= i
  <2> HIDE DEF bad
  <2> QED
    BY <1>1, LeastOfNaturals
<1>3. k \in 1 .. n /\ k - 1 \in 0 .. n
  BY <1>2
<1>4. k - 1 \in T
  BY <1>2, <1>3
<1> QED
  BY <1>2, <1>3, <1>4

(* The results of a loop over 1 .. n, each a member of S. *)
LoopResults(S, n, base, step, f) ==
    /\ f \in [0 .. n -> S]
    /\ \A i \in 0 .. n : f[i] = IF i = 0 THEN base ELSE step[<<f[i - 1], i>>]

(* A loop has a result for each index. *)
LEMMA LoopHasResults ==
    ASSUME NEW S, NEW n \in Nat, NEW base \in S, NEW step \in [S \X (1 .. n) -> S]
    PROVE  \E f : LoopResults(S, n, base, step, f)
<1> DEFINE Upto(k, f) ==
              \A i \in 0 .. k : f[i] = IF i = 0 THEN base ELSE step[<<f[i - 1], i>>]
           T == {k \in 0 .. n : \E f \in [0 .. k -> S] : Upto(k, f)}
<1>1. 0 \in T
  <2> DEFINE f == [i \in 0 .. 0 |-> base]
  <2>1. f \in [0 .. 0 -> S] /\ Upto(0, f)
    OBVIOUS
  <2>2. 0 \in 0 .. n /\ \E g \in [0 .. 0 -> S] : Upto(0, g)
    <3> HIDE DEF Upto, f
    <3> QED
      BY <2>1
  <2> QED
    BY <2>2
<1>2. ASSUME NEW k \in 1 .. n, k - 1 \in T
      PROVE  k \in T
  <2>1. PICK f \in [0 .. (k - 1) -> S] : Upto(k - 1, f)
    BY <1>2
  <2> DEFINE g == [i \in 0 .. k |-> IF i = k THEN step[<<f[k - 1], k>>] ELSE f[i]]
  <2>2. f[k - 1] \in S /\ <<f[k - 1], k>> \in S \X (1 .. n)
    OBVIOUS
  <2>3. g \in [0 .. k -> S]
    BY <2>2
  <2>4. Upto(k, g)
    <3> SUFFICES ASSUME NEW i \in 0 .. k
                 PROVE  g[i] = IF i = 0 THEN base ELSE step[<<g[i - 1], i>>]
      OBVIOUS
    <3>1. CASE i = k
      <4>1. k - 1 \in 0 .. k /\ k - 1 # k /\ k \in 0 .. k /\ k # 0
        OBVIOUS
      <4>2. g[k] = step[<<f[k - 1], k>>] /\ g[k - 1] = f[k - 1]
        BY <4>1
      <4> HIDE DEF g
      <4> QED
        BY <3>1, <4>1, <4>2
    <3>2. CASE i # k
      <4>1. i \in 0 .. (k - 1) /\ g[i] = f[i] /\ (i # 0 => g[i - 1] = f[i - 1])
        BY <3>2
      <4> HIDE DEF g
      <4> QED
        BY <2>1, <4>1
    <3> QED
      BY <3>1, <3>2
  <2>5. k \in 0 .. n /\ \E h \in [0 .. k -> S] : Upto(k, h)
    <3> HIDE DEF Upto, g
    <3> QED
      BY <2>3, <2>4
  <2> QED
    BY <2>5
<1> HIDE DEF T
<1>3. n \in T
  BY <1>1, <1>2, UpTo
<1>4. \E f \in [0 .. n -> S] : Upto(n, f)
  <2> HIDE DEF Upto
  <2> QED
    BY <1>3 DEF T
<1> QED
  BY <1>4 DEF LoopResults

-----------------------------------------------------------------------------
(* The recursive function of Select, and its values. *)
SelectLoop(X, s, S, kept) ==
    /\ kept \in [0 .. Len(s) -> Seq(X)]
    /\ Select(s, S) = kept[Len(s)]
    /\ \A i \in 0 .. Len(s) :
          kept[i] = IF i = 0 THEN <<>>
                    ELSE IF s[i] \in S THEN Append(kept[i - 1], s[i]) ELSE kept[i - 1]

LEMMA SelectIsLoop ==
    ASSUME NEW X, NEW s \in Seq(X), NEW S
    PROVE  \E kept : SelectLoop(X, s, S, kept)
<1> DEFINE n == Len(s)
           step == [p \in Seq(X) \X (1 .. n) |->
                      IF s[p[2]] \in S THEN Append(p[1], s[p[2]]) ELSE p[1]]
           Is(f) == f = [i \in 0 .. n |->
                           IF i = 0 THEN <<>>
                           ELSE IF s[i] \in S THEN Append(f[i - 1], s[i]) ELSE f[i - 1]]
           kept == CHOOSE f : Is(f)
<1>1. n \in Nat /\ <<>> \in Seq(X) /\ step \in [Seq(X) \X (1 .. n) -> Seq(X)]
  OBVIOUS
<1>2. \A x \in Seq(X), i \in 1 .. n :
         step[<<x, i>>] = IF s[i] \in S THEN Append(x, s[i]) ELSE x
  OBVIOUS
<1> HIDE DEF n, step
<1>3. PICK f \in [0 .. n -> Seq(X)] :
         \A i \in 0 .. n : f[i] = IF i = 0 THEN <<>> ELSE step[<<f[i - 1], i>>]
  <2>1. \E f : LoopResults(Seq(X), n, <<>>, step, f)
    BY <1>1, LoopHasResults
  <2> QED
    BY <2>1, Zenon DEF LoopResults
<1>4. \A i \in 0 .. n : f[i] = IF i = 0 THEN <<>>
                               ELSE IF s[i] \in S THEN Append(f[i - 1], s[i]) ELSE f[i - 1]
  <2> SUFFICES ASSUME NEW i \in 0 .. n, i # 0
               PROVE  f[i] = IF s[i] \in S THEN Append(f[i - 1], s[i]) ELSE f[i - 1]
    BY <1>3
  <2>1. f[i - 1] \in Seq(X) /\ i \in 1 .. n
    BY <1>1
  <2>2. f[i] = step[<<f[i - 1], i>>]
    BY <1>3
  <2> QED
    BY <1>2, <2>1, <2>2
<1>5. Is(f)
  BY <1>4
<1>6. Is(kept)
  <2> HIDE DEF Is
  <2> QED
    BY <1>5
<1>7. Select(s, S) = kept[n]
  BY DEF Select, n
<1> HIDE DEF kept
<1>8. /\ \A i \in 0 .. n : kept[i] = IF i = 0 THEN <<>>
                                     ELSE IF s[i] \in S THEN Append(kept[i - 1], s[i])
                                          ELSE kept[i - 1]
      /\ kept = [i \in 0 .. n |-> kept[i]]
  BY <1>6
<1>9. \A i \in 0 .. n : kept[i] \in Seq(X)
  <2> DEFINE T == {i \in 0 .. n : kept[i] \in Seq(X)}
  <2>1. 0 \in T
    <3>1. 0 \in 0 .. n
      BY <1>1
    <3>2. kept[0] = <<>>
      BY <1>8, <3>1, Zenon
    <3> QED
      BY <1>1, <3>1, <3>2, Zenon
  <2>2. ASSUME NEW i \in 1 .. n, i - 1 \in T
        PROVE  i \in T
    <3>1. s[i] \in X /\ kept[i - 1] \in Seq(X) /\ i \in 0 .. n /\ i # 0
      BY <1>1, <2>2 DEF n
    <3>2. kept[i] = IF s[i] \in S THEN Append(kept[i - 1], s[i]) ELSE kept[i - 1]
      BY <1>8, <3>1
    <3>3. kept[i] \in Seq(X)
      BY <3>1, <3>2
    <3> QED
      BY <3>1, <3>3, Zenon
  <2> HIDE DEF T
  <2>3. \A i \in 0 .. n : i \in T
    BY <1>1, <2>1, <2>2, UpTo
  <2> QED
    BY <2>3 DEF T
<1>10. kept \in [0 .. n -> Seq(X)]
  BY <1>8, <1>9
<1> QED
  BY <1>7, <1>8, <1>10 DEF n, SelectLoop

(***************************************************************************)
(* `at' says where the elements of a selection were: in the same order,    *)
(* and all that are in the set are kept.                                   *)
(***************************************************************************)
Places(s, n, S, kept, at) ==
    /\ at \in [1 .. Len(kept) -> 1 .. n]
    /\ \A k \in 1 .. Len(kept) : kept[k] = s[at[k]] /\ kept[k] \in S
    /\ \A j, k \in 1 .. Len(kept) : j < k => at[j] < at[k]
    /\ \A i \in 1 .. n : s[i] \in S => \E k \in 1 .. Len(kept) : at[k] = i

(* One more element is looked at. *)
LEMMA PlacesStep ==
    ASSUME NEW X, NEW s \in Seq(X), NEW S, NEW n \in 1 .. Len(s), NEW kept \in Seq(X),
           NEW at, Places(s, n - 1, S, kept, at)
    PROVE  \E b : Places(s, n, S, IF s[n] \in S THEN Append(kept, s[n]) ELSE kept, b)
<1>1. Len(kept) \in Nat /\ Len(s) \in Nat /\ s[n] \in X /\ n \in Nat /\ n >= 1
  OBVIOUS
<1>2. CASE s[n] \notin S
  <2>1. Places(s, n, S, kept, at)
    <3>1. at \in [1 .. Len(kept) -> 1 .. n]
      BY <1>1 DEF Places
    <3>2. \A i \in 1 .. n : s[i] \in S => i \in 1 .. (n - 1)
      BY <1>1, <1>2
    <3> QED
      BY <3>1, <3>2 DEF Places
  <2> QED
    BY <1>2, <2>1
<1>3. CASE s[n] \in S
  <2> DEFINE m == Len(kept) + 1
             more == Append(kept, s[n])
             b == [k \in 1 .. m |-> IF k = m THEN n ELSE at[k]]
  <2>1. /\ Len(more) = m /\ more[m] = s[n] /\ m \in Nat
        /\ \A k \in 1 .. Len(kept) : more[k] = kept[k]
    BY <1>1
  <2>2. /\ m \in 1 .. m
        /\ \A k \in 1 .. m : k = m \/ k \in 1 .. Len(kept)
        /\ \A k \in 1 .. Len(kept) : k # m /\ k \in 1 .. m
    BY <1>1
  <2> HIDE DEF m, more
  <2>3. \A k \in 1 .. Len(kept) : at[k] \in 1 .. (n - 1)
    BY DEF Places
  <2>4. /\ b[m] = n /\ \A k \in 1 .. Len(kept) : b[k] = at[k] /\ at[k] \in 1 .. (n - 1)
        /\ b = [k \in 1 .. m |-> b[k]]
    BY <2>2, <2>3
  <2> HIDE DEF b
  <2>5. b \in [1 .. Len(more) -> 1 .. n]
    <3>1. \A k \in 1 .. m : b[k] \in 1 .. n
      <4>1. \A i \in 1 .. (n - 1) : i \in 1 .. n
        BY <1>1
      <4>2. n \in 1 .. n
        BY <1>1
      <4> QED
        BY <2>4, <2>2, <4>1, <4>2
    <3> QED
      BY <2>1, <2>4, <3>1
  <2>6. \A k \in 1 .. Len(more) : more[k] = s[b[k]] /\ more[k] \in S
    BY <1>3, <2>1, <2>4, <2>2 DEF Places
  <2>7. \A j, k \in 1 .. Len(more) : j < k => b[j] < b[k]
    <3> SUFFICES ASSUME NEW j \in 1 .. m, NEW k \in 1 .. m, j < k
                 PROVE  b[j] < b[k]
      BY <2>1
    <3>1. j \in 1 .. Len(kept)
      BY <2>1, <2>2
    <3>2. CASE k = m
      <4>1. b[j] \in 1 .. (n - 1)
        BY <2>4, <3>1
      <4> QED
        BY <1>1, <2>4, <3>2, <4>1
    <3>3. CASE k \in 1 .. Len(kept)
      BY <2>4, <3>1, <3>3 DEF Places
    <3> QED
      BY <2>2, <3>2, <3>3
  <2>8. \A i \in 1 .. n : s[i] \in S => \E k \in 1 .. Len(more) : b[k] = i
    <3> SUFFICES ASSUME NEW i \in 1 .. n, s[i] \in S
                 PROVE  \E k \in 1 .. m : b[k] = i
      BY <2>1
    <3>1. CASE i = n
      BY <2>4, <2>2, <3>1
    <3>2. CASE i # n
      <4>1. i \in 1 .. (n - 1)
        BY <1>1, <3>2
      <4>2. PICK k \in 1 .. Len(kept) : at[k] = i
        BY <4>1 DEF Places
      <4> QED
        BY <2>4, <2>2, <4>2
    <3> QED
      BY <3>1, <3>2
  <2>9. Places(s, n, S, more, b)
    BY <2>5, <2>6, <2>7, <2>8 DEF Places
  <2> QED
    BY <1>3, <2>9 DEF more
<1> QED
  BY <1>2, <1>3

(* A selection is the elements of the sequence in the set, in their order. *)
LEMMA SelectKeeps ==
    ASSUME NEW X, NEW s \in Seq(X), NEW S
    PROVE  /\ Select(s, S) \in Seq(X)
           /\ \E at : Places(s, Len(s), S, Select(s, S), at)
<1>1. PICK kept : SelectLoop(X, s, S, kept)
  BY SelectIsLoop
<1> DEFINE n == Len(s)
<1>2. n \in Nat /\ n \in 0 .. n /\ \A i \in 0 .. n : kept[i] \in Seq(X)
  <2>1. kept \in [0 .. n -> Seq(X)]
    BY <1>1 DEF SelectLoop
  <2>2. n \in Nat
    OBVIOUS
  <2> HIDE DEF n
  <2> QED
    BY <2>1, <2>2
<1> HIDE DEF n, SelectLoop
<1> DEFINE T == {i \in 0 .. n : \E at : Places(s, i, S, kept[i], at)}
<1>3. 0 \in T
  <2> DEFINE none == [k \in {} |-> 1]
  <2>1. kept[0] = <<>> /\ 0 \in 0 .. n
    BY <1>1, <1>2 DEF n, SelectLoop
  <2>2. Places(s, 0, S, <<>>, none)
    BY DEF Places
  <2> QED
    BY <2>1, <2>2
<1>4. ASSUME NEW i \in 1 .. n, i - 1 \in T
      PROVE  i \in T
  <2>1. i \in 0 .. n /\ i - 1 \in 0 .. n /\ kept[i - 1] \in Seq(X) /\ i # 0
    BY <1>2
  <2>2. PICK at : Places(s, i - 1, S, kept[i - 1], at)
    BY <1>4
  <2>3. kept[i] = IF s[i] \in S THEN Append(kept[i - 1], s[i]) ELSE kept[i - 1]
    BY <1>1, <2>1 DEF n, SelectLoop
  <2>4. \E b : Places(s, i, S, kept[i], b)
    BY <2>1, <2>2, <2>3, PlacesStep DEF n
  <2> QED
    BY <2>1, <2>4
<1> HIDE DEF T
<1>5. n \in T
  BY <1>2, <1>3, <1>4, UpTo
<1> QED
  BY <1>1, <1>2, <1>5 DEF T, n, SelectLoop

(* Every element kept was there and is in the set, and none of those is lost. *)
LEMMA SelectElements ==
    ASSUME NEW X, NEW s \in Seq(X), NEW S
    PROVE  /\ Select(s, S) \in Seq(X)
           /\ \A k \in 1 .. Len(Select(s, S)) :
                 /\ Select(s, S)[k] \in S
                 /\ \E i \in 1 .. Len(s) : s[i] = Select(s, S)[k]
           /\ \A i \in 1 .. Len(s) :
                 s[i] \in S => \E k \in 1 .. Len(Select(s, S)) : Select(s, S)[k] = s[i]
<1> DEFINE sel == Select(s, S)
<1>1. sel \in Seq(X)
  BY SelectKeeps
<1>2. PICK at : Places(s, Len(s), S, sel, at)
  BY SelectKeeps
<1> HIDE DEF sel
<1>3. \A k \in 1 .. Len(sel) : at[k] \in 1 .. Len(s) /\ sel[k] = s[at[k]] /\ sel[k] \in S
  BY <1>2 DEF Places
<1>4. \A i \in 1 .. Len(s) : s[i] \in S => \E k \in 1 .. Len(sel) : sel[k] = s[i]
  BY <1>2 DEF Places
<1>5. \A k \in 1 .. Len(sel) : sel[k] \in S /\ \E i \in 1 .. Len(s) : s[i] = sel[k]
  BY <1>3
<1> QED
  BY <1>1, <1>4, <1>5 DEF sel

-----------------------------------------------------------------------------
(* The smallest released id is a released id, below all others. *)
LEMMA LeastReleased ==
    ASSUME NEW S \in SUBSET Nat, S # {}
    PROVE  /\ Least(S) \in S
           /\ \A y \in S : Least(S) <= y
BY LeastOfNaturals DEF Least

(* The loop of release_id stops at an id that was not released. *)
LEMMA TopUnreleasedExists ==
    ASSUME NEW S \in SUBSET Nat, 0 \notin S, NEW id \in Nat \ {0}
    PROVE  /\ TopUnreleased(S, id) \in 0 .. (id - 1)
           /\ TopUnreleased(S, id) \notin S
           /\ \A m \in (TopUnreleased(S, id) + 1) .. (id - 1) : m \in S
<1> DEFINE T == {n \in 0 .. (id - 1) : n \notin S}
<1>1. T \in SUBSET Nat /\ 0 \in T /\ \A x \in T : x <= id - 1
  OBVIOUS
<1>2. PICK x \in T : \A y \in T : y <= x
  <2> HIDE DEF T
  <2>1. T # {} /\ id - 1 \in Nat
    BY <1>1
  <2> QED
    BY <1>1, <2>1, GreatestOfNaturals
<1>3. \A m \in (x + 1) .. (id - 1) : m \in S
  BY <1>2
<1>4. \E n \in 0 .. (id - 1) : n \notin S /\ \A m \in (n + 1) .. (id - 1) : m \in S
  BY <1>3
<1> QED
  BY <1>4 DEF TopUnreleased

(* A new generator is exact for the empty set. *)
LEMMA NewGeneratorExact == Exact(NewGenerator, {})
BY DEF Exact, NewGenerator, Generator

(* next() takes the smallest id that is not in use. *)
LEMMA NextIdIsLowestFree ==
    ASSUME NEW g, NEW U, Exact(g, U)
    PROVE  /\ NextId(g) \in Nat \ {0}
           /\ NextId(g) \notin U
           /\ \A k \in 1 .. (NextId(g) - 1) : k \in U
<1>1. CASE g.released_ids = {}
  BY <1>1 DEF Exact, Generator, NextId
<1>2. CASE g.released_ids # {}
  BY <1>2, LeastReleased DEF Exact, Generator, NextId
<1> QED
  BY <1>1, <1>2

(* next() keeps the generator exact: the id it returns is now in use. *)
LEMMA NextKeepsExact ==
    ASSUME NEW g, NEW U, Exact(g, U)
    PROVE  Exact(AfterNext(g), U \cup {NextId(g)})
<1>1. CASE g.released_ids = {}
  BY <1>1 DEF Exact, Generator, NextId, AfterNext
<1>2. CASE g.released_ids # {}
  BY <1>2, LeastReleased DEF Exact, Generator, NextId, AfterNext
<1> QED
  BY <1>1, <1>2

(* Releasing an id in use keeps the generator exact for the others. *)
LEMMA ReleaseKeepsExact ==
    ASSUME NEW g, NEW U, Exact(g, U), NEW id \in U
    PROVE  Exact(AfterRelease(g, id), U \ {id})
<1>1. /\ g.released_ids \in SUBSET Nat /\ 0 \notin g.released_ids
      /\ id \in Nat \ {0} /\ id <= g.last_generated_id
      /\ g.last_generated_id \in Nat
  BY DEF Exact, Generator
<1>2. CASE g.last_generated_id = id
  <2> DEFINE top == TopUnreleased(g.released_ids, id)
  <2>1. /\ top \in 0 .. (id - 1)
        /\ top \notin g.released_ids
        /\ \A m \in (top + 1) .. (id - 1) : m \in g.released_ids
    BY <1>1, TopUnreleasedExists
  <2>2. AfterRelease(g, id) = [last_generated_id |-> top,
                               released_ids |-> {r \in g.released_ids : r < top}]
    BY <1>2 DEF AfterRelease
  <2> HIDE DEF top
  <2>3. AfterRelease(g, id) \in Generator
    BY <1>1, <2>1, <2>2 DEF Generator
  <2>4. \A m \in U \ {id} : m <= top
    BY <1>1, <1>2, <2>1 DEF Exact
  <2>5. {r \in g.released_ids : r < top} \cup (U \ {id}) = 1 .. top
    BY <1>1, <1>2, <2>1, <2>4 DEF Exact
  <2> QED
    BY <1>1, <2>1, <2>2, <2>3, <2>5 DEF Exact
<1>3. CASE g.last_generated_id # id
  BY <1>1, <1>3 DEF Exact, Generator, AfterRelease
<1> QED
  BY <1>2, <1>3

-----------------------------------------------------------------------------
(* A batch of calls of next() takes ids that are free, and keeps exact. *)
LEMMA NextIdsKeepExact ==
    ASSUME NEW g, NEW U, Exact(g, U),
           NEW b \in Nat, NEW ids \in SUBSET (1 .. b), AreNextIds(g, ids)
    PROVE  /\ ids \cap U = {}
           /\ Exact(AfterNextIds(g, ids), U \cup ids)
<1> DEFINE last == g.last_generated_id
           released == g.released_ids
           top == GreatestOr(ids, last)
<1>1. /\ last \in Nat /\ released \in SUBSET Nat /\ U \in SUBSET Nat
      /\ released \cup U = 1 .. last
      /\ released \cap U = {} /\ last \notin released
  BY DEF Exact, Generator
<1>2. /\ \A x \in ids : x \in released \/ x > last
      /\ \A x \in ids : \A y \in released : y < x => y \in ids
      /\ \A x \in ids : \A y \in (last + 1) .. x : y \in ids
  BY DEF AreNextIds
<1>3. AfterNextIds(g, ids) = [last_generated_id |-> top, released_ids |-> released \ ids]
  BY DEF AfterNextIds
<1>4. /\ top \in Nat
      /\ \A x \in ids : x <= top
      /\ \/ top = last
         \/ top > last /\ top \in ids
  <2>1. CASE ids = {}
    BY <1>1, <2>1 DEF GreatestOr
  <2>2. CASE ids # {}
    <3> DEFINE greatest == CHOOSE x \in ids : \A y \in ids : y <= x
    <3>1. \E x \in ids : \A y \in ids : y <= x
      <4>1. ids \in SUBSET Nat /\ \A x \in ids : x <= b
        OBVIOUS
      <4> QED
        BY <2>2, <4>1, GreatestOfNaturals
    <3>2. greatest \in ids /\ \A y \in ids : y <= greatest
      BY <3>1
    <3>3. top = IF greatest > last THEN greatest ELSE last
      BY <2>2 DEF GreatestOr
    <3> HIDE DEF greatest, top
    <3>4. greatest \in Nat
      BY <3>2
    <3> QED
      BY <1>1, <3>2, <3>3, <3>4
  <2> QED
    BY <2>1, <2>2
<1> HIDE DEF last, released, top
<1>5. ids \cap U = {}
  BY <1>1, <1>2
<1>6. AfterNextIds(g, ids) \in Generator
  BY <1>1, <1>3, <1>4 DEF Generator
<1>7. CASE top = last
  <2>1. ids \subseteq released
    BY <1>1, <1>2, <1>4, <1>7
  <2>2. (released \ ids) \cup (U \cup ids) = 1 .. top
    BY <1>1, <1>7, <2>1
  <2> QED
    BY <1>1, <1>3, <1>5, <1>6, <1>7, <2>1, <2>2 DEF Exact
<1>8. CASE top > last /\ top \in ids
  <2>1. \A y \in released : y \in ids
    BY <1>1, <1>2, <1>4, <1>8
  <2>2. \A y \in (last + 1) .. top : y \in ids
    BY <1>2, <1>8
  <2>3. U \cup ids = 1 .. top
    <3>1. \A k \in 1 .. top : k \in 1 .. last \/ k \in (last + 1) .. top
      BY <1>1, <1>4
    <3>2. \A k \in 1 .. top : k \in U \cup ids
      BY <1>1, <2>1, <2>2, <3>1
    <3>3. \A k \in U \cup ids : k \in 1 .. top
      BY <1>1, <1>4, <1>8
    <3> QED
      BY <3>2, <3>3
  <2>4. released \ ids = {}
    BY <2>1
  <2> QED
    BY <1>1, <1>3, <1>4, <1>5, <1>6, <2>3, <2>4 DEF Exact
<1> QED
  BY <1>4, <1>7, <1>8

(* A batch of calls of release_id for ids in use, in any order, keeps exact. *)
LEMMA ReleasesKeepExact ==
    ASSUME NEW g, NEW U, Exact(g, U), NEW ids \in SUBSET U
    PROVE  Exact(AfterReleases(g, ids), U \ ids)
<1> DEFINE last == g.last_generated_id
           free == g.released_ids \cup ids
<1>1. /\ last \in Nat /\ g.released_ids \in SUBSET Nat /\ U \in SUBSET Nat
      /\ g.released_ids \cup U = 1 .. last
      /\ g.released_ids \cap U = {} /\ last \notin g.released_ids
  BY DEF Exact, Generator
<1>2. /\ free \in SUBSET Nat /\ 0 \notin free
      /\ free \cup (U \ ids) = 1 .. last /\ free \cap (U \ ids) = {}
  <2>1. \A k \in U : k \in 1 .. last
    BY <1>1
  <2>2. free \cup (U \ ids) = g.released_ids \cup U /\ free \cap (U \ ids) = {}
    BY <1>1
  <2>3. free \in SUBSET Nat /\ 0 \notin free
    <3>1. \A k \in g.released_ids \cup U : k \in Nat \ {0}
      BY <1>1
    <3> QED
      BY <3>1
  <2> QED
    BY <1>1, <2>2, <2>3
<1>3. CASE last \in ids
  <2> DEFINE top == TopUnreleased(free, last)
  <2>1. AfterReleases(g, ids) = [last_generated_id |-> top, released_ids |-> {r \in free : r < top}]
    BY <1>3 DEF AfterReleases
  <2> HIDE DEF last, free
  <2>2. last \in Nat \ {0}
    BY <1>1, <1>3
  <2>3. /\ top \in 0 .. (last - 1)
        /\ top \notin free
        /\ \A m \in (top + 1) .. (last - 1) : m \in free
    BY <1>2, <2>2, TopUnreleasedExists
  <2> HIDE DEF top
  <2>4. \A m \in U \ ids : m <= top
    BY <1>1, <1>2, <1>3, <2>3
  <2>5. {r \in free : r < top} \cup (U \ ids) = 1 .. top
    BY <1>2, <2>2, <2>3, <2>4
  <2>6. AfterReleases(g, ids) \in Generator
    BY <1>2, <2>1, <2>3 DEF Generator
  <2> QED
    BY <1>1, <1>2, <2>1, <2>5, <2>6 DEF Exact
<1>4. CASE last \notin ids
  <2>1. AfterReleases(g, ids) = [g EXCEPT !.released_ids = free]
    BY <1>4 DEF AfterReleases
  <2>2. /\ AfterReleases(g, ids) \in Generator
        /\ AfterReleases(g, ids).last_generated_id = last
        /\ AfterReleases(g, ids).released_ids = free
    BY <1>2, <2>1 DEF Exact, Generator
  <2>3. last \notin free
    BY <1>1, <1>4
  <2> HIDE DEF last, free
  <2> QED
    BY <1>1, <1>2, <2>2, <2>3 DEF Exact
<1> QED
  BY <1>3, <1>4
=============================================================================
