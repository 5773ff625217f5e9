---------------------------- MODULE IdGenerator ----------------------------
(***************************************************************************)
(* The data structure `SequentialIdGenerator' of                           *)
(* src/simulation/sequential_id_generator.rs: a counter of the last id     *)
(* handed out and the set of ids below it that came back.  The operators   *)
(* are pure: they take a generator and return an id or the generator left  *)
(* behind, so that every component that owns generators can use them.      *)
(***************************************************************************)
EXTENDS Integers, FiniteSets

Generator == [last_generated_id : Nat, released_ids : SUBSET Nat]

(* `#[derive(Default)]': nothing handed out, nothing released. *)
NewGenerator == [last_generated_id |-> 0, released_ids |-> {}]

(***************************************************************************)
(* The id that next() returns: the smallest released id, or else a fresh   *)
(* one.                                                                    *)
(***************************************************************************)
Least(S) == CHOOSE x \in S : \A y \in S : x <= y

(* The id returned if next() took the largest released id first. *)
NextIdLargest(g) ==
    IF g.released_ids = {} THEN g.last_generated_id + 1
    ELSE CHOOSE x \in g.released_ids : \A y \in g.released_ids : y <= x

(* The id returned if the counter were read before it is increased. *)
NextIdPost(g) ==
    IF g.released_ids = {} THEN g.last_generated_id ELSE Least(g.released_ids)

NextId(g) ==
    IF g.released_ids = {} THEN g.last_generated_id + 1 ELSE Least(g.released_ids)

AfterNext(g) ==
    IF g.released_ids = {}
    THEN [g EXCEPT !.last_generated_id = @ + 1]
    ELSE [g EXCEPT !.released_ids = @ \ {NextId(g)}]

(***************************************************************************)
(* release_id: a released id below the counter is remembered; releasing    *)
(* the counter itself moves the counter down past every released id that   *)
(* is next to it (the loop over `released_ids.iter().rev()'), and          *)
(* `retain' forgets what is no longer below it.                            *)
(***************************************************************************)
TopUnreleased(S, id) ==
    CHOOSE n \in 0 .. (id - 1) : n \notin S /\ \A m \in (n + 1) .. (id - 1) : m \in S

(* release_id without the compaction loop. *)
AfterReleaseNoLoop(g, id) ==
    IF g.last_generated_id = id
    THEN [g EXCEPT !.last_generated_id = id - 1]
    ELSE [g EXCEPT !.released_ids = @ \cup {id}]

AfterRelease(g, id) ==
    IF g.last_generated_id = id
    THEN LET top == TopUnreleased(g.released_ids, id)
         IN  [last_generated_id |-> top,
              released_ids |-> {r \in g.released_ids : r < top}]
    ELSE [g EXCEPT !.released_ids = @ \cup {id}]

(***************************************************************************)
(* What a run of calls of next() hands out, without a loop: `ids' are the  *)
(* next Cardinality(ids) ids.  They are the smallest of the released ids   *)
(* and of the fresh ones above the counter.                                *)
(***************************************************************************)
AreNextIds(g, ids) ==
    /\ \A x \in ids : x \in g.released_ids \/ x > g.last_generated_id
    /\ \A x \in ids : \A y \in g.released_ids : y < x => y \in ids
    /\ \A x \in ids : \A y \in (g.last_generated_id + 1) .. x : y \in ids

GreatestOr(S, low) ==
    IF S = {} THEN low
    ELSE LET top == CHOOSE x \in S : \A y \in S : y <= x
         IN  IF top > low THEN top ELSE low

(* The released ids that were handed out stay in the set. *)
AfterNextIdsKeeping(g, ids) ==
    [g EXCEPT !.last_generated_id = GreatestOr(ids, @)]

AfterNextIds(g, ids) ==
    [last_generated_id |-> GreatestOr(ids, g.last_generated_id),
     released_ids |-> g.released_ids \ ids]

(***************************************************************************)
(* What a run of calls of release_id leaves behind, whatever the order of  *)
(* the calls (`retain' of a HashMap visits the bots in any order).         *)
(***************************************************************************)
AfterReleases(g, ids) ==
    LET free == g.released_ids \cup ids IN
    IF g.last_generated_id \in ids
    THEN LET top == TopUnreleased(free, g.last_generated_id)
         IN  [last_generated_id |-> top, released_ids |-> {r \in free : r < top}]
    ELSE [g EXCEPT !.released_ids = free]

(***************************************************************************)
(* A generator is exact for a set of ids in use when the ids up to the     *)
(* counter are split between the two sets, with the counter in use.        *)
(***************************************************************************)
Exact(g, inUse) ==
    /\ g \in Generator
    /\ inUse \subseteq Nat
    /\ g.released_ids \cup inUse = 1 .. g.last_generated_id
    /\ g.released_ids \cap inUse = {}
    /\ g.last_generated_id \notin g.released_ids
=============================================================================
