----------------------- MODULE SequentialIdGenerator -----------------------
(***************************************************************************)
(* One generator and its only caller, a bot model (bot_model.rs): next()   *)
(* for a bot that is spawned, release_id for the id of a bot whose entry   *)
(* is removed or whose construction failed.  A bot model releases an id it *)
(* holds and no other: spawn_bot the one it just took, `retain' and        *)
(* remove_bot the id of an entry of the map (guarded by contains_id).      *)
(***************************************************************************)
EXTENDS IdGenerator, SequencesExt

CONSTANTS
    MaxId,          \* bound on the ids, far below the width of u32
    MaxBatch        \* the longest run of calls that is compared with its result

ASSUME MaxIdAssumption == MaxId \in Nat \ {0}

ASSUME MaxBatchAssumption == MaxBatch \in Nat

VARIABLES
    generator,      \* the structure
    inUse           \* the ids of the bot model's entries

vars == <<generator, inUse>>

Init == generator = NewGenerator /\ inUse = {}

next ==
    /\ NextId(generator) <= MaxId
    /\ inUse' = inUse \cup {NextId(generator)}
    /\ generator' = AfterNext(generator)

release_id(id) ==
    /\ id \in inUse
    /\ inUse' = inUse \ {id}
    /\ generator' = AfterRelease(generator, id)

Next == next \/ \E id \in inUse : release_id(id)

Spec == Init /\ [][Next]_vars

-----------------------------------------------------------------------------
(* Ids and sets of ids are what they should be. *)
TypeOK == generator \in Generator /\ inUse \in SUBSET (1 .. MaxId)

(***************************************************************************)
(* Whatever the order of releases, the generator knows exactly the ids     *)
(* that are free below its counter: none is lost (the loop and the retain  *)
(* of release_id agree) and none is both free and in use, which is what    *)
(* keeps next() from handing the id of a live bot to another.              *)
(***************************************************************************)
GeneratorExact == Exact(generator, inUse)

(***************************************************************************)
(* next() never returns an id that is in use (the tests of the source,     *)
(* such as `interleaved_release_and_generate', are single cases of it).    *)
(***************************************************************************)
NeverHandsOutAnIdInUse == NextId(generator) \notin inUse

(* k calls of next(): the generator left behind and the ids returned. *)
CallsOfNext(g, k) ==
    LET after[n \in 0 .. k] ==
            IF n = 0 THEN [gen |-> g, ids |-> {}]
            ELSE [gen |-> AfterNext(after[n - 1].gen),
                  ids |-> after[n - 1].ids \cup {NextId(after[n - 1].gen)}]
    IN  after[k]

(***************************************************************************)
(* From every reachable generator, k calls of next() return the one set    *)
(* of k ids that AreNextIds admits and leave the generator AfterNextIds    *)
(* says: the tick of the simulation may be modelled without a loop.        *)
(***************************************************************************)
BatchIsLoop ==
    \A k \in 0 .. MaxBatch :
        LET calls == CallsOfNext(generator, k) IN
        /\ Cardinality(calls.ids) = k
        /\ AfterNextIds(generator, calls.ids) = calls.gen
        /\ \A S \in SUBSET (1 .. (MaxId + MaxBatch)) :
              AreNextIds(generator, S) /\ Cardinality(S) = k <=> S = calls.ids

(* The generator after release_id was called for the ids of S in an order. *)
CallsOfRelease(g, order) ==
    LET after[n \in 0 .. Len(order)] ==
            IF n = 0 THEN g ELSE AfterRelease(after[n - 1], order[n])
    IN  after[Len(order)]

(***************************************************************************)
(* Bots that are gone release their ids in the order in which a HashMap    *)
(* visits them: any order leaves the generator that AfterReleases says.    *)
(***************************************************************************)
ReleaseOrderIsIrrelevant ==
    \A S \in kSubset(MaxBatch, inUse) : \A order \in SetToSeqs(S) :
        CallsOfRelease(generator, order) = AfterReleases(generator, S)

(* The generator implements the promise of LowestFreeId. *)
Lowest == INSTANCE LowestFreeId WITH ids <- inUse
ImplementsLowestFreeId == Lowest!Spec
=============================================================================
