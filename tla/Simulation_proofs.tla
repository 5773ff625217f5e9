------------------------- MODULE Simulation_proofs -------------------------
(***************************************************************************)
(* The theorems of Simulation: whatever the order of commands, ticks, ends *)
(* of bots and stale notices, its structures keep their types, every       *)
(* model's id generator stays exact for the entries of its map, and a bot  *)
(* actor that lives keeps its entry until a load drops it.                 *)
(*                                                                         *)
(* TypeInv strengthens the first two into one inductive invariant: an      *)
(* entry's id is within bounds because the generator is exact.             *)
(* EntriesInv strengthens the third: the indices of models differ, and no  *)
(* notice in the mailbox names a bot that lives.                           *)
(*                                                                         *)
(* Two more are proved of what the facade does not ask for: bots not told  *)
(* to stop are within max_running (UntoldInv: each of them has an entry    *)
(* whose state is not Stopping), and a bot ends after one Stopping hook    *)
(* (StoppingInv: one that was told is noted so, and is not told again).    *)
(***************************************************************************)
EXTENDS Simulation, OperatorLemmas, FiniteSetTheorems, SequenceTheorems

ModelIds == 0 .. (Cardinality(Models) - 1)

Entry == [state : BotState, inc : Incs]

EntryMaps == UNION {[ids -> Entry] : ids \in SUBSET (1 .. MaxBotId)}

BotModels == [model_id : ModelIds, id_generator : Generator, bots : EntryMaps]

(* A bot model whose generator is exact for its entries. *)
IsModel(model) == model \in BotModels /\ ModelExact(model)

-----------------------------------------------------------------------------
(* Operations of bot models. *)

LEMMA EntryMapHasEntries ==
    ASSUME NEW f
    PROVE  f \in EntryMaps <=> DOMAIN f \in SUBSET (1 .. MaxBotId) /\ f \in [DOMAIN f -> Entry]
BY Zenon DEF EntryMaps

LEMMA ModelFields ==
    ASSUME NEW model, IsModel(model)
    PROVE  /\ model.model_id \in ModelIds
           /\ model.id_generator \in Generator
           /\ BotIds(model) \in SUBSET (1 .. MaxBotId)
           /\ model.bots \in [BotIds(model) -> Entry]
           /\ Exact(model.id_generator, BotIds(model))
<1>1. model.model_id \in ModelIds /\ model.id_generator \in Generator /\ model.bots \in EntryMaps
  BY DEF IsModel, BotModels
<1> QED
  BY <1>1, EntryMapHasEntries DEF BotIds, IsModel, ModelExact

(* What a bot model becomes with a generator that is exact for its new entries. *)
LEMMA ModelWith ==
    ASSUME NEW model, IsModel(model), NEW generator \in Generator, NEW entries \in EntryMaps,
           Exact(generator, DOMAIN entries),
           NEW after \in BotModels,
           after.id_generator = generator, after.bots = entries
    PROVE  IsModel(after) /\ BotIds(after) = DOMAIN entries
BY DEF IsModel, BotIds, ModelExact

(* A bot model with other entries for the same ids. *)
LEMMA ModelWithEntries ==
    ASSUME NEW model, IsModel(model), NEW entries \in [BotIds(model) -> Entry],
           NEW after, after = [model EXCEPT !.bots = entries]
    PROVE  /\ IsModel(after)
           /\ BotIds(after) = BotIds(model)
           /\ after.model_id = model.model_id
           /\ after.bots = entries
<1>1. DOMAIN entries = BotIds(model) /\ entries \in EntryMaps
  BY ModelFields, EntryMapHasEntries
<1>2. /\ after \in BotModels
      /\ after.model_id = model.model_id
      /\ after.id_generator = model.id_generator
      /\ after.bots = entries
  BY <1>1 DEF IsModel, BotModels
<1> QED
  BY <1>1, <1>2 DEF IsModel, BotIds, ModelExact

LEMMA NewBotModelIsModel ==
    ASSUME NEW idx \in ModelIds
    PROVE  /\ IsModel(NewBotModel(idx))
           /\ NewBotModel(idx).model_id = idx
           /\ BotIds(NewBotModel(idx)) = {}
<1> DEFINE none == [id \in {} |-> {}]
<1>1. none \in EntryMaps
  BY EntryMapHasEntries
<1>2. DOMAIN none = {}
  OBVIOUS
<1>3. Exact(NewGenerator, {}) /\ NewGenerator \in Generator
  BY NewGeneratorExact DEF Exact
<1>4. NewBotModel(idx) = [model_id |-> idx, id_generator |-> NewGenerator, bots |-> none]
  BY DEF NewBotModel
<1> HIDE DEF none
<1> QED
  BY <1>1, <1>2, <1>3, <1>4 DEF IsModel, BotModels, BotIds, ModelExact

(* retain keeps the entries of `kept' as they were. *)
LEMMA RetainIsModel ==
    ASSUME NEW model, IsModel(model), NEW kept \in SUBSET BotIds(model)
    PROVE  /\ IsModel(retain(model, kept))
           /\ BotIds(retain(model, kept)) = kept
           /\ retain(model, kept).model_id = model.model_id
           /\ \A id \in kept : retain(model, kept).bots[id] = model.bots[id]
<1> DEFINE gone == BotIds(model) \ kept
           generator == IF BotIds(model) \subseteq kept THEN model.id_generator
                        ELSE AfterReleases(model.id_generator, gone)
           entries == [id \in kept |-> model.bots[id]]
<1>1. Exact(generator, kept)
  <2>1. Exact(AfterReleases(model.id_generator, gone), BotIds(model) \ gone)
    BY ModelFields, ReleasesKeepExact
  <2>2. BotIds(model) \ gone = kept
    OBVIOUS
  <2>3. Exact(model.id_generator, BotIds(model))
    BY ModelFields
  <2>4. BotIds(model) \subseteq kept => BotIds(model) = kept
    OBVIOUS
  <2> QED
    BY <2>1, <2>2, <2>3, <2>4
<1>2. entries \in [kept -> Entry] /\ DOMAIN entries = kept /\ kept \in SUBSET (1 .. MaxBotId)
  BY ModelFields
<1>3. retain(model, kept) = [model EXCEPT !.id_generator = generator, !.bots = entries]
  BY DEF retain
<1>4. \A id \in kept : entries[id] = model.bots[id]
  OBVIOUS
<1> HIDE DEF generator, entries
<1>5. /\ DOMAIN entries \in SUBSET (1 .. MaxBotId)
      /\ entries \in [DOMAIN entries -> Entry]
      /\ Exact(generator, DOMAIN entries)
  BY <1>1, <1>2
<1>6. generator \in Generator /\ entries \in EntryMaps
  BY <1>5, EntryMapHasEntries DEF Exact
<1>7. /\ retain(model, kept) \in BotModels
      /\ retain(model, kept).model_id = model.model_id
      /\ retain(model, kept).id_generator = generator
      /\ retain(model, kept).bots = entries
  BY <1>3, <1>6 DEF IsModel, BotModels
<1>8. IsModel(retain(model, kept)) /\ BotIds(retain(model, kept)) = DOMAIN entries
  BY <1>5, <1>6, <1>7, ModelWith
<1> QED
  BY <1>1, <1>2, <1>3, <1>4, <1>7, <1>8

(* A model like another, but for new running bots. *)
HasSpawned(model, ids, inc, after) ==
    /\ ids \cap BotIds(model) = {}
    /\ BotIds(after) = BotIds(model) \cup ids
    /\ after.model_id = model.model_id
    /\ \A id \in BotIds(model) : after.bots[id] = model.bots[id]
    /\ \A id \in ids : after.bots[id].inc = inc[id] /\ after.bots[id].state = "Running"

(* spawn_bot, called for the next ids, adds an entry for each of them. *)
LEMMA SpawnBotsIsModel ==
    ASSUME NEW model, IsModel(model), MaxBotId \in Nat,
           NEW ids \in SUBSET (1 .. MaxBotId), AreNextIds(model.id_generator, ids),
           NEW inc \in [ids -> Incs]
    PROVE  /\ IsModel(spawn_bots(model, ids, inc))
           /\ HasSpawned(model, ids, inc, spawn_bots(model, ids, inc))
<1> DEFINE generator == AfterNextIds(model.id_generator, ids)
           entries == [id \in BotIds(model) \cup ids |->
                          IF id \in ids THEN [state |-> "Running", inc |-> inc[id]]
                          ELSE model.bots[id]]
<1>1. /\ ids \cap BotIds(model) = {}
      /\ Exact(generator, BotIds(model) \cup ids)
  BY ModelFields, NextIdsKeepExact
<1>2. /\ entries \in [BotIds(model) \cup ids -> Entry]
      /\ DOMAIN entries = BotIds(model) \cup ids
      /\ BotIds(model) \cup ids \in SUBSET (1 .. MaxBotId)
  BY ModelFields DEF Entry, BotState
<1>3. /\ \A id \in BotIds(model) : entries[id] = model.bots[id]
      /\ \A id \in ids : entries[id].inc = inc[id] /\ entries[id].state = "Running"
  BY <1>1
<1>4. spawn_bots(model, ids, inc) = [model EXCEPT !.id_generator = generator, !.bots = entries]
  BY DEF spawn_bots
<1> HIDE DEF generator, entries
<1>5. /\ DOMAIN entries \in SUBSET (1 .. MaxBotId)
      /\ entries \in [DOMAIN entries -> Entry]
      /\ Exact(generator, DOMAIN entries)
  BY <1>1, <1>2
<1>6. generator \in Generator /\ entries \in EntryMaps
  BY <1>5, EntryMapHasEntries DEF Exact
<1>7. /\ spawn_bots(model, ids, inc) \in BotModels
      /\ spawn_bots(model, ids, inc).model_id = model.model_id
      /\ spawn_bots(model, ids, inc).id_generator = generator
      /\ spawn_bots(model, ids, inc).bots = entries
  BY <1>4, <1>6 DEF IsModel, BotModels
<1>8. IsModel(spawn_bots(model, ids, inc)) /\ BotIds(spawn_bots(model, ids, inc)) = DOMAIN entries
  BY <1>5, <1>6, <1>7, ModelWith
<1> QED
  BY <1>1, <1>2, <1>3, <1>7, <1>8 DEF HasSpawned

(* stop_bot notes the bots told to stop and leaves their addresses. *)
LEMMA StopBotsIsModel ==
    ASSUME NEW model, IsModel(model), NEW asked, NEW told
    PROVE  /\ IsModel(stop_bots(model, asked, told))
           /\ BotIds(stop_bots(model, asked, told)) = BotIds(model)
           /\ stop_bots(model, asked, told).model_id = model.model_id
           /\ \A id \in BotIds(model) :
                 /\ stop_bots(model, asked, told).bots[id].inc = model.bots[id].inc
                 /\ stop_bots(model, asked, told).bots[id].state =
                       IF id \in asked \cap told THEN "Stopping" ELSE model.bots[id].state
<1> DEFINE entries == [id \in BotIds(model) |->
                          IF id \in asked \cap told
                          THEN [model.bots[id] EXCEPT !.state = "Stopping"]
                          ELSE model.bots[id]]
<1>1. entries \in [BotIds(model) -> Entry]
  BY ModelFields DEF Entry, BotState
<1>2. \A id \in BotIds(model) :
         /\ entries[id].inc = model.bots[id].inc
         /\ entries[id].state = IF id \in asked \cap told THEN "Stopping" ELSE model.bots[id].state
  BY ModelFields DEF Entry
<1>3. stop_bots(model, asked, told) = [model EXCEPT !.bots = entries]
  BY DEF stop_bots
<1> HIDE DEF entries
<1> QED
  BY <1>1, <1>2, <1>3, ModelWithEntries

(* remove_bot takes the entry out and leaves the others. *)
LEMMA RemoveBotIsModel ==
    ASSUME NEW model, IsModel(model), NEW id \in BotIds(model)
    PROVE  /\ IsModel(remove_bot(model, id))
           /\ BotIds(remove_bot(model, id)) = BotIds(model) \ {id}
           /\ remove_bot(model, id).model_id = model.model_id
           /\ \A k \in BotIds(model) \ {id} : remove_bot(model, id).bots[k] = model.bots[k]
<1> DEFINE generator == AfterRelease(model.id_generator, id)
           entries == [k \in BotIds(model) \ {id} |-> model.bots[k]]
<1>1. Exact(generator, BotIds(model) \ {id})
  BY ModelFields, ReleaseKeepsExact
<1>2. /\ entries \in [BotIds(model) \ {id} -> Entry]
      /\ DOMAIN entries = BotIds(model) \ {id}
      /\ BotIds(model) \ {id} \in SUBSET (1 .. MaxBotId)
      /\ \A k \in BotIds(model) \ {id} : entries[k] = model.bots[k]
  BY ModelFields
<1>3. remove_bot(model, id) = [model EXCEPT !.id_generator = generator, !.bots = entries]
  BY DEF remove_bot
<1> HIDE DEF generator, entries
<1>4. /\ DOMAIN entries \in SUBSET (1 .. MaxBotId)
      /\ entries \in [DOMAIN entries -> Entry]
      /\ Exact(generator, DOMAIN entries)
  BY <1>1, <1>2
<1>5. generator \in Generator /\ entries \in EntryMaps
  BY <1>4, EntryMapHasEntries DEF Exact
<1>6. /\ remove_bot(model, id) \in BotModels
      /\ remove_bot(model, id).model_id = model.model_id
      /\ remove_bot(model, id).id_generator = generator
      /\ remove_bot(model, id).bots = entries
  BY <1>3, <1>5 DEF IsModel, BotModels
<1>7. IsModel(remove_bot(model, id)) /\ BotIds(remove_bot(model, id)) = DOMAIN entries
  BY <1>4, <1>5, <1>6, ModelWith
<1> QED
  BY <1>1, <1>2, <1>3, <1>6, <1>7

(* change_state notes a state and leaves the address. *)
LEMMA ChangeStateIsModel ==
    ASSUME NEW model, IsModel(model), NEW id \in BotIds(model), NEW state \in BotState
    PROVE  /\ IsModel(change_state(model, id, state))
           /\ BotIds(change_state(model, id, state)) = BotIds(model)
           /\ change_state(model, id, state).model_id = model.model_id
           /\ \A k \in BotIds(model) :
                 /\ change_state(model, id, state).bots[k].inc = model.bots[k].inc
                 /\ change_state(model, id, state).bots[k].state =
                       IF k = id THEN state ELSE model.bots[k].state
<1> DEFINE entries == [model.bots EXCEPT ![id].state = state]
<1>1. entries \in [BotIds(model) -> Entry]
  BY ModelFields DEF Entry
<1>2. \A k \in BotIds(model) :
         /\ entries[k].inc = model.bots[k].inc
         /\ entries[k].state = IF k = id THEN state ELSE model.bots[k].state
  BY ModelFields DEF Entry
<1>3. change_state(model, id, state) = [model EXCEPT !.bots = entries]
  BY DEF change_state
<1> HIDE DEF entries
<1> QED
  BY <1>1, <1>2, <1>3, ModelWithEntries

-----------------------------------------------------------------------------
(* The fields of the simulation actor. *)

BotMaps == UNION {[models -> BotModels] : models \in SUBSET Models}

SimRecords ==
    [start_ts : StartTs, bot_types : SUBSET Models, model_shapes : SUBSET Models,
     agents_count : Nat \ {0}, bots : BotMaps]

IsSim(s) == s \in SimRecords /\ \A m \in DOMAIN s.bots : ModelExact(s.bots[m])

LEMMA BotMapHasModels ==
    ASSUME NEW f
    PROVE  f \in BotMaps <=> DOMAIN f \in SUBSET Models /\ f \in [DOMAIN f -> BotModels]
BY Zenon DEF BotMaps

LEMMA SimFields ==
    ASSUME NEW s, IsSim(s)
    PROVE  /\ s.start_ts \in StartTs
           /\ s.bot_types \in SUBSET Models
           /\ s.model_shapes \in SUBSET Models
           /\ s.agents_count \in Nat \ {0}
           /\ DOMAIN s.bots \in SUBSET Models
           /\ \A m \in DOMAIN s.bots : IsModel(s.bots[m])
<1>1. s.bots \in BotMaps
  BY DEF IsSim, SimRecords
<1>2. DOMAIN s.bots \in SUBSET Models /\ s.bots \in [DOMAIN s.bots -> BotModels]
  BY <1>1, BotMapHasModels
<1>3. \A m \in DOMAIN s.bots : IsModel(s.bots[m])
  BY <1>2 DEF IsSim, IsModel
<1> QED
  BY <1>2, <1>3 DEF IsSim, SimRecords

(* A map of bot models makes the actor's fields well-formed again. *)
LEMMA MapOfModels ==
    ASSUME NEW models \in SUBSET Models, NEW bots, bots = [m \in models |-> bots[m]],
           \A m \in models : IsModel(bots[m])
    PROVE  bots \in BotMaps /\ DOMAIN bots = models
<1>1. DOMAIN bots = models
  OBVIOUS
<1>2. bots \in [models -> BotModels]
  BY DEF IsModel
<1> QED
  BY <1>1, <1>2, BotMapHasModels

LEMMA SimWithBots ==
    ASSUME NEW s, IsSim(s), NEW models \in SUBSET Models,
           NEW bots, bots = [m \in models |-> bots[m]],
           \A m \in models : IsModel(bots[m]),
           NEW after, after = [s EXCEPT !.bots = bots]
    PROVE  /\ IsSim(after)
           /\ after.bots = bots
           /\ DOMAIN after.bots = models
<1>1. bots \in BotMaps /\ DOMAIN bots = models
  BY MapOfModels
<1>2. after \in SimRecords /\ after.bots = bots
  BY <1>1 DEF IsSim, SimRecords
<1> QED
  BY <1>1, <1>2 DEF IsSim, IsModel

LEMMA StopIsSim ==
    ASSUME NEW s, IsSim(s)
    PROVE  IsSim(StopSimulation(s)) /\ StopSimulation(s).bots = s.bots
<1>1. StopSimulation(s) \in SimRecords /\ StopSimulation(s).bots = s.bots
  BY DEF IsSim, SimRecords, StopSimulation, StartTs
<1> QED
  BY <1>1 DEF IsSim

LEMMA CountIsSim ==
    ASSUME NEW s, IsSim(s), NEW count \in Nat
    PROVE  IsSim(UpdateAgentsCount(s, count)) /\ UpdateAgentsCount(s, count).bots = s.bots
<1>1. /\ UpdateAgentsCount(s, count) \in SimRecords
      /\ UpdateAgentsCount(s, count).bots = s.bots
  BY DEF IsSim, SimRecords, UpdateAgentsCount
<1> QED
  BY <1>1 DEF IsSim

LEMMA LaunchIsSim ==
    ASSUME NEW s, IsSim(s), NEW start_ts \in StartTs
    PROVE  IsSim(LaunchSimulation(s, start_ts)) /\ LaunchSimulation(s, start_ts).bots = s.bots
<1>1. /\ LaunchSimulation(s, start_ts) \in SimRecords
      /\ LaunchSimulation(s, start_ts).bots = s.bots
  BY DEF IsSim, SimRecords, LaunchSimulation
<1> QED
  BY <1>1 DEF IsSim

(* A load leaves new models, with indices of their own. *)
LEMMA LoadIsSim ==
    ASSUME NEW s, IsSim(s), NEW load \in Loads,
           NEW order \in Orders(TypesAfter(s.bot_types, load))
    PROVE  /\ IsSim(LoadSimulation(s, load, order))
           /\ LET after == LoadSimulation(s, load, order) IN
              \A m, n \in DOMAIN after.bots :
                 after.bots[m].model_id = after.bots[n].model_id => m = n
<1> DEFINE types == TypesAfter(s.bot_types, load)
           bots == [m \in types |-> NewBotModel(order[m])]
           after == LoadSimulation(s, load, order)
<1>1. types \in SUBSET Models /\ load.shapes \in SUBSET Models
  BY SimFields, SimulationAssumption DEF TypesAfter
<1>2. \A m \in types : order[m] \in ModelIds
  <2>1. IsFiniteSet(Models)
    BY SimulationAssumption
  <2>2. IsFiniteSet(types) /\ Cardinality(types) <= Cardinality(Models)
    BY <1>1, <2>1, FS_Subset
  <2>3. Cardinality(types) \in Nat /\ Cardinality(Models) \in Nat
    BY <2>1, <2>2, FS_CardinalityType
  <2>4. \A m \in types : order[m] \in 0 .. (Cardinality(types) - 1)
    BY DEF Orders
  <2> QED
    BY <2>2, <2>3, <2>4 DEF ModelIds
<1>3. \A m \in types : IsModel(bots[m]) /\ bots[m].model_id = order[m]
  BY <1>2, NewBotModelIsModel
<1>4. bots \in BotMaps /\ DOMAIN bots = types
  BY <1>1, <1>3, MapOfModels
<1>5. after = [s EXCEPT !.bot_types = types, !.model_shapes = @ \cup load.shapes, !.bots = bots]
  BY DEF LoadSimulation
<1>6. \A m, n \in types : order[m] = order[n] => m = n
  BY DEF Orders
<1> HIDE DEF types, bots, after
<1>7. after \in SimRecords /\ after.bots = bots
  BY <1>1, <1>4, <1>5 DEF IsSim, SimRecords
<1>8. IsSim(after)
  BY <1>3, <1>4, <1>7 DEF IsSim, IsModel
<1> QED
  BY <1>3, <1>4, <1>6, <1>7, <1>8 DEF after

-----------------------------------------------------------------------------
(* What the tick does to one model. *)

(***************************************************************************)
(* An outcome for `model' keeps its index and all entries whose actor      *)
(* lives; it stops live actors only, and starts actors that have an entry. *)
(***************************************************************************)
IsOutcome(model, out) ==
    /\ IsModel(out.model)
    /\ out.model.model_id = model.model_id
    /\ \A id \in BotIds(model) : is_connected(model, id) =>
          id \in BotIds(out.model) /\ out.model.bots[id].inc = model.bots[id].inc
    /\ out.stopped \in SUBSET Live
    /\ out.started \in SUBSET Addresses
    /\ \A a \in out.started : \E id \in BotIds(out.model) : a = Address(out.model, id)

LEMMA ToldAreLive ==
    ASSUME NEW model, NEW ids
    PROVE  {Address(model, id) : id \in Told(model, ids)} \in SUBSET Live
BY DEF Told, is_connected

LEMMA StopOutcomesAreOutcomes ==
    ASSUME NEW model, IsModel(model), NEW excess, NEW out \in StopOutcomes(model, excess)
    PROVE  IsOutcome(model, out)
<1>1. PICK ids \in SUBSET Active(model) :
          out = Outcome(stop_bots(model, ids, Told(model, ids)),
                        {Address(model, id) : id \in Told(model, ids)}, {})
  BY DEF StopOutcomes
<1>2. /\ out.model = stop_bots(model, ids, Told(model, ids))
      /\ out.stopped = {Address(model, id) : id \in Told(model, ids)}
      /\ out.started = {}
  BY <1>1 DEF Outcome
<1> QED
  BY <1>2, StopBotsIsModel, ToldAreLive DEF IsOutcome

LEMMA SpawnOutcomesAreOutcomes ==
    ASSUME NEW model, IsModel(model), NEW missing, NEW out \in SpawnOutcomes(model, missing)
    PROVE  IsOutcome(model, out)
<1> DEFINE inc(ids) == [id \in ids |-> FreshInc(model, id)]
           started(ids) == {<<model.model_id, id, inc(ids)[id]>> : id \in ids}
<1>1. PICK ids \in SUBSET (1 .. MaxBotId) :
          /\ AreNextIds(model.id_generator, ids)
          /\ \A id \in ids : CanStart(model, id)
          /\ out = Outcome(spawn_bots(model, ids, inc(ids)), {}, started(ids))
  BY DEF SpawnOutcomes
<1>2. \A id \in ids : FreshInc(model, id) \in Incs
  <2> SUFFICES ASSUME NEW id \in ids PROVE FreshInc(model, id) \in Incs
    OBVIOUS
  <2> DEFINE fresh == {k \in Incs : <<model.model_id, id, k>> \notin Live}
  <2>1. fresh # {}
    BY <1>1 DEF CanStart
  <2>2. fresh \in SUBSET Nat
    BY SimulationAssumption
  <2>3. FreshInc(model, id) = Least(fresh)
    BY DEF FreshInc
  <2> HIDE DEF fresh
  <2>4. Least(fresh) \in fresh
    BY <2>1, <2>2, LeastReleased
  <2> QED
    BY <2>3, <2>4 DEF fresh
<1>3. inc(ids) \in [ids -> Incs]
  BY <1>2
<1>4. /\ out.model = spawn_bots(model, ids, inc(ids))
      /\ out.stopped = {}
      /\ out.started = started(ids)
  BY <1>1 DEF Outcome
<1>5. started(ids) \in SUBSET Addresses
  BY <1>3, ModelFields DEF Addresses, ModelIds
<1>6. MaxBotId \in Nat
  BY SimulationAssumption
<1> HIDE DEF inc
<1>7. /\ IsModel(out.model)
      /\ ids \subseteq BotIds(out.model)
      /\ BotIds(model) \subseteq BotIds(out.model)
      /\ out.model.model_id = model.model_id
      /\ \A id \in BotIds(model) : out.model.bots[id] = model.bots[id]
      /\ \A id \in ids : out.model.bots[id].inc = inc(ids)[id]
  <2> DEFINE f == inc(ids)
  <2>1. f \in [ids -> Incs] /\ out.model = spawn_bots(model, ids, f)
    BY <1>3, <1>4
  <2>2. AreNextIds(model.id_generator, ids)
    BY <1>1
  <2> HIDE DEF f
  <2>3. /\ IsModel(out.model)
        /\ BotIds(out.model) = BotIds(model) \cup ids
        /\ out.model.model_id = model.model_id
        /\ \A id \in BotIds(model) : out.model.bots[id] = model.bots[id]
        /\ \A id \in ids : out.model.bots[id].inc = f[id]
    BY <1>6, <2>1, <2>2, SpawnBotsIsModel DEF HasSpawned
  <2> QED
    BY <2>3 DEF f
<1>8. \A a \in started(ids) : \E id \in BotIds(out.model) : a = Address(out.model, id)
  BY <1>7 DEF Address
<1> QED
  BY <1>4, <1>5, <1>7, <1>8 DEF IsOutcome

LEMMA TickOutcomesAreOutcomes ==
    ASSUME NEW m, IsModel(sim.bots[m]), NEW out \in TickOutcomes(m)
    PROVE  IsOutcome(sim.bots[m], out)
<1> DEFINE model == sim.bots[m]
           kept == {id \in BotIds(model) : is_connected(model, id)}
           swept == retain(model, kept)
           running == count_active(model)
<1>1. /\ IsModel(swept) /\ BotIds(swept) = kept
      /\ swept.model_id = model.model_id
      /\ \A id \in kept : swept.bots[id] = model.bots[id]
  BY RetainIsModel
<1>2. \A id \in kept : is_connected(swept, id)
  BY <1>1 DEF is_connected, Address
<1>3. \/ out \in StopOutcomes(swept, running - Wanted(m))
      \/ out \in SpawnOutcomes(swept, Wanted(m) - running)
      \/ out = Outcome(swept, {}, {})
  BY DEF TickOutcomes
<1>4. IsOutcome(swept, Outcome(swept, {}, {}))
  BY <1>1 DEF IsOutcome, Outcome
<1>5. IsOutcome(swept, out)
  BY <1>1, <1>3, <1>4, StopOutcomesAreOutcomes, SpawnOutcomesAreOutcomes
<1>6. \A id \in BotIds(model) : is_connected(model, id) =>
          /\ id \in BotIds(swept) /\ is_connected(swept, id)
          /\ swept.bots[id].inc = model.bots[id].inc
  BY <1>1, <1>2
<1> HIDE DEF model, kept, swept
<1> QED
  BY <1>1, <1>5, <1>6 DEF IsOutcome, model

-----------------------------------------------------------------------------
(* The types of all variables, with exact generators. *)

ActorsTyped == Live \in SUBSET Addresses /\ actors \in [Live -> BotActor]

TypeInv ==
    /\ IsSim(sim)
    /\ mailbox \in Seq(SimMessages)
    /\ ActorsTyped
    /\ shape \in [Models -> 0 .. MaxShape]

LEMMA ActorWithMessage ==
    ASSUME NEW actor \in BotActor, NEW msg \in BotMessages
    PROVE  [actor EXCEPT !.mbox = Append(@, msg)] \in BotActor
<1> DEFINE more == Append(actor.mbox, msg)
<1>1. more \in Seq(BotMessages)
  BY DEF BotActor
<1>2. [actor EXCEPT !.mbox = Append(@, msg)] = [actor EXCEPT !.mbox = more]
  BY DEF BotActor
<1> HIDE DEF more
<1> QED
  BY <1>1, <1>2 DEF BotActor

LEMMA BecomeKeepsTypes ==
    ASSUME ActorsTyped, NEW addr \in Live, NEW bot \in BotActor, Become(addr, bot)
    PROVE  ActorsTyped' /\ Live' = Live
<1>1. actors \in [Live -> BotActor] /\ Live \in SUBSET Addresses
  BY DEF ActorsTyped
<1>2. actors' = [actors EXCEPT ![addr] = bot]
  BY DEF Become
<1>3. Live' = Live
  BY <1>2 DEF Live
<1>4. actors' \in [Live -> BotActor]
  BY <1>1, <1>2
<1> QED
  BY <1>1, <1>3, <1>4 DEF ActorsTyped

LEMMA DeliverKeepsTypes ==
    ASSUME ActorsTyped, NEW addrs, NEW msg \in BotMessages, Deliver(addrs, msg)
    PROVE  ActorsTyped' /\ Live' = Live
<1>1. \A a \in Live : [actors[a] EXCEPT !.mbox = Append(@, msg)] \in BotActor
  BY ActorWithMessage DEF ActorsTyped
<1>2. actors' = [a \in Live |-> IF a \in addrs
                                THEN [actors[a] EXCEPT !.mbox = Append(@, msg)]
                                ELSE actors[a]]
  BY DEF Deliver
<1>3. Live' = Live
  BY <1>2 DEF Live
<1> QED
  BY <1>1, <1>2, <1>3 DEF ActorsTyped

LEMMA WithoutKeepsTypes ==
    ASSUME ActorsTyped, NEW addr, actors' = Without(addr)
    PROVE  ActorsTyped' /\ Live' = Live \ {addr}
BY DEF ActorsTyped, Without, Live

LEMMA InitTypeInv == Init => TypeInv
<1> SUFFICES ASSUME Init PROVE TypeInv
  OBVIOUS
<1>1. DOMAIN NoBots = {} /\ NoBots \in BotMaps /\ NoBots \in [{} -> BotActor]
  BY BotMapHasModels DEF NoBots
<1>2. sim \in SimRecords /\ sim.bots = NoBots
  BY <1>1 DEF Init, SimRecords, StartTs
<1>3. IsSim(sim)
  BY <1>1, <1>2 DEF IsSim
<1>4. ActorsTyped
  BY <1>1 DEF Init, ActorsTyped, Live
<1>5. shape \in [Models -> 0 .. MaxShape]
  BY SimulationAssumption DEF Init
<1> QED
  BY <1>3, <1>4, <1>5 DEF Init, TypeInv

(* Time, and the value of a shape, go on. *)
LEMMA ClockTypeInv ==
    ASSUME TypeInv, ClockPassesStart \/ ShapeMoves
    PROVE  TypeInv'
<1>1. CASE ClockPassesStart
  <2>1. sim' \in SimRecords /\ sim'.bots = sim.bots
    BY <1>1 DEF ClockPassesStart, TypeInv, IsSim, SimRecords, StartTs
  <2>2. IsSim(sim')
    BY <2>1 DEF TypeInv, IsSim
  <2> QED
    BY <1>1, <2>2 DEF ClockPassesStart, TypeInv, ActorsTyped, Live
<1>2. CASE ShapeMoves
  BY <1>2 DEF ShapeMoves, TypeInv, ActorsTyped, Live
<1> QED
  BY <1>1, <1>2

(* Messages that are sent to the simulation actor have their type. *)
LEMMA SendTypeInv ==
    ASSUME TypeInv, SendCommands \/ FacadeRequest
    PROVE  TypeInv'
<1>1. CASE SendCommands
  <2>1. mailbox' \in Seq(SimMessages)
    BY <1>1 DEF SendCommands, TypeInv, SimMessages
  <2> QED
    BY <1>1, <2>1 DEF SendCommands, TypeInv, ActorsTyped, Live
<1>2. CASE FacadeRequest
  <2>1. PICK addr \in Live, state \in FacadeStates :
            \/ mailbox' = Append(mailbox, StateChange(InternalId(addr), state))
            \/ mailbox' = Append(mailbox, [type |-> "InvokeHandler", bot_id |-> InternalId(addr)])
    BY <1>2 DEF FacadeRequest
  <2>2. InternalId(addr) \in InternalIds /\ state \in BotState
    BY SimulationAssumption DEF TypeInv, ActorsTyped, Addresses, InternalIds, InternalId
  <2>3. /\ StateChange(InternalId(addr), state) \in SimMessages
        /\ [type |-> "InvokeHandler", bot_id |-> InternalId(addr)] \in SimMessages
    BY <2>2 DEF SimMessages
  <2>4. mailbox' \in Seq(SimMessages)
    BY <2>1, <2>3 DEF TypeInv
  <2> QED
    BY <1>2, <2>4 DEF FacadeRequest, TypeInv, ActorsTyped, Live
<1> QED
  BY <1>1, <1>2

(* A message that was handled leaves the others. *)
LEMMA MailboxTail ==
    ASSUME mailbox \in Seq(SimMessages), mailbox # <<>>
    PROVE  Head(mailbox) \in SimMessages /\ Tail(mailbox) \in Seq(SimMessages)
OBVIOUS

LEMMA CommandListTypes ==
    ASSUME NEW list \in CommandLists
    PROVE  /\ list.type \in {"Count", "Idle", "Ready", "Launched"}
           /\ list.count \in Nat
           /\ list.type \in {"Ready", "Launched"} => list.load \in Loads
           /\ list.type = "Launched" => list.start_ts \in StartTs
BY SimulationAssumption
   DEF CommandLists, CountCommand, IdleCommands, ReadyCommands, LaunchCommands

(* The models after a list: those there were, or new ones with their own indices. *)
LEMMA HandleCommandsTypes ==
    ASSUME TypeInv, HandleCommands
    PROVE  /\ TypeInv'
           /\ \/ sim'.bots = sim.bots
              \/ /\ Head(mailbox).type \in {"Ready", "Launched"}
                 /\ \A m, n \in DOMAIN sim'.bots :
                       sim'.bots[m].model_id = sim'.bots[n].model_id => m = n
<1> DEFINE list == Head(mailbox)
           stopped == IF list.type = "Count" THEN sim ELSE StopSimulation(sim)
           counted == UpdateAgentsCount(stopped, list.count)
<1>1. list \in CommandLists
  BY DEF HandleCommands
<1>2. IsSim(stopped) /\ stopped.bots = sim.bots
  BY StopIsSim DEF TypeInv
<1>3. IsSim(counted) /\ counted.bots = sim.bots
  <2> HIDE DEF stopped, list
  <2> QED
    BY <1>1, <1>2, CommandListTypes, CountIsSim
<1>4. /\ IsSim(sim')
      /\ \/ sim'.bots = sim.bots
         \/ /\ list.type \in {"Ready", "Launched"}
            /\ \A m, n \in DOMAIN sim'.bots :
                  sim'.bots[m].model_id = sim'.bots[n].model_id => m = n
  <2>1. CASE list.type \in {"Count", "Idle"}
    BY <1>3, <2>1 DEF HandleCommands
  <2>2. CASE list.type \notin {"Count", "Idle"}
    <3>1. list.type \in {"Ready", "Launched"} /\ list.load \in Loads
      BY <1>1, <2>2, CommandListTypes
    <3>2. PICK order \in Orders(TypesAfter(counted.bot_types, list.load)) :
              sim' = IF list.type = "Ready" THEN LoadSimulation(counted, list.load, order)
                     ELSE LaunchSimulation(LoadSimulation(counted, list.load, order), list.start_ts)
      BY <2>2 DEF HandleCommands
    <3> DEFINE loaded == LoadSimulation(counted, list.load, order)
    <3>3. /\ IsSim(loaded)
          /\ \A m, n \in DOMAIN loaded.bots :
                loaded.bots[m].model_id = loaded.bots[n].model_id => m = n
      <4> HIDE DEF counted, list
      <4> QED
        BY <1>3, <3>1, LoadIsSim
    <3>4. sim' = loaded \/ (list.type = "Launched" /\ sim' = LaunchSimulation(loaded, list.start_ts))
      BY <3>1, <3>2
    <3> HIDE DEF loaded, counted, list
    <3>5. list.type = "Launched" => list.start_ts \in StartTs
      BY <1>1, CommandListTypes
    <3>6. IsSim(sim') /\ sim'.bots = loaded.bots
      BY <3>3, <3>4, <3>5, LaunchIsSim
    <3> QED
      BY <3>1, <3>3, <3>6
  <2> QED
    BY <2>1, <2>2
<1>5. mailbox' \in Seq(SimMessages)
  BY MailboxTail DEF HandleCommands, TypeInv
<1>6. ActorsTyped' /\ shape' = shape
  BY DEF HandleCommands, TypeInv, ActorsTyped, Live
<1> QED
  BY <1>4, <1>5, <1>6 DEF TypeInv

(* A notice: the entry of the bot goes, or another state is noted in it. *)
LEMMA HandleBotStateChangeTypes ==
    ASSUME TypeInv, HandleBotStateChange
    PROVE  /\ TypeInv'
           /\ Live' = Live
           /\ DOMAIN sim'.bots = DOMAIN sim.bots
           /\ \A m \in DOMAIN sim.bots :
                 /\ sim'.bots[m].model_id = sim.bots[m].model_id
                 /\ \A id \in BotIds(sim.bots[m]) :
                       \/ /\ id \in BotIds(sim'.bots[m])
                          /\ sim'.bots[m].bots[id].inc = sim.bots[m].bots[id].inc
                       \/ /\ Head(mailbox).state = "Stopped"
                          /\ Head(mailbox).bot_id = <<sim.bots[m].model_id, id>>
                 /\ \A id \in BotIds(sim'.bots[m]) :
                       /\ id \in BotIds(sim.bots[m])
                       /\ sim'.bots[m].bots[id].inc = sim.bots[m].bots[id].inc
                       /\ \/ sim'.bots[m].bots[id].state = sim.bots[m].bots[id].state
                          \/ /\ Head(mailbox).state # "Stopped"
                             /\ sim'.bots[m].bots[id].state = Head(mailbox).state
<1> DEFINE id == Head(mailbox).bot_id
           state == Head(mailbox).state
           owners == {m \in DOMAIN sim.bots : contains_id(sim.bots[m], id)}
<1>1. id \in InternalIds /\ state \in BotState
  <2>1. Head(mailbox) \in SimMessages /\ Head(mailbox).type = "BotStateChange"
    BY MailboxTail DEF HandleBotStateChange, TypeInv
  <2>2. \E i \in InternalIds, s \in BotState : Head(mailbox) = StateChange(i, s)
    BY <2>1 DEF SimMessages, CommandLists, CountCommand, IdleCommands, ReadyCommands,
                LaunchCommands
  <2> QED
    BY <2>2 DEF StateChange
<1>2. /\ mailbox' \in Seq(SimMessages)
      /\ shape' = shape
  BY MailboxTail DEF HandleBotStateChange, TypeInv
<1>3. IsSim(sim) /\ ActorsTyped
  BY DEF TypeInv
<1>4. CASE owners = {}
  <2>1. sim' = sim /\ actors' = actors
    BY <1>4 DEF HandleBotStateChange
  <2>2. ActorsTyped' /\ Live' = Live
    BY <1>3, <2>1 DEF ActorsTyped, Live
  <2> QED
    BY <1>2, <1>3, <2>1, <2>2 DEF TypeInv
<1>5. CASE owners # {}
  <2>1. PICK m \in owners :
            IF state = "Stopped"
            THEN /\ sim' = [sim EXCEPT !.bots[m] = remove_bot(@, id[2])]
                 /\ UNCHANGED actors
            ELSE /\ sim' = [sim EXCEPT !.bots[m] = change_state(@, id[2], state)]
                 /\ Deliver({Address(sim.bots[m], id[2])}, HookOf(state))
    BY <1>5 DEF HandleBotStateChange
  <2> DEFINE model == sim.bots[m]
             changed == IF state = "Stopped" THEN remove_bot(model, id[2])
                        ELSE change_state(model, id[2], state)
             bots == [n \in DOMAIN sim.bots |-> IF n = m THEN changed ELSE sim.bots[n]]
  <2>2. m \in DOMAIN sim.bots /\ IsModel(model) /\ DOMAIN sim.bots \in SUBSET Models
    BY <1>3, SimFields
  <2>3. id[1] = model.model_id /\ id[2] \in BotIds(model) /\ id = <<model.model_id, id[2]>>
    BY <1>1 DEF contains_id, InternalIds
  <2>4. /\ IsModel(changed)
        /\ changed.model_id = model.model_id
        /\ \A k \in BotIds(model) :
              \/ k \in BotIds(changed) /\ changed.bots[k].inc = model.bots[k].inc
              \/ state = "Stopped" /\ id = <<model.model_id, k>>
        /\ \A k \in BotIds(changed) :
              /\ k \in BotIds(model) /\ changed.bots[k].inc = model.bots[k].inc
              /\ \/ changed.bots[k].state = model.bots[k].state
                 \/ state # "Stopped" /\ changed.bots[k].state = state
    <3>1. CASE state = "Stopped"
      <4> DEFINE b == id[2]
      <4>1. changed = remove_bot(model, b) /\ b \in BotIds(model) /\ id = <<model.model_id, b>>
        BY <2>3, <3>1
      <4> HIDE DEF model, changed, b
      <4>2. /\ IsModel(changed) /\ BotIds(changed) = BotIds(model) \ {b}
            /\ changed.model_id = model.model_id
            /\ \A k \in BotIds(model) \ {b} : changed.bots[k] = model.bots[k]
        BY <2>2, <4>1, RemoveBotIsModel
      <4> QED
        BY <3>1, <4>1, <4>2
    <3>2. CASE state # "Stopped"
      <4> DEFINE b == id[2]
      <4>1. changed = change_state(model, b, state) /\ b \in BotIds(model)
        BY <2>3, <3>2
      <4> HIDE DEF model, changed, b
      <4>2. /\ IsModel(changed) /\ BotIds(changed) = BotIds(model)
            /\ changed.model_id = model.model_id
            /\ \A k \in BotIds(model) :
                  /\ changed.bots[k].inc = model.bots[k].inc
                  /\ changed.bots[k].state = IF k = b THEN state ELSE model.bots[k].state
        BY <1>1, <2>2, <4>1, ChangeStateIsModel
      <4> QED
        BY <3>2, <4>2
    <3> QED
      BY <3>1, <3>2
  <2>5. sim' = [sim EXCEPT !.bots = bots]
    <3>1. sim.bots = [n \in DOMAIN sim.bots |-> sim.bots[n]]
      BY <1>3, BotMapHasModels DEF IsSim, SimRecords
    <3>2. [sim.bots EXCEPT ![m] = changed] = bots
      BY <2>2, <3>1
    <3>3. sim' = [sim EXCEPT !.bots = [sim.bots EXCEPT ![m] = changed]]
      BY <2>1
    <3> QED
      BY <3>2, <3>3
  <2>6. /\ \A n \in DOMAIN sim.bots : IsModel(bots[n])
        /\ bots = [n \in DOMAIN sim.bots |-> bots[n]]
        /\ bots[m] = changed
        /\ \A n \in DOMAIN sim.bots \ {m} : bots[n] = sim.bots[n]
    BY <1>3, <2>2, <2>4, SimFields
  <2>7. ActorsTyped' /\ Live' = Live
    <3>1. CASE state = "Stopped"
      BY <1>3, <2>1, <3>1 DEF ActorsTyped, Live
    <3>2. CASE state # "Stopped"
      <4>1. HookOf(state) \in BotMessages
        BY DEF HookOf, BotMessages
      <4> QED
        BY <1>3, <2>1, <3>2, <4>1, DeliverKeepsTypes
    <3> QED
      BY <3>1, <3>2
  <2> HIDE DEF changed, bots
  <2>8. IsSim(sim') /\ sim'.bots = bots /\ DOMAIN sim'.bots = DOMAIN sim.bots
    BY <1>3, <2>2, <2>5, <2>6, SimWithBots
  <2> HIDE DEF owners, id, state
  <2>9. TypeInv'
    BY <1>2, <1>3, <2>7, <2>8 DEF TypeInv
  <2>10. \A n \in DOMAIN sim.bots : \A k \in BotIds(sim.bots[n]) :
            \/ k \in BotIds(bots[n]) /\ bots[n].bots[k].inc = sim.bots[n].bots[k].inc
            \/ state = "Stopped" /\ id = <<sim.bots[n].model_id, k>>
    BY <2>4, <2>6
  <2>11. \A n \in DOMAIN sim.bots : bots[n].model_id = sim.bots[n].model_id
    BY <2>4, <2>6
  <2>12. \A n \in DOMAIN sim.bots : \A k \in BotIds(bots[n]) :
            /\ k \in BotIds(sim.bots[n]) /\ bots[n].bots[k].inc = sim.bots[n].bots[k].inc
            /\ \/ bots[n].bots[k].state = sim.bots[n].bots[k].state
               \/ state # "Stopped" /\ bots[n].bots[k].state = state
    BY <2>4, <2>6
  <2> QED
    BY <2>7, <2>8, <2>9, <2>10, <2>11, <2>12 DEF id, state
<1> QED
  BY <1>4, <1>5

LEMMA HandleInvokeHandlerTypes ==
    ASSUME TypeInv, HandleInvokeHandler
    PROVE  TypeInv' /\ Live' = Live
<1>1. mailbox' \in Seq(SimMessages) /\ sim' = sim /\ shape' = shape
  BY MailboxTail DEF HandleInvokeHandler, TypeInv
<1>2. "Handler" \in BotMessages /\ ActorsTyped
  BY DEF BotMessages, TypeInv
<1>3. ActorsTyped' /\ Live' = Live
  BY <1>2, DeliverKeepsTypes DEF HandleInvokeHandler
<1> QED
  BY <1>1, <1>3 DEF TypeInv

(* The models keep their indices, and the entries whose actors live. *)
KeepsLiveEntries(before, after) ==
    /\ DOMAIN after = DOMAIN before
    /\ \A m \in DOMAIN before :
          /\ after[m].model_id = before[m].model_id
          /\ \A id \in BotIds(before[m]) : is_connected(before[m], id) =>
                id \in BotIds(after[m]) /\ after[m].bots[id].inc = before[m].bots[id].inc

(* A tick of a running simulation: actors it starts have entries. *)
LEMMA TickRunningTypes ==
    ASSUME TypeInv, TickRunning
    PROVE  /\ TypeInv'
           /\ mailbox' = <<>>
           /\ KeepsLiveEntries(sim.bots, sim'.bots)
           /\ Live' \subseteq Live \cup Held(sim'.bots)
<1>1. PICK visited \in Visited :
      \E out \in [visited -> UNION {TickOutcomes(m) : m \in visited}] :
          /\ \A m \in visited : out[m] \in TickOutcomes(m)
          /\ sim' = [sim EXCEPT !.bots =
                        [m \in DOMAIN @ |-> IF m \in visited THEN out[m].model ELSE @[m]]]
          /\ LET stopped == UNION {out[m].stopped : m \in visited}
                 started == UNION {out[m].started : m \in visited}
             IN  actors' = [a \in Live \cup started |->
                              IF a \in started THEN NewBotActor
                              ELSE IF a \in stopped
                                   THEN [actors[a] EXCEPT !.mbox = Append(@, "StopBot")]
                                   ELSE actors[a]]
  BY Zenon DEF TickRunning
<1>2. PICK out \in [visited -> UNION {TickOutcomes(m) : m \in visited}] :
          /\ \A m \in visited : out[m] \in TickOutcomes(m)
          /\ sim' = [sim EXCEPT !.bots =
                        [m \in DOMAIN @ |-> IF m \in visited THEN out[m].model ELSE @[m]]]
          /\ LET stopped == UNION {out[m].stopped : m \in visited}
                 started == UNION {out[m].started : m \in visited}
             IN  actors' = [a \in Live \cup started |->
                              IF a \in started THEN NewBotActor
                              ELSE IF a \in stopped
                                   THEN [actors[a] EXCEPT !.mbox = Append(@, "StopBot")]
                                   ELSE actors[a]]
  BY <1>1, Zenon
<1> DEFINE bots == [m \in DOMAIN sim.bots |-> IF m \in visited THEN out[m].model ELSE sim.bots[m]]
           stopped == UNION {out[m].stopped : m \in visited}
           started == UNION {out[m].started : m \in visited}
<1>3. sim' = [sim EXCEPT !.bots = bots]
  BY <1>2
<1>4. actors' = [a \in Live \cup started |->
                   IF a \in started THEN NewBotActor
                   ELSE IF a \in stopped
                        THEN [actors[a] EXCEPT !.mbox = Append(@, "StopBot")]
                        ELSE actors[a]]
  BY <1>2, Zenon
<1>5. /\ IsSim(sim) /\ ActorsTyped
      /\ DOMAIN sim.bots \in SUBSET Models
      /\ \A m \in DOMAIN sim.bots : IsModel(sim.bots[m])
  BY SimFields DEF TypeInv
<1>6. visited \subseteq DOMAIN sim.bots
  BY DEF Visited
<1>7. \A m \in visited : IsOutcome(sim.bots[m], out[m])
  BY <1>2, <1>5, <1>6, TickOutcomesAreOutcomes
<1>8. /\ \A m \in DOMAIN sim.bots : IsModel(bots[m])
      /\ bots = [m \in DOMAIN sim.bots |-> bots[m]]
      /\ KeepsLiveEntries(sim.bots, bots)
  BY <1>5, <1>6, <1>7 DEF IsOutcome, KeepsLiveEntries
<1>9. \A m \in visited : bots[m] = out[m].model
  BY <1>6
<1>10. started \in SUBSET Addresses /\ stopped \in SUBSET Live
  BY <1>7 DEF IsOutcome
<1>11. \A a \in started : a \in Held(bots)
  <2> SUFFICES ASSUME NEW a \in started PROVE a \in Held(bots)
    OBVIOUS
  <2>1. PICK m \in visited : a \in out[m].started
    OBVIOUS
  <2>2. PICK id \in BotIds(out[m].model) : a = Address(out[m].model, id)
    BY <1>7, <2>1 DEF IsOutcome
  <2>3. m \in DOMAIN bots /\ id \in BotIds(bots[m]) /\ a = Address(bots[m], id)
    BY <1>6, <1>9, <2>2
  <2> HIDE DEF bots
  <2> QED
    BY <2>3 DEF Held
<1> HIDE DEF bots, started, stopped
<1>12. IsSim(sim') /\ sim'.bots = bots
  <2>1. /\ IsSim(sim)
        /\ DOMAIN sim.bots \in SUBSET Models
        /\ bots = [m \in DOMAIN sim.bots |-> bots[m]]
        /\ \A m \in DOMAIN sim.bots : IsModel(bots[m])
    BY <1>5, <1>8
  <2> QED
    BY <1>3, <2>1, SimWithBots
<1>13. ActorsTyped' /\ Live' = Live \cup started
  <2>1. NewBotActor \in BotActor /\ "StopBot" \in BotMessages
    BY DEF NewBotActor, BotActor, BotMessages
  <2>2. \A a \in Live : /\ actors[a] \in BotActor
                        /\ [actors[a] EXCEPT !.mbox = Append(@, "StopBot")] \in BotActor
    BY <1>5, <2>1, ActorWithMessage DEF ActorsTyped
  <2>3. Live' = Live \cup started
    BY <1>4 DEF Live
  <2>4. Live' \in SUBSET Addresses
    BY <1>5, <1>10, <2>3 DEF ActorsTyped
  <2>5. actors' \in [Live \cup started -> BotActor]
    BY <1>4, <2>1, <2>2
  <2> QED
    BY <2>3, <2>4, <2>5 DEF ActorsTyped
<1>14. mailbox' = mailbox /\ mailbox = <<>> /\ shape' = shape
  BY DEF TickRunning
<1> QED
  BY <1>8, <1>11, <1>12, <1>13, <1>14 DEF TypeInv

(* A tick of a stopped simulation tells all bots to stop. *)
LEMMA TickStoppedTypes ==
    ASSUME TypeInv, TickStopped
    PROVE  /\ TypeInv'
           /\ mailbox' = <<>>
           /\ KeepsLiveEntries(sim.bots, sim'.bots)
           /\ Live' = Live
<1> DEFINE told(m) == Told(sim.bots[m], Active(sim.bots[m]))
           bots == [m \in DOMAIN sim.bots |->
                      stop_bots(sim.bots[m], Active(sim.bots[m]), told(m))]
<1>1. /\ IsSim(sim) /\ ActorsTyped
      /\ DOMAIN sim.bots \in SUBSET Models
      /\ \A m \in DOMAIN sim.bots : IsModel(sim.bots[m])
  BY SimFields DEF TypeInv
<1>2. /\ sim' = [sim EXCEPT !.bots = bots]
      /\ Deliver(UNION {{Address(sim.bots[m], id) : id \in told(m)} : m \in DOMAIN sim.bots},
                 "StopBot")
  BY DEF TickStopped
<1>3. \A m \in DOMAIN sim.bots :
        LET after == stop_bots(sim.bots[m], Active(sim.bots[m]), told(m)) IN
        /\ IsModel(after)
        /\ BotIds(after) = BotIds(sim.bots[m])
        /\ after.model_id = sim.bots[m].model_id
        /\ \A id \in BotIds(sim.bots[m]) : after.bots[id].inc = sim.bots[m].bots[id].inc
  BY <1>1, StopBotsIsModel
<1>4. /\ \A m \in DOMAIN sim.bots : IsModel(bots[m])
      /\ bots = [m \in DOMAIN sim.bots |-> bots[m]]
      /\ KeepsLiveEntries(sim.bots, bots)
  BY <1>3 DEF KeepsLiveEntries
<1>5. "StopBot" \in BotMessages
  BY DEF BotMessages
<1>6. ActorsTyped' /\ Live' = Live
  BY <1>1, <1>2, <1>5, DeliverKeepsTypes
<1> HIDE DEF bots
<1>7. IsSim(sim') /\ sim'.bots = bots
  BY <1>1, <1>2, <1>4, SimWithBots
<1>8. mailbox' = mailbox /\ mailbox = <<>> /\ shape' = shape
  BY DEF TickStopped
<1> QED
  BY <1>4, <1>6, <1>7, <1>8 DEF TypeInv

(* A bot actor takes a step of its own, or ends. *)
LEMMA BotStepTypes ==
    ASSUME TypeInv, NEW addr \in Live, BotStep(addr)
    PROVE  /\ TypeInv'
           /\ sim' = sim
           /\ \/ Live' = Live /\ mailbox' = mailbox
              \/ /\ Live' = Live \ {addr}
                 /\ \/ mailbox' = mailbox
                    \/ mailbox' = Append(mailbox, StateChange(InternalId(addr), "Stopped"))
<1>1. /\ IsSim(sim) /\ ActorsTyped /\ mailbox \in Seq(SimMessages)
      /\ shape \in [Models -> 0 .. MaxShape]
      /\ actors[addr] \in BotActor
  BY DEF TypeInv, ActorsTyped
<1>2. sim' = sim /\ shape' = shape
  BY DEF BotStep, StartInterval, SendDoAction, HandleMessage, FinishRun, StopAfterHook,
         StopWhenDropped, PanicInAction
<1>3. ASSUME NEW bot \in BotActor, Become(addr, bot), mailbox' = mailbox
      PROVE  /\ TypeInv'
             /\ Live' = Live
  BY <1>1, <1>2, <1>3, BecomeKeepsTypes DEF TypeInv
<1>4. CASE StartInterval(addr)
  <2>1. [actors[addr] EXCEPT !.delay = FALSE] \in BotActor
    BY <1>1 DEF BotActor
  <2> QED
    BY <1>2, <1>3, <1>4, <2>1 DEF StartInterval
<1>5. CASE SendDoAction(addr)
  <2> DEFINE asked == Append(actors[addr].mbox, "DoAction")
  <2>1. asked \in Seq(BotMessages)
    BY <1>1 DEF BotActor, BotMessages
  <2> HIDE DEF asked
  <2>2. [actors[addr] EXCEPT !.task = TRUE, !.mbox = asked] \in BotActor
    BY <1>1, <2>1 DEF BotActor
  <2> QED
    BY <1>2, <1>3, <1>5, <2>2 DEF SendDoAction, asked
<1>6. CASE HandleMessage(addr)
  <2> DEFINE msg == Head(actors[addr].mbox)
             rest == Tail(actors[addr].mbox)
             told == [actors[addr] EXCEPT !.mbox = Append(rest, "StopHook"),
                                          !.stop = IF @ = "done" THEN @ ELSE "waiting"]
             begun == [actors[addr] EXCEPT !.mbox = rest, !.run = msg]
  <2>1. actors[addr].mbox \in Seq(BotMessages) /\ actors[addr].mbox # <<>>
    BY <1>1, <1>6 DEF HandleMessage, BotActor
  <2>2. msg \in BotMessages /\ rest \in Seq(BotMessages)
    BY <2>1
  <2>3. Append(rest, "StopHook") \in Seq(BotMessages)
    BY <2>2 DEF BotMessages
  <2> HIDE DEF msg, rest
  <2>4. told \in BotActor /\ begun \in BotActor
    BY <1>1, <2>2, <2>3 DEF BotActor
  <2>5. Become(addr, IF msg = "StopBot" THEN told ELSE begun) /\ mailbox' = mailbox
    BY <1>6 DEF HandleMessage, msg, rest
  <2> HIDE DEF told, begun
  <2> QED
    BY <1>2, <1>3, <2>4, <2>5
<1>7. CASE FinishRun(addr)
  <2> DEFINE bot == actors[addr]
             task == IF bot.run = "DoAction" THEN FALSE ELSE bot.task
             stop == IF bot.run = "StopHook" THEN "done" ELSE bot.stop
             hooks == IF bot.run \in {"StopHook", "StoppingHook"} /\ bot.hooks < 2
                      THEN bot.hooks + 1 ELSE bot.hooks
             after == [bot EXCEPT !.run = "none", !.task = task, !.stop = stop, !.hooks = hooks]
  <2>1. bot.task \in BOOLEAN /\ bot.stop \in {"no", "waiting", "done"} /\ bot.hooks \in Nat
    BY <1>1 DEF BotActor
  <2>2. task \in BOOLEAN
    BY <2>1, Zenon
  <2>3. stop \in {"no", "waiting", "done"}
    BY <2>1, Zenon
  <2>4. hooks \in Nat
    BY <2>1
  <2>5. Become(addr, after) /\ mailbox' = mailbox
    BY <1>7 DEF FinishRun
  <2> HIDE DEF task, stop, hooks
  <2>6. after \in BotActor
    BY <1>1, <2>2, <2>3, <2>4 DEF BotActor
  <2> HIDE DEF after
  <2> QED
    BY <1>2, <1>3, <2>5, <2>6
<1>8. CASE StopAfterHook(addr) \/ StopWhenDropped(addr) \/ PanicInAction(addr)
  <2>1. /\ actors' = Without(addr)
        /\ NotifyStopped(addr) \/ mailbox' = mailbox
    BY <1>8 DEF StopAfterHook, StopWhenDropped, PanicInAction
  <2>2. ActorsTyped' /\ Live' = Live \ {addr}
    BY <1>1, <2>1, WithoutKeepsTypes
  <2>3. StateChange(InternalId(addr), "Stopped") \in SimMessages
    BY <1>1 DEF ActorsTyped, Addresses, InternalId, InternalIds, SimMessages, BotState
  <2>4. \/ mailbox' = mailbox
        \/ mailbox' = Append(mailbox, StateChange(InternalId(addr), "Stopped"))
    BY <2>1 DEF NotifyStopped
  <2>5. mailbox' \in Seq(SimMessages)
    BY <1>1, <2>3, <2>4
  <2> QED
    BY <1>1, <1>2, <2>2, <2>4, <2>5 DEF TypeInv
<1> QED
  BY <1>2, <1>4, <1>5, <1>6, <1>7, <1>8
     DEF BotStep, StartInterval, SendDoAction, HandleMessage, FinishRun

LEMMA StutterTypes ==
    ASSUME TypeInv, UNCHANGED vars
    PROVE  TypeInv'
BY DEF TypeInv, ActorsTyped, Live, vars

LEMMA NextTypeInv ==
    ASSUME TypeInv, [Next]_vars
    PROVE  TypeInv'
<1>1. CASE ClockPassesStart \/ ShapeMoves
  BY <1>1, ClockTypeInv
<1>2. CASE SendCommands \/ FacadeRequest
  BY <1>2, SendTypeInv
<1>3. CASE HandleMail
  BY <1>3, HandleCommandsTypes, HandleBotStateChangeTypes, HandleInvokeHandlerTypes
     DEF HandleMail
<1>4. CASE Tick
  BY <1>4, TickRunningTypes, TickStoppedTypes DEF Tick
<1>5. CASE \E addr \in Live : BotStep(addr)
  BY <1>5, BotStepTypes
<1>6. CASE UNCHANGED vars
  BY <1>6, StutterTypes
<1> QED
  BY <1>1, <1>2, <1>3, <1>4, <1>5, <1>6 DEF Next

LEMMA TypesAlways == Spec => []TypeInv
<1>1. Init => TypeInv
  BY InitTypeInv
<1>2. TypeInv /\ [Next]_vars => TypeInv'
  BY NextTypeInv
<1> QED
  BY <1>1, <1>2, PTL DEF Spec

(***************************************************************************)
(* The fields of the simulation actor, the messages in its mailbox and the *)
(* bot actors keep their types, for any models, loads, limits and bounds.  *)
(***************************************************************************)
THEOREM StructuresKeepTheirTypes == Spec => []TypeOK
<1>1. TypeInv => TypeOK
  <2> SUFFICES ASSUME TypeInv PROVE TypeOK
    OBVIOUS
  <2>1. \A m \in DOMAIN sim.bots :
           /\ sim.bots[m].model_id \in 0 .. (Cardinality(Models) - 1)
           /\ \A id \in BotIds(sim.bots[m]) :
                 sim.bots[m].bots[id] \in [state : BotState, inc : Incs]
    BY SimFields, ModelFields DEF TypeInv, ModelIds, Entry
  <2> QED
    BY <2>1, SimFields DEF TypeOK, TypeInv, ActorsTyped
<1> QED
  BY <1>1, TypesAlways, PTL

(***************************************************************************)
(* Whatever the order of spawns, failed spawns, stops, ends of bots, stale *)
(* notices and loads, the generator of every model accounts for exactly    *)
(* the ids of its entries: no spawn overwrites the entry of another bot.   *)
(***************************************************************************)
THEOREM GeneratorsAreExact == Spec => []ModelsExact
<1>1. TypeInv => ModelsExact
  BY DEF TypeInv, IsSim, ModelsExact
<1> QED
  BY <1>1, TypesAlways, PTL

-----------------------------------------------------------------------------
(***************************************************************************)
(* Every bot has its entry.  The notice that a bot has ended is handled    *)
(* some time later, when its id may have gone to another bot: it takes no  *)
(* entry of a live bot only because ticks, which spawn, run when the       *)
(* mailbox is empty.                                                       *)
(***************************************************************************)
ModelIdsDiffer ==
    \A m, n \in DOMAIN sim.bots : sim.bots[m].model_id = sim.bots[n].model_id => m = n

StoppedNotice(a) == StateChange(InternalId(a), "Stopped")

NoNoticeOfLiveBots ==
    \A a \in Live : \A i \in 1 .. Len(mailbox) : mailbox[i] # StoppedNotice(a)

EntriesInv ==
    /\ TypeInv
    /\ ModelIdsDiffer
    /\ ~reloaded => Live \subseteq Held(sim.bots) /\ NoNoticeOfLiveBots

(* Only bots that ended report that they stopped: nobody asks for it. *)
NobodyRequestsStopped == "Stopped" \notin FacadeStates

LEMMA KeptEntriesHold ==
    ASSUME NEW bots, KeepsLiveEntries(sim.bots, bots), Live \subseteq Held(sim.bots)
    PROVE  Live \subseteq Held(bots)
<1> SUFFICES ASSUME NEW a \in Live PROVE a \in Held(bots)
  OBVIOUS
<1>1. PICK m \in DOMAIN sim.bots : \E id \in BotIds(sim.bots[m]) : a = Address(sim.bots[m], id)
  BY DEF Held
<1>2. PICK id \in BotIds(sim.bots[m]) : a = Address(sim.bots[m], id)
  BY <1>1
<1>3. m \in DOMAIN bots /\ id \in BotIds(bots[m]) /\ a = Address(bots[m], id)
  BY <1>2 DEF KeepsLiveEntries, is_connected, Address
<1> QED
  BY <1>3 DEF Held

LEMMA KeptModelIdsDiffer ==
    ASSUME ModelIdsDiffer, DOMAIN sim'.bots = DOMAIN sim.bots,
           \A m \in DOMAIN sim.bots : sim'.bots[m].model_id = sim.bots[m].model_id
    PROVE  ModelIdsDiffer'
BY DEF ModelIdsDiffer

(* Two live bots with entries have different ids. *)
LEMMA EntriesAreOfOneBot ==
    ASSUME ModelIdsDiffer, Live \subseteq Held(sim.bots), NEW a \in Live, NEW b \in Live,
           InternalId(a) = InternalId(b)
    PROVE  a = b
<1>1. PICK m \in DOMAIN sim.bots : \E id \in BotIds(sim.bots[m]) : a = Address(sim.bots[m], id)
  BY DEF Held
<1>2. PICK n \in DOMAIN sim.bots : \E id \in BotIds(sim.bots[n]) : b = Address(sim.bots[n], id)
  BY DEF Held
<1>3. PICK i \in BotIds(sim.bots[m]) : a = Address(sim.bots[m], i)
  BY <1>1
<1>4. PICK j \in BotIds(sim.bots[n]) : b = Address(sim.bots[n], j)
  BY <1>2
<1>5. sim.bots[m].model_id = sim.bots[n].model_id /\ i = j
  BY <1>3, <1>4 DEF Address, InternalId
<1>6. m = n
  BY <1>5 DEF ModelIdsDiffer
<1> QED
  BY <1>3, <1>4, <1>5, <1>6

(* Another message at the end, or the first one handled. *)
LEMMA AppendedNotice ==
    ASSUME mailbox \in Seq(SimMessages), NoNoticeOfLiveBots, NEW msg \in SimMessages,
           mailbox' = Append(mailbox, msg), Live' \subseteq Live,
           \A a \in Live' : msg # StoppedNotice(a)
    PROVE  NoNoticeOfLiveBots'
<1>1. /\ Len(mailbox') = Len(mailbox) + 1
      /\ Len(mailbox) \in Nat
      /\ mailbox'[Len(mailbox) + 1] = msg
      /\ \A i \in 1 .. Len(mailbox) : mailbox'[i] = mailbox[i]
  OBVIOUS
<1> QED
  BY <1>1 DEF NoNoticeOfLiveBots, StoppedNotice

LEMMA HandledNotice ==
    ASSUME mailbox \in Seq(SimMessages), NoNoticeOfLiveBots, mailbox # <<>>,
           mailbox' = Tail(mailbox), Live' \subseteq Live
    PROVE  NoNoticeOfLiveBots'
<1>1. /\ Len(mailbox') = Len(mailbox) - 1
      /\ Len(mailbox) \in Nat
      /\ \A i \in 1 .. (Len(mailbox) - 1) : mailbox'[i] = mailbox[i + 1]
  OBVIOUS
<1> QED
  BY <1>1 DEF NoNoticeOfLiveBots, StoppedNotice

LEMMA EmptyMailboxHasNoNotice ==
    ASSUME mailbox' = <<>>
    PROVE  NoNoticeOfLiveBots'
BY DEF NoNoticeOfLiveBots

LEMMA InitEntriesInv == Init => EntriesInv
BY InitTypeInv DEF Init, EntriesInv, ModelIdsDiffer, NoBots, Live, Held, NoNoticeOfLiveBots

(* Steps that change neither the entries nor the live bots. *)
LEMMA QuietStepEntries ==
    ASSUME EntriesInv, TypeInv', sim'.bots = sim.bots, Live' = Live, mailbox' = mailbox,
           reloaded' = reloaded
    PROVE  EntriesInv'
<1>1. Held(sim'.bots) = Held(sim.bots)
  BY DEF Held
<1> QED
  BY <1>1 DEF EntriesInv, ModelIdsDiffer, NoNoticeOfLiveBots, StoppedNotice

LEMMA SendEntries ==
    ASSUME EntriesInv, NobodyRequestsStopped, SendCommands \/ FacadeRequest
    PROVE  EntriesInv'
<1>1. TypeInv' /\ mailbox \in Seq(SimMessages)
  BY SendTypeInv DEF EntriesInv, TypeInv
<1>2. sim' = sim /\ actors' = actors /\ Live' = Live /\ reloaded' = reloaded
  BY DEF SendCommands, FacadeRequest, Live
<1>3. PICK msg \in SimMessages :
          mailbox' = Append(mailbox, msg) /\ \A a \in Live : msg # StoppedNotice(a)
  <2>1. CASE SendCommands
    <3>1. PICK list \in CommandLists : mailbox' = Append(mailbox, list)
      BY <2>1 DEF SendCommands
    <3>2. \A a \in Live : list # StoppedNotice(a)
      BY <3>1, CommandListTypes DEF StoppedNotice, StateChange
    <3> QED
      BY <3>1, <3>2 DEF SimMessages
  <2>2. CASE FacadeRequest
    <3>1. PICK addr \in Live, state \in FacadeStates :
            \/ mailbox' = Append(mailbox, StateChange(InternalId(addr), state))
            \/ mailbox' = Append(mailbox, [type |-> "InvokeHandler", bot_id |-> InternalId(addr)])
      BY <2>2 DEF FacadeRequest
    <3>2. InternalId(addr) \in InternalIds /\ state \in BotState
      BY SimulationAssumption DEF EntriesInv, TypeInv, ActorsTyped, Addresses, InternalIds,
                                  InternalId
    <3>3. /\ StateChange(InternalId(addr), state) \in SimMessages
          /\ [type |-> "InvokeHandler", bot_id |-> InternalId(addr)] \in SimMessages
      BY <3>2 DEF SimMessages
    <3>4. \A a \in Live : StateChange(InternalId(addr), state) # StoppedNotice(a)
      BY DEF NobodyRequestsStopped, StoppedNotice, StateChange
    <3>5. \A a \in Live :
             [type |-> "InvokeHandler", bot_id |-> InternalId(addr)] # StoppedNotice(a)
      BY DEF StoppedNotice, StateChange
    <3> QED
      BY <3>1, <3>3, <3>4, <3>5
  <2> QED
    BY <2>1, <2>2
<1>4. ~reloaded => NoNoticeOfLiveBots'
  BY <1>1, <1>2, <1>3, AppendedNotice DEF EntriesInv
<1>5. Held(sim'.bots) = Held(sim.bots)
  BY <1>2
<1> QED
  BY <1>1, <1>2, <1>4, <1>5 DEF EntriesInv, ModelIdsDiffer

(* A load that finds no live bot takes no bot's entry. *)
LEMMA CommandsEntries ==
    ASSUME EntriesInv, HandleCommands
    PROVE  EntriesInv'
<1>1. /\ TypeInv'
      /\ \/ sim'.bots = sim.bots
         \/ /\ Head(mailbox).type \in {"Ready", "Launched"}
            /\ \A m, n \in DOMAIN sim'.bots :
                  sim'.bots[m].model_id = sim'.bots[n].model_id => m = n
  BY HandleCommandsTypes DEF EntriesInv
<1>2. /\ Live' = Live
      /\ mailbox # <<>> /\ mailbox' = Tail(mailbox) /\ mailbox \in Seq(SimMessages)
  BY DEF HandleCommands, Live, EntriesInv, TypeInv
<1>3. ModelIdsDiffer'
  BY <1>1 DEF EntriesInv, ModelIdsDiffer
<1>4. ~reloaded' => NoNoticeOfLiveBots'
  BY <1>2, HandledNotice DEF EntriesInv, HandleCommands
<1>5. ~reloaded' => Live' \subseteq Held(sim'.bots)
  <2>1. ~reloaded' => ~reloaded /\ (Live = {} \/ Head(mailbox).type \notin {"Ready", "Launched"})
    BY DEF HandleCommands
  <2>2. sim'.bots = sim.bots => Held(sim'.bots) = Held(sim.bots)
    BY DEF Held
  <2> QED
    BY <1>1, <1>2, <2>1, <2>2 DEF EntriesInv
<1> QED
  BY <1>1, <1>3, <1>4, <1>5 DEF EntriesInv

(* What BotStateChange is about. *)
LEMMA HeadIsStateChange ==
    ASSUME TypeInv, HandleBotStateChange
    PROVE  Head(mailbox) = StateChange(Head(mailbox).bot_id, Head(mailbox).state)
<1>1. Head(mailbox) \in SimMessages /\ Head(mailbox).type = "BotStateChange"
  BY MailboxTail DEF HandleBotStateChange, TypeInv
<1>2. \E i \in InternalIds, s \in BotState : Head(mailbox) = StateChange(i, s)
  BY <1>1 DEF SimMessages, CommandLists, CountCommand, IdleCommands, ReadyCommands,
              LaunchCommands
<1> QED
  BY <1>2 DEF StateChange

(* A notice takes the entry of no live bot. *)
LEMMA BotStateChangeEntries ==
    ASSUME EntriesInv, HandleBotStateChange
    PROVE  EntriesInv'
<1>1. /\ TypeInv'
      /\ Live' = Live
      /\ DOMAIN sim'.bots = DOMAIN sim.bots
      /\ \A m \in DOMAIN sim.bots :
            /\ sim'.bots[m].model_id = sim.bots[m].model_id
            /\ \A id \in BotIds(sim.bots[m]) :
                  \/ /\ id \in BotIds(sim'.bots[m])
                     /\ sim'.bots[m].bots[id].inc = sim.bots[m].bots[id].inc
                  \/ /\ Head(mailbox).state = "Stopped"
                     /\ Head(mailbox).bot_id = <<sim.bots[m].model_id, id>>
  BY HandleBotStateChangeTypes DEF EntriesInv
<1>2. /\ mailbox # <<>> /\ mailbox' = Tail(mailbox) /\ mailbox \in Seq(SimMessages)
      /\ reloaded' = reloaded
  BY DEF HandleBotStateChange, history, EntriesInv, TypeInv
<1>3. Head(mailbox) = StateChange(Head(mailbox).bot_id, Head(mailbox).state)
  BY HeadIsStateChange DEF EntriesInv
<1>4. ModelIdsDiffer'
  BY <1>1, KeptModelIdsDiffer DEF EntriesInv
<1>5. ASSUME ~reloaded
      PROVE  Live' \subseteq Held(sim'.bots) /\ NoNoticeOfLiveBots'
  <2>1. Live \subseteq Held(sim.bots) /\ NoNoticeOfLiveBots
    BY <1>5 DEF EntriesInv
  <2>2. \A a \in Live : Head(mailbox) # StoppedNotice(a)
    BY <1>2, <2>1 DEF NoNoticeOfLiveBots
  <2>3. KeepsLiveEntries(sim.bots, sim'.bots)
    <3> SUFFICES ASSUME NEW m \in DOMAIN sim.bots, NEW id \in BotIds(sim.bots[m]),
                        is_connected(sim.bots[m], id),
                        Head(mailbox).state = "Stopped",
                        Head(mailbox).bot_id = <<sim.bots[m].model_id, id>>
                 PROVE  FALSE
      BY <1>1 DEF KeepsLiveEntries
    <3>1. StoppedNotice(Address(sim.bots[m], id)) = Head(mailbox)
      BY <1>3 DEF StoppedNotice, InternalId, Address
    <3> QED
      BY <2>2, <3>1 DEF is_connected
  <2>4. NoNoticeOfLiveBots'
    BY <1>1, <1>2, <2>1, HandledNotice
  <2> QED
    BY <1>1, <2>1, <2>3, <2>4, KeptEntriesHold
<1> QED
  BY <1>1, <1>2, <1>4, <1>5 DEF EntriesInv

(* A tick keeps the entries of live bots and makes one for each bot it starts. *)
LEMMA TickEntries ==
    ASSUME EntriesInv, Tick
    PROVE  EntriesInv'
<1>1. /\ TypeInv'
      /\ mailbox' = <<>>
      /\ KeepsLiveEntries(sim.bots, sim'.bots)
      /\ Live' \subseteq Live \cup Held(sim'.bots)
  BY TickRunningTypes, TickStoppedTypes DEF Tick, EntriesInv
<1>2. reloaded' = reloaded
  BY DEF Tick, TickRunning, TickStopped, history
<1>3. ModelIdsDiffer'
  BY <1>1, KeptModelIdsDiffer DEF KeepsLiveEntries, EntriesInv
<1>4. NoNoticeOfLiveBots'
  BY <1>1, EmptyMailboxHasNoNotice
<1>5. ~reloaded => Live' \subseteq Held(sim'.bots)
  BY <1>1, KeptEntriesHold DEF EntriesInv
<1> QED
  BY <1>1, <1>2, <1>3, <1>4, <1>5 DEF EntriesInv

(* The notice of a bot that ends is of no other bot that lives. *)
LEMMA BotStepEntries ==
    ASSUME EntriesInv, NEW addr \in Live, BotStep(addr)
    PROVE  EntriesInv'
<1>1. /\ TypeInv'
      /\ sim' = sim
      /\ \/ Live' = Live /\ mailbox' = mailbox
         \/ /\ Live' = Live \ {addr}
            /\ \/ mailbox' = mailbox
               \/ mailbox' = Append(mailbox, StoppedNotice(addr))
  BY BotStepTypes DEF EntriesInv, StoppedNotice
<1>2. reloaded' = reloaded /\ mailbox \in Seq(SimMessages)
  BY DEF BotStep, StartInterval, SendDoAction, HandleMessage, FinishRun, StopAfterHook,
         StopWhenDropped, PanicInAction, history, EntriesInv, TypeInv
<1>3. ModelIdsDiffer' /\ Held(sim'.bots) = Held(sim.bots)
  BY <1>1 DEF EntriesInv, ModelIdsDiffer
<1>4. ASSUME ~reloaded
      PROVE  NoNoticeOfLiveBots'
  <2>1. Live \subseteq Held(sim.bots) /\ NoNoticeOfLiveBots /\ ModelIdsDiffer
    BY <1>4 DEF EntriesInv
  <2>2. CASE mailbox' = mailbox
    BY <1>1, <2>1, <2>2 DEF NoNoticeOfLiveBots, StoppedNotice
  <2>3. CASE mailbox' = Append(mailbox, StoppedNotice(addr)) /\ Live' = Live \ {addr}
    <3>1. StoppedNotice(addr) \in SimMessages
      BY DEF EntriesInv, TypeInv, ActorsTyped, Addresses, StoppedNotice, InternalId,
             InternalIds, SimMessages, BotState
    <3>2. \A a \in Live' : StoppedNotice(addr) # StoppedNotice(a)
      <4> SUFFICES ASSUME NEW a \in Live', StoppedNotice(addr) = StoppedNotice(a)
                   PROVE  FALSE
        OBVIOUS
      <4>1. a \in Live /\ a # addr
        BY <2>3
      <4>2. InternalId(addr) = InternalId(a)
        BY DEF StoppedNotice, StateChange
      <4> QED
        BY <2>1, <4>1, <4>2, EntriesAreOfOneBot
    <3> QED
      BY <1>2, <2>1, <2>3, <3>1, <3>2, AppendedNotice
  <2> QED
    BY <1>1, <2>2, <2>3
<1> QED
  BY <1>1, <1>2, <1>3, <1>4 DEF EntriesInv

LEMMA NextEntriesInv ==
    ASSUME EntriesInv, NobodyRequestsStopped, [Next]_vars
    PROVE  EntriesInv'
<1>1. CASE ClockPassesStart \/ ShapeMoves \/ UNCHANGED vars
  <2>1. TypeInv'
    BY <1>1, ClockTypeInv, StutterTypes DEF EntriesInv
  <2>2. sim'.bots = sim.bots
    BY <1>1 DEF ClockPassesStart, ShapeMoves, vars, EntriesInv, TypeInv, IsSim, SimRecords
  <2>3. Live' = Live /\ mailbox' = mailbox /\ reloaded' = reloaded
    BY <1>1 DEF ClockPassesStart, ShapeMoves, vars, history, Live
  <2> QED
    BY <2>1, <2>2, <2>3, QuietStepEntries
<1>2. CASE SendCommands \/ FacadeRequest
  BY <1>2, SendEntries
<1>3. CASE HandleCommands
  BY <1>3, CommandsEntries
<1>4. CASE HandleBotStateChange
  BY <1>4, BotStateChangeEntries
<1>5. CASE HandleInvokeHandler
  <2>1. /\ TypeInv' /\ Live' = Live /\ sim' = sim /\ reloaded' = reloaded
        /\ mailbox # <<>> /\ mailbox' = Tail(mailbox) /\ mailbox \in Seq(SimMessages)
    BY <1>5, HandleInvokeHandlerTypes DEF HandleInvokeHandler, history, EntriesInv, TypeInv
  <2>2. ~reloaded => NoNoticeOfLiveBots'
    BY <2>1, HandledNotice DEF EntriesInv
  <2>3. Held(sim'.bots) = Held(sim.bots)
    BY <2>1
  <2> QED
    BY <2>1, <2>2, <2>3 DEF EntriesInv, ModelIdsDiffer
<1>6. CASE Tick
  BY <1>6, TickEntries
<1>7. CASE \E addr \in Live : BotStep(addr)
  BY <1>7, BotStepEntries
<1> QED
  BY <1>1, <1>2, <1>3, <1>4, <1>5, <1>6, <1>7 DEF Next, HandleMail

(***************************************************************************)
(* If no extension announces bots as Stopped through the facade, then a    *)
(* bot actor that lives has its entry, however long the notices of bots    *)
(* that ended wait, and whatever ids were reused, until some load finds    *)
(* bots of an earlier simulation alive.                                    *)
(***************************************************************************)
THEOREM LiveBotsHaveEntries ==
    ASSUME NobodyRequestsStopped
    PROVE  Spec => []EveryBotHasItsEntry
<1>1. Init => EntriesInv
  BY InitEntriesInv
<1>2. EntriesInv /\ [Next]_vars => EntriesInv'
  BY NextEntriesInv
<1>3. EntriesInv => EveryBotHasItsEntry
  BY DEF EntriesInv, EveryBotHasItsEntry
<1> QED
  BY <1>1, <1>2, <1>3, PTL DEF Spec

(***************************************************************************)
(* Two live bots have one internal id only after a load found bots of an   *)
(* earlier simulation alive: no reuse of ids, late notice, failed spawn or *)
(* request of an extension leads there.                                    *)
(***************************************************************************)
THEOREM IdsAreUniqueUntilALoad ==
    ASSUME NobodyRequestsStopped
    PROVE  Spec => [](~reloaded => UniqueInternalId)
<1>1. Init => EntriesInv
  BY InitEntriesInv
<1>2. EntriesInv /\ [Next]_vars => EntriesInv'
  BY NextEntriesInv
<1>3. EntriesInv => (~reloaded => UniqueInternalId)
  BY EntriesAreOfOneBot DEF EntriesInv, UniqueInternalId
<1> QED
  BY <1>1, <1>2, <1>3, PTL DEF Spec

-----------------------------------------------------------------------------
(***************************************************************************)
(* Which bots were told to stop.  An entry noted as Stopping is one whose  *)
(* actor was told, so the actors that were not are among the active        *)
(* entries the tick counts.                                                *)
(***************************************************************************)
Has(s, msg) == \E i \in DOMAIN s : s[i] = msg

Once(s, msg) == \E i \in DOMAIN s : (s[i] = msg /\ \A j \in DOMAIN s : s[j] = msg => j = i)

LEMMA HasAfterAppend ==
    ASSUME NEW s \in Seq(BotMessages), NEW msg \in BotMessages
    PROVE  /\ \A m : Has(Append(s, msg), m) <=> Has(s, m) \/ m = msg
           /\ ~Has(s, msg) => Once(Append(s, msg), msg)
           /\ \A m : m # msg /\ Once(s, m) => Once(Append(s, msg), m)
<1> DEFINE t == Append(s, msg)
<1>1. /\ Len(s) \in Nat /\ DOMAIN s = 1 .. Len(s) /\ DOMAIN t = 1 .. (Len(s) + 1)
      /\ \A i \in 1 .. Len(s) : t[i] = s[i]
      /\ t[Len(s) + 1] = msg
  OBVIOUS
<1> HIDE DEF t
<1>2. /\ DOMAIN s \subseteq DOMAIN t /\ Len(s) + 1 \in DOMAIN t /\ Len(s) + 1 \notin DOMAIN s
      /\ \A i \in DOMAIN t : i \in DOMAIN s \/ i = Len(s) + 1
  BY <1>1
<1>3. \A m : Has(t, m) <=> Has(s, m) \/ m = msg
  BY <1>1, <1>2 DEF Has
<1>4. ~Has(s, msg) => Once(t, msg)
  BY <1>1, <1>2 DEF Has, Once
<1>5. \A m : m # msg /\ Once(s, m) => Once(t, m)
  BY <1>1, <1>2 DEF Once
<1> QED
  BY <1>3, <1>4, <1>5 DEF t

LEMMA HasAfterTail ==
    ASSUME NEW s \in Seq(BotMessages), s # <<>>
    PROVE  /\ \A m : Has(s, m) <=> Head(s) = m \/ Has(Tail(s), m)
           /\ \A m : Once(s, m) =>
                 IF Head(s) = m THEN ~Has(Tail(s), m) ELSE Once(Tail(s), m)
<1> DEFINE t == Tail(s)
           n == Len(s)
<1>1. /\ n \in Nat /\ n > 0 /\ DOMAIN s = 1 .. n /\ DOMAIN t = 1 .. (n - 1)
      /\ \A i \in 1 .. (n - 1) : t[i] = s[i + 1]
      /\ Head(s) = s[1]
  OBVIOUS
<1> HIDE DEF t, n
<1>2. /\ 1 \in DOMAIN s
      /\ \A i \in DOMAIN t : i + 1 \in DOMAIN s /\ i + 1 # 1 /\ t[i] = s[i + 1] /\ i \in Int
      /\ \A i \in DOMAIN s : i = 1 \/ (i - 1 \in DOMAIN t /\ t[i - 1] = s[i])
  BY <1>1
<1>3. \A m : Has(s, m) <=> Head(s) = m \/ Has(t, m)
  BY <1>1, <1>2 DEF Has
<1>4. ASSUME NEW m, Once(s, m)
      PROVE  IF Head(s) = m THEN ~Has(t, m) ELSE Once(t, m)
  <2>1. PICK i \in DOMAIN s : s[i] = m /\ \A j \in DOMAIN s : s[j] = m => j = i
    BY <1>4 DEF Once
  <2>2. CASE i = 1
    BY <1>1, <1>2, <2>1, <2>2 DEF Has
  <2>3. CASE i # 1
    <3>1. i - 1 \in DOMAIN t /\ t[i - 1] = m /\ i \in Int
      BY <1>1, <1>2, <2>1, <2>3
    <3>2. \A j \in DOMAIN t : t[j] = m => j = i - 1
      BY <1>2, <2>1, <3>1
    <3>3. Head(s) # m
      BY <1>1, <1>2, <2>1, <2>3
    <3> QED
      BY <3>1, <3>2, <3>3 DEF Once
  <2> QED
    BY <2>2, <2>3
<1> QED
  BY <1>3, <1>4 DEF t

(* The actor took StopBot, or has it in its mailbox. *)
IsTold(actor) == actor.stop # "no" \/ Has(actor.mbox, "StopBot")

StoppingIsTold ==
    \A m \in DOMAIN sim.bots : \A id \in BotIds(sim.bots[m]) :
        is_connected(sim.bots[m], id) /\ sim.bots[m].bots[id].state = "Stopping" =>
            IsTold(actors[Address(sim.bots[m], id)])

NoStoppingNotice ==
    \A i \in 1 .. Len(mailbox) :
        mailbox[i].type = "BotStateChange" => mailbox[i].state # "Stopping"

FewUntold ==
    MaxRunning # NoLimit =>
        \A m \in DOMAIN sim.bots :
            IsFiniteSet(Untold(m)) /\ Cardinality(Untold(m)) <= MaxRunning

UntoldInv ==
    /\ EntriesInv
    /\ NoStoppingNotice
    /\ ~reloaded => StoppingIsTold /\ FewUntold

(* No extension claims through the facade that a bot ended, or is about to. *)
NobodyRequestsAnEnd == FacadeStates \cap {"Stopped", "Stopping"} = {}

LEMMA UntoldIsNotTold ==
    \A m : Untold(m) = {a \in Live : a[1] = sim.bots[m].model_id /\ ~IsTold(actors[a])}
BY DEF Untold, IsTold, Has

LEMMA ActorToldAppend ==
    ASSUME NEW actor \in BotActor, NEW msg \in BotMessages
    PROVE  IsTold([actor EXCEPT !.mbox = Append(@, msg)]) <=> IsTold(actor) \/ msg = "StopBot"
<1> DEFINE after == [actor EXCEPT !.mbox = Append(@, msg)]
<1>1. /\ after.mbox = Append(actor.mbox, msg) /\ after.stop = actor.stop
      /\ actor.mbox \in Seq(BotMessages)
  BY DEF BotActor
<1>2. Has(after.mbox, "StopBot") <=> Has(actor.mbox, "StopBot") \/ msg = "StopBot"
  BY <1>1, HasAfterAppend
<1> HIDE DEF after
<1>3. IsTold(after) <=> IsTold(actor) \/ msg = "StopBot"
  BY <1>1, <1>2 DEF IsTold
<1> QED
  BY <1>3 DEF after

(* Actors that are delivered a message stay told. *)
LEMMA DeliverTold ==
    ASSUME ActorsTyped, NEW addrs, NEW msg \in BotMessages, Deliver(addrs, msg)
    PROVE  \A a \in Live :
              IsTold(actors'[a]) <=> IsTold(actors[a]) \/ (a \in addrs /\ msg = "StopBot")
<1> SUFFICES ASSUME NEW a \in Live
             PROVE  IsTold(actors'[a]) <=> IsTold(actors[a]) \/ (a \in addrs /\ msg = "StopBot")
  OBVIOUS
<1>1. actors[a] \in BotActor
  BY DEF ActorsTyped
<1>2. actors'[a] = IF a \in addrs THEN [actors[a] EXCEPT !.mbox = Append(@, msg)] ELSE actors[a]
  BY DEF Deliver
<1>3. CASE a \in addrs
  <2>1. actors'[a] = [actors[a] EXCEPT !.mbox = Append(@, msg)]
    BY <1>2, <1>3
  <2> QED
    BY <1>1, <1>3, <2>1, ActorToldAppend
<1>4. CASE a \notin addrs
  BY <1>2, <1>4
<1> QED
  BY <1>3, <1>4

(* What a function yields is no more than what it is applied to. *)
LEMMA ImageIsSmall ==
    ASSUME NEW S, IsFiniteSet(S), NEW R, NEW g \in [S -> R], NEW T,
           \A t \in T : \E x \in S : t = g[x]
    PROVE  /\ IsFiniteSet(T) /\ Cardinality(T) \in Nat /\ Cardinality(S) \in Nat
           /\ Cardinality(T) <= Cardinality(S)
<1> DEFINE I == {g[x] : x \in S}
<1>1. g \in Surjection(S, I)
  BY DEF Surjection
<1>2. T \in SUBSET I
  OBVIOUS
<1> HIDE DEF I
<1>3. IsFiniteSet(I) /\ Cardinality(I) <= Cardinality(S)
  BY <1>1, FS_Surjection
<1>4. IsFiniteSet(T) /\ Cardinality(T) <= Cardinality(I)
  BY <1>2, <1>3, FS_Subset
<1>5. Cardinality(T) \in Nat /\ Cardinality(S) \in Nat /\ Cardinality(I) \in Nat
  BY <1>3, <1>4, FS_CardinalityType
<1> QED
  BY <1>3, <1>4, <1>5

LEMMA ActiveAreCounted ==
    ASSUME TypeInv, NEW m \in DOMAIN sim.bots
    PROVE  IsFiniteSet(Active(sim.bots[m])) /\ count_active(sim.bots[m]) \in Nat
<1> DEFINE active == Active(sim.bots[m])
<1>1. active \in SUBSET (1 .. MaxBotId)
  BY SimFields, ModelFields DEF TypeInv, Active
<1>2. IsFiniteSet(1 .. MaxBotId)
  BY FS_Interval, SimulationAssumption
<1> HIDE DEF active
<1>3. IsFiniteSet(active) /\ Cardinality(active) \in Nat
  BY <1>1, <1>2, FS_Subset, FS_CardinalityType
<1> QED
  BY <1>3 DEF active, count_active

(* The actors that were not told are behind the entries that are counted. *)
LEMMA UntoldAreActive ==
    ASSUME EntriesInv, ~reloaded, StoppingIsTold, NEW m \in DOMAIN sim.bots
    PROVE  /\ IsFiniteSet(Untold(m))
           /\ Cardinality(Untold(m)) \in Nat /\ count_active(sim.bots[m]) \in Nat
           /\ Cardinality(Untold(m)) <= count_active(sim.bots[m])
<1> DEFINE model == sim.bots[m]
           active == Active(model)
           address == [id \in active |-> Address(model, id)]
<1>1. IsFiniteSet(active)
  BY ActiveAreCounted DEF EntriesInv
<1>2. \A a \in Untold(m) : \E id \in active : a = address[id]
  <2> SUFFICES ASSUME NEW a \in Untold(m)
               PROVE  \E id \in active : a = address[id]
    OBVIOUS
  <2>1. a \in Live /\ a[1] = model.model_id /\ ~IsTold(actors[a])
    BY UntoldIsNotTold
  <2>2. PICK n \in DOMAIN sim.bots : \E id \in BotIds(sim.bots[n]) : a = Address(sim.bots[n], id)
    BY <2>1 DEF EntriesInv, Held
  <2>3. PICK id \in BotIds(sim.bots[n]) : a = Address(sim.bots[n], id)
    BY <2>2
  <2>4. n = m
    BY <2>1, <2>3 DEF EntriesInv, ModelIdsDiffer, Address
  <2>5. id \in active
    BY <2>1, <2>3, <2>4 DEF StoppingIsTold, is_connected, Active
  <2> QED
    BY <2>3, <2>4, <2>5
<1>3. address \in [active -> {Address(model, id) : id \in active}]
  OBVIOUS
<1> HIDE DEF address, active
<1>4. /\ IsFiniteSet(Untold(m)) /\ Cardinality(Untold(m)) \in Nat /\ Cardinality(active) \in Nat
      /\ Cardinality(Untold(m)) <= Cardinality(active)
  BY <1>1, <1>2, <1>3, ImageIsSmall
<1> QED
  BY <1>4 DEF active, count_active

-----------------------------------------------------------------------------
(* Steps that start no actor and forget nobody who was told. *)

LEMMA StepWithoutStarts ==
    ASSUME UntoldInv, EntriesInv', NoStoppingNotice', ~reloaded' => ~reloaded,
           DOMAIN sim'.bots = DOMAIN sim.bots,
           \A m \in DOMAIN sim.bots :
              /\ sim'.bots[m].model_id = sim.bots[m].model_id
              /\ \A id \in BotIds(sim'.bots[m]) :
                    /\ id \in BotIds(sim.bots[m])
                    /\ sim'.bots[m].bots[id].inc = sim.bots[m].bots[id].inc
                    /\ sim'.bots[m].bots[id].state = "Stopping" =>
                          \/ sim.bots[m].bots[id].state = "Stopping"
                          \/ Address(sim.bots[m], id) \in Live' =>
                                IsTold(actors'[Address(sim.bots[m], id)]),
           Live' \subseteq Live,
           \A a \in Live' : IsTold(actors[a]) => IsTold(actors'[a])
    PROVE  UntoldInv'
<1> SUFFICES ASSUME ~reloaded'
             PROVE  StoppingIsTold' /\ FewUntold'
  BY DEF UntoldInv
<1>1. StoppingIsTold /\ FewUntold
  BY DEF UntoldInv
<1>2. StoppingIsTold'
  <2> SUFFICES ASSUME NEW m \in DOMAIN sim.bots, NEW id \in BotIds(sim'.bots[m]),
                      Address(sim'.bots[m], id) \in Live',
                      sim'.bots[m].bots[id].state = "Stopping"
               PROVE  IsTold(actors'[Address(sim'.bots[m], id)])
    BY DEF StoppingIsTold, is_connected, IsTold, Has
  <2>1. Address(sim'.bots[m], id) = Address(sim.bots[m], id) /\ id \in BotIds(sim.bots[m])
    BY DEF Address
  <2>2. CASE sim.bots[m].bots[id].state = "Stopping"
    BY <1>1, <2>1, <2>2 DEF StoppingIsTold, is_connected
  <2>3. CASE sim.bots[m].bots[id].state # "Stopping"
    BY <2>1, <2>3
  <2> QED
    BY <2>2, <2>3
<1>3. FewUntold'
  <2> SUFFICES ASSUME MaxRunning # NoLimit, NEW m \in DOMAIN sim.bots
               PROVE  IsFiniteSet(Untold(m)') /\ Cardinality(Untold(m)') <= MaxRunning
    BY DEF FewUntold
  <2>1. Untold(m)' \in SUBSET Untold(m)
    <3>1. Untold(m)' = {a \in Live' : a[1] = sim'.bots[m].model_id /\ ~IsTold(actors'[a])}
      BY DEF Untold, IsTold, Has
    <3> QED
      BY <3>1, UntoldIsNotTold
  <2>2. IsFiniteSet(Untold(m)) /\ Cardinality(Untold(m)) <= MaxRunning
    BY <1>1 DEF FewUntold
  <2>3. IsFiniteSet(Untold(m)') /\ Cardinality(Untold(m)') <= Cardinality(Untold(m))
    BY <2>1, <2>2, FS_Subset
  <2>4. Cardinality(Untold(m)) \in Nat /\ Cardinality(Untold(m)') \in Nat /\ MaxRunning \in Nat
    BY <2>2, <2>3, FS_CardinalityType, SimulationAssumption
  <2> QED
    BY <2>2, <2>3, <2>4
<1> QED
  BY <1>2, <1>3

(* Messages that ask for no entry to be noted as Stopping come and go. *)
LEMMA NoticeAppended ==
    ASSUME mailbox \in Seq(SimMessages), NoStoppingNotice, NEW msg \in SimMessages,
           mailbox' = Append(mailbox, msg),
           msg.type = "BotStateChange" => msg.state # "Stopping"
    PROVE  NoStoppingNotice'
<1>1. /\ Len(mailbox') = Len(mailbox) + 1
      /\ Len(mailbox) \in Nat
      /\ mailbox'[Len(mailbox) + 1] = msg
      /\ \A i \in 1 .. Len(mailbox) : mailbox'[i] = mailbox[i]
  OBVIOUS
<1> QED
  BY <1>1 DEF NoStoppingNotice

LEMMA NoticeHandled ==
    ASSUME mailbox \in Seq(SimMessages), NoStoppingNotice, mailbox # <<>>,
           mailbox' = Tail(mailbox)
    PROVE  /\ NoStoppingNotice'
           /\ Head(mailbox).type = "BotStateChange" => Head(mailbox).state # "Stopping"
<1>1. /\ Len(mailbox') = Len(mailbox) - 1
      /\ Len(mailbox) \in Nat /\ Len(mailbox) > 0
      /\ \A i \in 1 .. (Len(mailbox) - 1) : mailbox'[i] = mailbox[i + 1]
      /\ Head(mailbox) = mailbox[1]
  OBVIOUS
<1> QED
  BY <1>1 DEF NoStoppingNotice

LEMMA UntoldQuiet ==
    ASSUME UntoldInv, EntriesInv', NoStoppingNotice', ~reloaded' => ~reloaded,
           sim'.bots = sim.bots, Live' \subseteq Live,
           \A a \in Live' : IsTold(actors[a]) => IsTold(actors'[a])
    PROVE  UntoldInv'
BY StepWithoutStarts

LEMMA SendUntold ==
    ASSUME UntoldInv, NobodyRequestsAnEnd, SendCommands \/ FacadeRequest
    PROVE  UntoldInv'
<1>1. EntriesInv' /\ mailbox \in Seq(SimMessages)
  BY SendEntries DEF UntoldInv, EntriesInv, TypeInv, NobodyRequestsAnEnd, NobodyRequestsStopped
<1>2. sim' = sim /\ actors' = actors /\ Live' = Live /\ reloaded' = reloaded
  BY DEF SendCommands, FacadeRequest, Live
<1>3. PICK msg \in SimMessages :
          mailbox' = Append(mailbox, msg) /\ (msg.type = "BotStateChange" => msg.state # "Stopping")
  <2>1. CASE SendCommands
    <3>1. PICK list \in CommandLists : mailbox' = Append(mailbox, list)
      BY <2>1 DEF SendCommands
    <3>2. list.type # "BotStateChange"
      BY <3>1, CommandListTypes
    <3> QED
      BY <3>1, <3>2 DEF SimMessages
  <2>2. CASE FacadeRequest
    <3>1. PICK addr \in Live, state \in FacadeStates :
            \/ mailbox' = Append(mailbox, StateChange(InternalId(addr), state))
            \/ mailbox' = Append(mailbox, [type |-> "InvokeHandler", bot_id |-> InternalId(addr)])
      BY <2>2 DEF FacadeRequest
    <3>2. InternalId(addr) \in InternalIds /\ state \in BotState /\ state # "Stopping"
      BY SimulationAssumption DEF UntoldInv, EntriesInv, TypeInv, ActorsTyped, Addresses,
                                  InternalIds, InternalId, NobodyRequestsAnEnd
    <3>3. /\ StateChange(InternalId(addr), state) \in SimMessages
          /\ [type |-> "InvokeHandler", bot_id |-> InternalId(addr)] \in SimMessages
      BY <3>2 DEF SimMessages
    <3>4. StateChange(InternalId(addr), state).state # "Stopping"
      BY <3>2 DEF StateChange
    <3> QED
      BY <3>1, <3>3, <3>4
  <2> QED
    BY <2>1, <2>2
<1>4. NoStoppingNotice'
  BY <1>1, <1>3, NoticeAppended DEF UntoldInv
<1> QED
  BY <1>1, <1>2, <1>4, UntoldQuiet

(* A load leaves nobody untold that it forgets, unless it finds bots alive. *)
LEMMA CommandsUntold ==
    ASSUME UntoldInv, HandleCommands
    PROVE  UntoldInv'
<1>1. EntriesInv'
  BY CommandsEntries DEF UntoldInv
<1>2. /\ Live' = Live /\ actors' = actors
      /\ mailbox # <<>> /\ mailbox' = Tail(mailbox) /\ mailbox \in Seq(SimMessages)
  BY DEF HandleCommands, Live, UntoldInv, EntriesInv, TypeInv
<1>3. NoStoppingNotice'
  BY <1>2, NoticeHandled DEF UntoldInv
<1>4. ~reloaded' => ~reloaded /\ (Live = {} \/ Head(mailbox).type \notin {"Ready", "Launched"})
  BY DEF HandleCommands
<1>5. sim'.bots = sim.bots \/ Head(mailbox).type \in {"Ready", "Launched"}
  BY HandleCommandsTypes DEF UntoldInv, EntriesInv
<1>6. CASE reloaded'
  BY <1>1, <1>3, <1>6 DEF UntoldInv
<1>7. CASE ~reloaded' /\ Live = {}
  <2>1. StoppingIsTold'
    BY <1>2, <1>7 DEF StoppingIsTold, is_connected
  <2>2. \A m : Untold(m)' = {}
    BY <1>2, <1>7 DEF Untold
  <2>3. IsFiniteSet({}) /\ Cardinality({}) = 0
    BY FS_EmptySet
  <2>4. FewUntold'
    BY <2>2, <2>3, SimulationAssumption DEF FewUntold
  <2> QED
    BY <1>1, <1>3, <2>1, <2>4 DEF UntoldInv
<1>8. CASE ~reloaded' /\ sim'.bots = sim.bots
  BY <1>1, <1>2, <1>3, <1>4, <1>8, UntoldQuiet
<1> QED
  BY <1>4, <1>5, <1>6, <1>7, <1>8

LEMMA BotStateChangeUntold ==
    ASSUME UntoldInv, HandleBotStateChange
    PROVE  UntoldInv'
<1>1. EntriesInv' /\ ActorsTyped
  BY BotStateChangeEntries DEF UntoldInv, EntriesInv, TypeInv
<1>2. /\ Live' = Live
      /\ DOMAIN sim'.bots = DOMAIN sim.bots
      /\ \A m \in DOMAIN sim.bots :
            /\ sim'.bots[m].model_id = sim.bots[m].model_id
            /\ \A id \in BotIds(sim'.bots[m]) :
                  /\ id \in BotIds(sim.bots[m])
                  /\ sim'.bots[m].bots[id].inc = sim.bots[m].bots[id].inc
                  /\ \/ sim'.bots[m].bots[id].state = sim.bots[m].bots[id].state
                     \/ sim'.bots[m].bots[id].state = Head(mailbox).state
  BY HandleBotStateChangeTypes DEF UntoldInv, EntriesInv
<1>3. /\ mailbox # <<>> /\ mailbox' = Tail(mailbox) /\ mailbox \in Seq(SimMessages)
      /\ Head(mailbox).type = "BotStateChange" /\ reloaded' = reloaded
  BY DEF HandleBotStateChange, history, UntoldInv, EntriesInv, TypeInv
<1>4. NoStoppingNotice' /\ Head(mailbox).state # "Stopping"
  BY <1>3, NoticeHandled DEF UntoldInv
<1>5. \A a \in Live : IsTold(actors[a]) => IsTold(actors'[a])
  <2>1. \/ actors' = actors
        \/ \E addrs : Deliver(addrs, HookOf(Head(mailbox).state))
    BY DEF HandleBotStateChange
  <2>2. HookOf(Head(mailbox).state) \in BotMessages
    BY DEF HookOf, BotMessages
  <2> QED
    BY <1>1, <2>1, <2>2, DeliverTold
<1>6. \A m \in DOMAIN sim.bots :
         /\ sim'.bots[m].model_id = sim.bots[m].model_id
         /\ \A id \in BotIds(sim'.bots[m]) :
               /\ id \in BotIds(sim.bots[m])
               /\ sim'.bots[m].bots[id].inc = sim.bots[m].bots[id].inc
               /\ sim'.bots[m].bots[id].state = "Stopping" =>
                     \/ sim.bots[m].bots[id].state = "Stopping"
                     \/ Address(sim.bots[m], id) \in Live' =>
                           IsTold(actors'[Address(sim.bots[m], id)])
  BY <1>2, <1>4
<1>7. reloaded' = reloaded /\ Live' \subseteq Live /\ DOMAIN sim'.bots = DOMAIN sim.bots
  BY <1>2, <1>3
<1>8. \A a \in Live' : IsTold(actors[a]) => IsTold(actors'[a])
  BY <1>2, <1>5
<1> QED
  BY <1>1, <1>4, <1>6, <1>7, <1>8, StepWithoutStarts

LEMMA InvokeHandlerUntold ==
    ASSUME UntoldInv, EntriesInv', HandleInvokeHandler
    PROVE  UntoldInv'
<1>1. /\ Live' = Live /\ sim' = sim /\ reloaded' = reloaded /\ ActorsTyped
      /\ mailbox # <<>> /\ mailbox' = Tail(mailbox) /\ mailbox \in Seq(SimMessages)
  BY HandleInvokeHandlerTypes DEF HandleInvokeHandler, history, UntoldInv, EntriesInv, TypeInv
<1>2. NoStoppingNotice'
  BY <1>1, NoticeHandled DEF UntoldInv
<1>3. \A a \in Live : IsTold(actors[a]) => IsTold(actors'[a])
  <2>1. \E addrs : Deliver(addrs, "Handler")
    BY DEF HandleInvokeHandler
  <2>2. "Handler" \in BotMessages
    BY DEF BotMessages
  <2> QED
    BY <1>1, <2>1, <2>2, DeliverTold
<1> QED
  BY <1>1, <1>2, <1>3, UntoldQuiet

(* A bot actor forgets no StopBot: taking it from the mailbox is noted. *)
LEMMA BotStepTold ==
    ASSUME TypeInv, NEW addr \in Live, BotStep(addr)
    PROVE  \A a \in Live' : IsTold(actors[a]) => IsTold(actors'[a])
<1>1. /\ actors \in [Live -> BotActor] /\ actors[addr] \in BotActor
      /\ actors[addr].mbox \in Seq(BotMessages)
  BY DEF TypeInv, ActorsTyped, BotActor
<1>2. CASE StopAfterHook(addr) \/ StopWhenDropped(addr) \/ PanicInAction(addr)
  BY <1>2 DEF StopAfterHook, StopWhenDropped, PanicInAction, Without, Live
<1>3. ASSUME NEW bot, Become(addr, bot), IsTold(actors[addr]) => IsTold(bot)
      PROVE  \A a \in Live' : IsTold(actors[a]) => IsTold(actors'[a])
  BY <1>1, <1>3 DEF Become, Live
<1>4. CASE StartInterval(addr)
  <2>1. IsTold([actors[addr] EXCEPT !.delay = FALSE]) <=> IsTold(actors[addr])
    BY <1>1 DEF IsTold, BotActor
  <2> QED
    BY <1>3, <1>4, <2>1 DEF StartInterval
<1>5. CASE SendDoAction(addr)
  <2> DEFINE bot == [actors[addr] EXCEPT !.task = TRUE, !.mbox = Append(@, "DoAction")]
  <2>1. bot.mbox = Append(actors[addr].mbox, "DoAction") /\ bot.stop = actors[addr].stop
    BY <1>1 DEF BotActor
  <2>2. Has(actors[addr].mbox, "StopBot") => Has(bot.mbox, "StopBot")
    BY <1>1, <2>1, HasAfterAppend DEF BotMessages
  <2>3. Become(addr, bot)
    BY <1>5 DEF SendDoAction
  <2> HIDE DEF bot
  <2> QED
    BY <1>3, <2>1, <2>2, <2>3 DEF IsTold
<1>6. CASE HandleMessage(addr)
  <2> DEFINE msg == Head(actors[addr].mbox)
             rest == Tail(actors[addr].mbox)
             told == [actors[addr] EXCEPT !.mbox = Append(rest, "StopHook"),
                                          !.stop = IF @ = "done" THEN @ ELSE "waiting"]
             begun == [actors[addr] EXCEPT !.mbox = rest, !.run = msg]
  <2>1. Become(addr, IF msg = "StopBot" THEN told ELSE begun) /\ actors[addr].mbox # <<>>
    BY <1>6 DEF HandleMessage
  <2>2. told.stop # "no"
    BY <1>1 DEF BotActor
  <2>3. begun.stop = actors[addr].stop /\ begun.mbox = rest
    BY <1>1 DEF BotActor
  <2>4. msg # "StopBot" => (Has(actors[addr].mbox, "StopBot") => Has(rest, "StopBot"))
    BY <1>1, <2>1, HasAfterTail
  <2> HIDE DEF told, begun, msg, rest
  <2> QED
    BY <1>3, <2>1, <2>2, <2>3, <2>4 DEF IsTold
<1>7. CASE FinishRun(addr)
  <2> DEFINE bot == actors[addr]
             after == [bot EXCEPT !.run = "none",
                         !.task = IF bot.run = "DoAction" THEN FALSE ELSE @,
                         !.stop = IF bot.run = "StopHook" THEN "done" ELSE @,
                         !.hooks = IF bot.run \in {"StopHook", "StoppingHook"} /\ @ < 2
                                   THEN @ + 1 ELSE @]
  <2>1. Become(addr, after)
    BY <1>7 DEF FinishRun
  <2>2. after.mbox = bot.mbox /\ (after.stop = bot.stop \/ after.stop = "done")
    BY <1>1 DEF BotActor
  <2> HIDE DEF after
  <2> QED
    BY <1>3, <2>1, <2>2 DEF IsTold
<1> QED
  BY <1>2, <1>4, <1>5, <1>6, <1>7 DEF BotStep

LEMMA BotStepUntold ==
    ASSUME UntoldInv, NEW addr \in Live, BotStep(addr)
    PROVE  UntoldInv'
<1>1. EntriesInv'
  BY BotStepEntries DEF UntoldInv
<1>2. /\ sim' = sim
      /\ Live' \subseteq Live
      /\ \/ mailbox' = mailbox
         \/ mailbox' = Append(mailbox, StateChange(InternalId(addr), "Stopped"))
  BY BotStepTypes DEF UntoldInv, EntriesInv
<1>3. reloaded' = reloaded /\ mailbox \in Seq(SimMessages)
  BY DEF BotStep, StartInterval, SendDoAction, HandleMessage, FinishRun, StopAfterHook,
         StopWhenDropped, PanicInAction, history, UntoldInv, EntriesInv, TypeInv
<1>4. NoStoppingNotice'
  <2>1. CASE mailbox' = mailbox
    BY <2>1 DEF UntoldInv, NoStoppingNotice
  <2>2. CASE mailbox' = Append(mailbox, StateChange(InternalId(addr), "Stopped"))
    <3>1. StateChange(InternalId(addr), "Stopped") \in SimMessages
      BY DEF UntoldInv, EntriesInv, TypeInv, ActorsTyped, Addresses, InternalId, InternalIds,
             SimMessages, BotState
    <3>2. StateChange(InternalId(addr), "Stopped").state # "Stopping"
      BY DEF StateChange
    <3> QED
      BY <1>3, <2>2, <3>1, <3>2, NoticeAppended DEF UntoldInv
  <2> QED
    BY <1>2, <2>1, <2>2
<1>5. \A a \in Live' : IsTold(actors[a]) => IsTold(actors'[a])
  BY BotStepTold DEF UntoldInv, EntriesInv
<1> QED
  BY <1>1, <1>2, <1>3, <1>4, <1>5, UntoldQuiet

-----------------------------------------------------------------------------
(* Whom a tick tells to stop, and how many it starts. *)

(***************************************************************************)
(* In what a tick leaves of a model, an entry is of an actor just started, *)
(* or of one that lives: it is noted as Stopping if it was active and is   *)
(* told to stop now, and is as it was if not.                              *)
(***************************************************************************)
TellsOrStarts(model, out) ==
    /\ \A id \in BotIds(out.model) :
          \/ /\ Address(out.model, id) \in out.started
             /\ out.model.bots[id].state = "Running"
          \/ /\ id \in BotIds(model) /\ is_connected(model, id)
             /\ out.model.bots[id].inc = model.bots[id].inc
             /\ out.model.bots[id].state =
                   IF Address(model, id) \in out.stopped THEN "Stopping" ELSE model.bots[id].state
    /\ \A a \in out.started : a \notin Live /\ a[1] = model.model_id
    /\ \A a \in out.stopped :
          \E id \in BotIds(model) : /\ a = Address(model, id) /\ a \in Live
                                   /\ model.bots[id].state # "Stopping"

(* No more actors are started than are missing. *)
StartsUpTo(out, missing) ==
    \/ out.started = {}
    \/ IsFiniteSet(out.started) /\ Cardinality(out.started) <= missing

LEMMA StopOutcomesTell ==
    ASSUME NEW model, IsModel(model), \A id \in BotIds(model) : is_connected(model, id),
           NEW excess, NEW out \in StopOutcomes(model, excess)
    PROVE  TellsOrStarts(model, out) /\ out.started = {}
<1>1. PICK ids \in SUBSET Active(model) :
          out = Outcome(stop_bots(model, ids, Told(model, ids)),
                        {Address(model, id) : id \in Told(model, ids)}, {})
  BY DEF StopOutcomes
<1> DEFINE told == Told(model, ids)
           after == stop_bots(model, ids, told)
<1>2. out.model = after /\ out.stopped = {Address(model, id) : id \in told} /\ out.started = {}
  BY <1>1 DEF Outcome
<1>3. /\ told \subseteq ids /\ ids \subseteq BotIds(model)
      /\ \A id \in ids : model.bots[id].state # "Stopping"
      /\ \A id \in told : Address(model, id) \in Live
  BY DEF Told, Active, is_connected
<1>4. \A id \in BotIds(model) : Address(model, id) \in out.stopped <=> id \in ids \cap told
  BY <1>2, <1>3 DEF Address
<1>5. /\ BotIds(after) = BotIds(model)
      /\ \A id \in BotIds(model) :
            /\ after.bots[id].inc = model.bots[id].inc
            /\ after.bots[id].state =
                  IF id \in ids \cap told THEN "Stopping" ELSE model.bots[id].state
  BY StopBotsIsModel
<1> HIDE DEF told, after
<1>6. \A a \in out.stopped :
          \E id \in BotIds(model) : /\ a = Address(model, id) /\ a \in Live
                                   /\ model.bots[id].state # "Stopping"
  BY <1>2, <1>3
<1>7. \A id \in BotIds(out.model) :
          /\ id \in BotIds(model) /\ is_connected(model, id)
          /\ out.model.bots[id].inc = model.bots[id].inc
          /\ out.model.bots[id].state =
                IF Address(model, id) \in out.stopped THEN "Stopping" ELSE model.bots[id].state
  BY <1>2, <1>4, <1>5
<1> QED
  BY <1>2, <1>6, <1>7 DEF TellsOrStarts

LEMMA SpawnOutcomesStart ==
    ASSUME NEW model, IsModel(model), \A id \in BotIds(model) : is_connected(model, id),
           NEW missing \in Int, NEW out \in SpawnOutcomes(model, missing)
    PROVE  TellsOrStarts(model, out) /\ StartsUpTo(out, missing)
<1> DEFINE inc(ids) == [id \in ids |-> FreshInc(model, id)]
           started(ids) == {<<model.model_id, id, inc(ids)[id]>> : id \in ids}
           few(ids) == \/ Cardinality(ids) = AtMost(missing, MaxRate)
                       \/ MayFailToSpawn /\ Cardinality(ids) < AtMost(missing, MaxRate)
<1>1. PICK ids \in SUBSET (1 .. MaxBotId) :
          /\ AreNextIds(model.id_generator, ids)
          /\ \A id \in ids : CanStart(model, id)
          /\ few(ids)
          /\ out = Outcome(spawn_bots(model, ids, inc(ids)), {}, started(ids))
  BY DEF SpawnOutcomes
<1>2. \A id \in ids : FreshInc(model, id) \in Incs /\ <<model.model_id, id, FreshInc(model, id)>> \notin Live
  <2> SUFFICES ASSUME NEW id \in ids
               PROVE  /\ FreshInc(model, id) \in Incs
                      /\ <<model.model_id, id, FreshInc(model, id)>> \notin Live
    OBVIOUS
  <2> DEFINE fresh == {k \in Incs : <<model.model_id, id, k>> \notin Live}
  <2>1. fresh # {}
    BY <1>1 DEF CanStart
  <2>2. fresh \in SUBSET Nat
    BY SimulationAssumption
  <2>3. FreshInc(model, id) = Least(fresh)
    BY DEF FreshInc
  <2> HIDE DEF fresh
  <2>4. Least(fresh) \in fresh
    BY <2>1, <2>2, LeastReleased
  <2> QED
    BY <2>3, <2>4 DEF fresh
<1> DEFINE f == inc(ids)
           addresses == [id \in ids |-> <<model.model_id, id, f[id]>>]
           S == started(ids)
<1>3. f \in [ids -> Incs] /\ \A id \in ids : <<model.model_id, id, f[id]>> \notin Live
  BY <1>2
<1>4. /\ out.model = spawn_bots(model, ids, f)
      /\ out.stopped = {}
      /\ out.started = S
  BY <1>1 DEF Outcome
<1>5. S = {<<model.model_id, id, f[id]>> : id \in ids}
  OBVIOUS
<1>6. IsFiniteSet(ids) /\ Cardinality(ids) <= missing
  <2>1. IsFiniteSet(1 .. MaxBotId)
    BY FS_Interval, SimulationAssumption
  <2>2. IsFiniteSet(ids)
    BY <2>1, FS_Subset
  <2>3. Cardinality(ids) \in Nat
    BY <2>2, FS_CardinalityType
  <2> QED
    BY <1>1, <2>2, <2>3, SimulationAssumption DEF AtMost
<1>7. IsFiniteSet(S) /\ Cardinality(S) <= missing
  <2>1. addresses \in [ids -> S] /\ \A a \in S : \E id \in ids : a = addresses[id]
    BY <1>5
  <2> HIDE DEF addresses, S, f
  <2>2. /\ IsFiniteSet(S) /\ Cardinality(S) \in Nat /\ Cardinality(ids) \in Nat
        /\ Cardinality(S) <= Cardinality(ids)
    BY <1>6, <2>1, ImageIsSmall
  <2> QED
    BY <1>6, <2>2
<1>8. AreNextIds(model.id_generator, ids) /\ MaxBotId \in Nat
  BY <1>1, SimulationAssumption
<1> HIDE DEF f, inc, S, started, addresses
<1>9. /\ ids \cap BotIds(model) = {}
      /\ BotIds(out.model) = BotIds(model) \cup ids
      /\ out.model.model_id = model.model_id
      /\ \A id \in BotIds(model) : out.model.bots[id] = model.bots[id]
      /\ \A id \in ids : out.model.bots[id].inc = f[id] /\ out.model.bots[id].state = "Running"
  <2>1. f \in [ids -> Incs]
    BY <1>3
  <2>2. HasSpawned(model, ids, f, spawn_bots(model, ids, f))
    BY <1>8, <2>1, SpawnBotsIsModel
  <2>3. HasSpawned(model, ids, f, out.model)
    BY <1>4, <2>2
  <2> QED
    BY <2>3 DEF HasSpawned
<1>10. \A id \in BotIds(out.model) :
          \/ /\ Address(out.model, id) \in out.started
             /\ out.model.bots[id].state = "Running"
          \/ /\ id \in BotIds(model) /\ is_connected(model, id)
             /\ out.model.bots[id].inc = model.bots[id].inc
             /\ out.model.bots[id].state =
                   IF Address(model, id) \in out.stopped THEN "Stopping" ELSE model.bots[id].state
  <2> SUFFICES ASSUME NEW id \in BotIds(out.model)
               PROVE  \/ /\ Address(out.model, id) \in out.started
                         /\ out.model.bots[id].state = "Running"
                      \/ /\ id \in BotIds(model) /\ is_connected(model, id)
                         /\ out.model.bots[id].inc = model.bots[id].inc
                         /\ out.model.bots[id].state = model.bots[id].state
    BY <1>4
  <2>1. CASE id \in ids
    BY <1>4, <1>5, <1>9, <2>1 DEF Address
  <2>2. CASE id \in BotIds(model)
    BY <1>9, <2>2
  <2> QED
    BY <1>9, <2>1, <2>2
<1>11. \A a \in out.started : a \notin Live /\ a[1] = model.model_id
  BY <1>3, <1>4, <1>5
<1> QED
  BY <1>4, <1>7, <1>10, <1>11 DEF TellsOrStarts, StartsUpTo

(* A tick starts what is missing of the wanted number. *)
LEMMA TickOutcomesTellOrStart ==
    ASSUME NEW m, IsModel(sim.bots[m]), NEW out \in TickOutcomes(m),
           Wanted(m) \in Int, count_active(sim.bots[m]) \in Int
    PROVE  /\ TellsOrStarts(sim.bots[m], out)
           /\ StartsUpTo(out, Wanted(m) - count_active(sim.bots[m]))
<1> DEFINE model == sim.bots[m]
           kept == {id \in BotIds(model) : is_connected(model, id)}
           swept == retain(model, kept)
           running == count_active(model)
<1>1. /\ IsModel(swept) /\ BotIds(swept) = kept
      /\ swept.model_id = model.model_id
      /\ \A id \in kept : swept.bots[id] = model.bots[id]
  BY RetainIsModel
<1>2. \A id \in kept : Address(swept, id) = Address(model, id)
  BY <1>1 DEF Address
<1>3. \A id \in BotIds(swept) : is_connected(swept, id)
  BY <1>1, <1>2 DEF is_connected
<1>4. \/ out \in StopOutcomes(swept, running - Wanted(m))
      \/ out \in SpawnOutcomes(swept, Wanted(m) - running)
      \/ out = Outcome(swept, {}, {})
  BY DEF TickOutcomes
<1>5. out = Outcome(swept, {}, {}) => TellsOrStarts(swept, out) /\ out.started = {}
  BY <1>3 DEF TellsOrStarts, Outcome
<1>6. TellsOrStarts(swept, out) /\ StartsUpTo(out, Wanted(m) - running)
  BY <1>1, <1>3, <1>4, <1>5, StopOutcomesTell, SpawnOutcomesStart DEF StartsUpTo
<1>7. \A id \in BotIds(swept) :
         /\ id \in BotIds(model) /\ is_connected(model, id)
         /\ swept.bots[id] = model.bots[id] /\ Address(swept, id) = Address(model, id)
  BY <1>1, <1>2
<1> HIDE DEF model, swept, kept
<1>8. TellsOrStarts(model, out)
  BY <1>1, <1>6, <1>7 DEF TellsOrStarts
<1> QED
  BY <1>6, <1>8 DEF model

LEMMA WantedIsLimited ==
    ASSUME TypeInv, NEW m \in DOMAIN sim.bots
    PROVE  Wanted(m) \in Int /\ (MaxRunning # NoLimit => Wanted(m) <= MaxRunning)
<1>1. /\ sim.agents_count \in Nat \ {0} /\ shape[m] \in Nat /\ AgentId \in Nat
      /\ MaxRunning \in Nat \cup {NoLimit}
  BY SimFields, SimulationAssumption DEF TypeInv
<1>2. normalize_count(shape[m]) \in Int
  <2> DEFINE n == sim.agents_count
             x == shape[m] + (AgentId % n)
  <2>1. AgentId % n \in Int
    BY <1>1
  <2>2. x \in Int /\ n \in Int /\ n > 0
    BY <1>1, <2>1
  <2> HIDE DEF x, n
  <2>3. x \div n \in Int
    BY <2>2
  <2> QED
    BY <2>3 DEF normalize_count, x, n
<1> QED
  BY <1>1, <1>2 DEF Wanted, AtMost

(* What a tick of a running simulation does to the entries and the actors. *)
LEMMA TickRunningOutcomes ==
    ASSUME TypeInv, TickRunning
    PROVE  \E visited \in SUBSET DOMAIN sim.bots :
           \E out \in [visited -> UNION {TickOutcomes(m) : m \in visited}] :
              /\ \A m \in visited : out[m] \in TickOutcomes(m)
              /\ DOMAIN sim'.bots = DOMAIN sim.bots
              /\ \A m \in DOMAIN sim.bots :
                    sim'.bots[m] = IF m \in visited THEN out[m].model ELSE sim.bots[m]
              /\ actors' = [a \in Live \cup UNION {out[m].started : m \in visited} |->
                    IF a \in UNION {out[m].started : m \in visited} THEN NewBotActor
                    ELSE IF a \in UNION {out[m].stopped : m \in visited}
                         THEN [actors[a] EXCEPT !.mbox = Append(@, "StopBot")]
                         ELSE actors[a]]
<1>1. PICK visited \in Visited :
      \E out \in [visited -> UNION {TickOutcomes(m) : m \in visited}] :
          /\ \A m \in visited : out[m] \in TickOutcomes(m)
          /\ sim' = [sim EXCEPT !.bots =
                        [m \in DOMAIN @ |-> IF m \in visited THEN out[m].model ELSE @[m]]]
          /\ LET stopped == UNION {out[m].stopped : m \in visited}
                 started == UNION {out[m].started : m \in visited}
             IN  actors' = [a \in Live \cup started |->
                              IF a \in started THEN NewBotActor
                              ELSE IF a \in stopped
                                   THEN [actors[a] EXCEPT !.mbox = Append(@, "StopBot")]
                                   ELSE actors[a]]
  BY Zenon DEF TickRunning
<1>2. PICK out \in [visited -> UNION {TickOutcomes(m) : m \in visited}] :
          /\ \A m \in visited : out[m] \in TickOutcomes(m)
          /\ sim' = [sim EXCEPT !.bots =
                        [m \in DOMAIN @ |-> IF m \in visited THEN out[m].model ELSE @[m]]]
          /\ LET stopped == UNION {out[m].stopped : m \in visited}
                 started == UNION {out[m].started : m \in visited}
             IN  actors' = [a \in Live \cup started |->
                              IF a \in started THEN NewBotActor
                              ELSE IF a \in stopped
                                   THEN [actors[a] EXCEPT !.mbox = Append(@, "StopBot")]
                                   ELSE actors[a]]
  BY <1>1, Zenon
<1>3. visited \in SUBSET DOMAIN sim.bots
  BY DEF Visited
<1> DEFINE bots == [m \in DOMAIN sim.bots |-> IF m \in visited THEN out[m].model ELSE sim.bots[m]]
<1>4. sim' = [sim EXCEPT !.bots = bots]
  BY <1>2
<1>5. /\ DOMAIN bots = DOMAIN sim.bots
      /\ \A m \in DOMAIN sim.bots : bots[m] = IF m \in visited THEN out[m].model ELSE sim.bots[m]
  OBVIOUS
<1> HIDE DEF bots
<1>6. sim'.bots = bots
  BY <1>4 DEF TypeInv, IsSim, SimRecords
<1>7. /\ DOMAIN sim'.bots = DOMAIN sim.bots
      /\ \A m \in DOMAIN sim.bots :
            sim'.bots[m] = IF m \in visited THEN out[m].model ELSE sim.bots[m]
  BY <1>5, <1>6
<1> QED
  BY <1>2, <1>3, <1>7, Zenon

LEMMA TickRunningUntold ==
    ASSUME UntoldInv, TickRunning
    PROVE  UntoldInv'
<1>1. /\ EntriesInv'
      /\ mailbox' = <<>> /\ reloaded' = reloaded
      /\ \A m \in DOMAIN sim.bots : sim'.bots[m].model_id = sim.bots[m].model_id
  BY TickEntries, TickRunningTypes DEF Tick, TickRunning, KeepsLiveEntries, history, UntoldInv, EntriesInv
<1>2. NoStoppingNotice'
  BY <1>1 DEF NoStoppingNotice
<1> SUFFICES ASSUME ~reloaded
             PROVE  StoppingIsTold' /\ FewUntold'
  BY <1>1, <1>2 DEF UntoldInv
<1>3. StoppingIsTold /\ FewUntold /\ EntriesInv /\ TypeInv /\ ModelIdsDiffer
  BY DEF UntoldInv, EntriesInv
<1>4. PICK visited \in SUBSET DOMAIN sim.bots :
      \E out \in [visited -> UNION {TickOutcomes(m) : m \in visited}] :
          /\ \A m \in visited : out[m] \in TickOutcomes(m)
          /\ DOMAIN sim'.bots = DOMAIN sim.bots
          /\ \A m \in DOMAIN sim.bots :
                sim'.bots[m] = IF m \in visited THEN out[m].model ELSE sim.bots[m]
          /\ actors' = [a \in Live \cup UNION {out[m].started : m \in visited} |->
                IF a \in UNION {out[m].started : m \in visited} THEN NewBotActor
                ELSE IF a \in UNION {out[m].stopped : m \in visited}
                     THEN [actors[a] EXCEPT !.mbox = Append(@, "StopBot")]
                     ELSE actors[a]]
  BY <1>3, TickRunningOutcomes, Zenon
<1>5. PICK out \in [visited -> UNION {TickOutcomes(m) : m \in visited}] :
          /\ \A m \in visited : out[m] \in TickOutcomes(m)
          /\ DOMAIN sim'.bots = DOMAIN sim.bots
          /\ \A m \in DOMAIN sim.bots :
                sim'.bots[m] = IF m \in visited THEN out[m].model ELSE sim.bots[m]
          /\ actors' = [a \in Live \cup UNION {out[m].started : m \in visited} |->
                IF a \in UNION {out[m].started : m \in visited} THEN NewBotActor
                ELSE IF a \in UNION {out[m].stopped : m \in visited}
                     THEN [actors[a] EXCEPT !.mbox = Append(@, "StopBot")]
                     ELSE actors[a]]
  BY <1>4, Zenon
<1> DEFINE started == UNION {out[m].started : m \in visited}
           stopped == UNION {out[m].stopped : m \in visited}
           missing(m) == Wanted(m) - count_active(sim.bots[m])
<1>6. /\ actors' = [a \in Live \cup started |->
            IF a \in started THEN NewBotActor
            ELSE IF a \in stopped THEN [actors[a] EXCEPT !.mbox = Append(@, "StopBot")]
                 ELSE actors[a]]
      /\ Live' = Live \cup started
  BY <1>5 DEF Live
<1>7. \A m \in visited :
         /\ sim'.bots[m] = out[m].model
         /\ TellsOrStarts(sim.bots[m], out[m]) /\ StartsUpTo(out[m], missing(m))
  <2> TAKE m \in visited
  <2>1. IsModel(sim.bots[m])
    BY <1>3, SimFields DEF TypeInv
  <2>2. Wanted(m) \in Int /\ count_active(sim.bots[m]) \in Nat
    BY <1>3, WantedIsLimited, UntoldAreActive
  <2>3. out[m] \in TickOutcomes(m) /\ sim'.bots[m] = out[m].model
    BY <1>5
  <2> QED
    BY <2>1, <2>2, <2>3, TickOutcomesTellOrStart
<1>8. \A a \in started : a \notin Live /\ \E m \in visited : a \in out[m].started /\ a[1] = sim.bots[m].model_id
  BY <1>7 DEF TellsOrStarts
<1>9. \A a \in stopped : \E m \in visited : a \in out[m].stopped
  OBVIOUS
<1>10. \A m \in visited : out[m].started \subseteq started /\ out[m].stopped \subseteq stopped
  OBVIOUS
<1> HIDE DEF started, stopped, missing
<1>11. \A a \in Live : IsTold(actors'[a]) <=> IsTold(actors[a]) \/ a \in stopped
  <2> SUFFICES ASSUME NEW a \in Live
               PROVE  IsTold(actors'[a]) <=> IsTold(actors[a]) \/ a \in stopped
    OBVIOUS
  <2>1. actors[a] \in BotActor /\ "StopBot" \in BotMessages
    BY <1>3 DEF TypeInv, ActorsTyped, BotMessages
  <2>2. actors'[a] = IF a \in stopped THEN [actors[a] EXCEPT !.mbox = Append(@, "StopBot")]
                     ELSE actors[a]
    BY <1>6, <1>8
  <2>3. CASE a \in stopped
    <3>1. actors'[a] = [actors[a] EXCEPT !.mbox = Append(@, "StopBot")]
      BY <2>2, <2>3
    <3> QED
      BY <2>1, <2>3, <3>1, ActorToldAppend
  <2>4. CASE a \notin stopped
    BY <2>2, <2>4
  <2> QED
    BY <2>3, <2>4
<1>12. StoppingIsTold'
  <2> SUFFICES ASSUME NEW m \in DOMAIN sim.bots, NEW id \in BotIds(sim'.bots[m]),
                      Address(sim'.bots[m], id) \in Live',
                      sim'.bots[m].bots[id].state = "Stopping"
               PROVE  IsTold(actors'[Address(sim'.bots[m], id)])
    BY <1>5, Zenon DEF StoppingIsTold, is_connected
  <2> DEFINE a == Address(sim'.bots[m], id)
  <2>1. CASE m \in visited
    <3>1. /\ id \in BotIds(sim.bots[m]) /\ is_connected(sim.bots[m], id)
          /\ sim'.bots[m].bots[id].inc = sim.bots[m].bots[id].inc
          /\ \/ Address(sim.bots[m], id) \in out[m].stopped
             \/ sim.bots[m].bots[id].state = "Stopping"
      BY <1>7, <2>1 DEF TellsOrStarts
    <3>2. a = Address(sim.bots[m], id) /\ a \in Live
      BY <1>1, <3>1 DEF Address, is_connected
    <3>3. a \in stopped \/ IsTold(actors[a])
      BY <1>3, <1>10, <2>1, <3>1, <3>2 DEF StoppingIsTold
    <3> QED
      BY <1>11, <3>2, <3>3
  <2>2. CASE m \notin visited
    <3>1. sim'.bots[m] = sim.bots[m] /\ a = Address(sim.bots[m], id) /\ id \in BotIds(sim.bots[m])
      BY <1>5, <2>2
    <3>2. a \in Live
      BY <1>3, <1>6, <1>8, <2>2, <3>1 DEF ModelIdsDiffer, Address
    <3>3. IsTold(actors[a])
      BY <1>3, <3>1, <3>2 DEF StoppingIsTold, is_connected
    <3> QED
      BY <1>11, <3>2, <3>3
  <2> QED
    BY <2>1, <2>2
<1>13. FewUntold'
  <2> SUFFICES ASSUME MaxRunning # NoLimit, NEW m \in DOMAIN sim.bots
               PROVE  IsFiniteSet(Untold(m)') /\ Cardinality(Untold(m)') <= MaxRunning
    BY <1>5 DEF FewUntold
  <2>1. \A a \in Untold(m)' :
           /\ a[1] = sim.bots[m].model_id
           /\ a \in Untold(m) \/ a \in started
    <3>1. Untold(m)' = {a \in Live' : a[1] = sim'.bots[m].model_id /\ ~IsTold(actors'[a])}
      BY DEF Untold, IsTold, Has
    <3> QED
      BY <1>1, <1>6, <1>11, <3>1, UntoldIsNotTold
  <2>2. /\ IsFiniteSet(Untold(m)) /\ Cardinality(Untold(m)) <= MaxRunning
        /\ Cardinality(Untold(m)) \in Nat /\ count_active(sim.bots[m]) \in Nat
        /\ Cardinality(Untold(m)) <= count_active(sim.bots[m])
    BY <1>3, UntoldAreActive DEF FewUntold
  <2>3. Wanted(m) \in Int /\ Wanted(m) <= MaxRunning /\ MaxRunning \in Nat
    BY <1>3, WantedIsLimited, SimulationAssumption
  <2>4. CASE Untold(m)' \subseteq Untold(m)
    <3>1. IsFiniteSet(Untold(m)') /\ Cardinality(Untold(m)') <= Cardinality(Untold(m))
      BY <2>2, <2>4, FS_Subset
    <3>2. Cardinality(Untold(m)') \in Nat
      BY <3>1, FS_CardinalityType
    <3> QED
      BY <2>2, <2>3, <3>1, <3>2
  <2>5. CASE ~(Untold(m)' \subseteq Untold(m))
    <3>1. PICK b \in Untold(m)' : b \in started /\ b[1] = sim.bots[m].model_id
      BY <2>1, <2>5
    <3>2. m \in visited /\ out[m].started # {}
      BY <1>3, <1>8, <3>1 DEF ModelIdsDiffer
    <3> DEFINE S == out[m].started
               U == Untold(m)
               V == Untold(m)'
    <3>3. V \subseteq U \cup S
      BY <1>3, <1>8, <2>1 DEF ModelIdsDiffer
    <3>4. IsFiniteSet(S) /\ Cardinality(S) <= Wanted(m) - count_active(sim.bots[m])
      BY <1>7, <3>2 DEF StartsUpTo, missing
    <3>5. IsFiniteSet(U) /\ Cardinality(U) \in Nat /\ Cardinality(U) <= count_active(sim.bots[m])
      BY <2>2
    <3> HIDE DEF S, U, V
    <3>6. /\ IsFiniteSet(U \cup S)
          /\ Cardinality(U \cup S) = Cardinality(U) + Cardinality(S) - Cardinality(U \cap S)
      BY <3>4, <3>5, FS_Union
    <3>7. IsFiniteSet(U \cap S)
      BY <3>5, FS_Intersection
    <3>8. IsFiniteSet(V) /\ Cardinality(V) <= Cardinality(U \cup S)
      BY <3>3, <3>6, FS_Subset
    <3>9. {Cardinality(V), Cardinality(S), Cardinality(U \cap S), Cardinality(U \cup S)} \subseteq Nat
      BY <3>4, <3>6, <3>7, <3>8, FS_CardinalityType
    <3>10. Cardinality(V) <= MaxRunning
      BY <2>2, <2>3, <3>4, <3>5, <3>6, <3>8, <3>9
    <3> QED
      BY <3>8, <3>10 DEF V
  <2> QED
    BY <2>4, <2>5
<1> QED
  BY <1>12, <1>13

LEMMA TickStoppedUntold ==
    ASSUME UntoldInv, TickStopped
    PROVE  UntoldInv'
<1> DEFINE told(m) == Told(sim.bots[m], Active(sim.bots[m]))
           addrs == UNION {{Address(sim.bots[m], id) : id \in told(m)} : m \in DOMAIN sim.bots}
           bots == [m \in DOMAIN sim.bots |->
                      stop_bots(sim.bots[m], Active(sim.bots[m]), told(m))]
<1>1. EntriesInv' /\ mailbox' = <<>> /\ reloaded' = reloaded /\ Live' = Live
  BY TickEntries, TickStoppedTypes DEF Tick, TickStopped, history, UntoldInv, EntriesInv
<1>2. NoStoppingNotice'
  BY <1>1 DEF NoStoppingNotice
<1>3. sim' = [sim EXCEPT !.bots = bots] /\ Deliver(addrs, "StopBot")
  BY DEF TickStopped
<1>4. IsSim(sim) /\ ActorsTyped /\ "StopBot" \in BotMessages
  BY DEF UntoldInv, EntriesInv, TypeInv, BotMessages
<1>5. \A m \in DOMAIN sim.bots :
         /\ BotIds(bots[m]) = BotIds(sim.bots[m])
         /\ bots[m].model_id = sim.bots[m].model_id
         /\ \A id \in BotIds(sim.bots[m]) :
               /\ bots[m].bots[id].inc = sim.bots[m].bots[id].inc
               /\ bots[m].bots[id].state =
                     IF id \in told(m) THEN "Stopping" ELSE sim.bots[m].bots[id].state
  <2> SUFFICES ASSUME NEW m \in DOMAIN sim.bots
               PROVE  LET after == stop_bots(sim.bots[m], Active(sim.bots[m]), told(m)) IN
                      /\ BotIds(after) = BotIds(sim.bots[m])
                      /\ after.model_id = sim.bots[m].model_id
                      /\ \A id \in BotIds(sim.bots[m]) :
                            /\ after.bots[id].inc = sim.bots[m].bots[id].inc
                            /\ after.bots[id].state =
                                  IF id \in told(m) THEN "Stopping" ELSE sim.bots[m].bots[id].state
    OBVIOUS
  <2>1. told(m) \subseteq Active(sim.bots[m]) /\ IsModel(sim.bots[m])
    BY <1>4, SimFields DEF Told
  <2>2. \A id : id \in Active(sim.bots[m]) \cap told(m) <=> id \in told(m)
    BY <2>1
  <2> HIDE DEF told
  <2> QED
    BY <2>1, <2>2, StopBotsIsModel
<1>6. \A a \in Live : IsTold(actors'[a]) <=> IsTold(actors[a]) \/ a \in addrs
  BY <1>3, <1>4, DeliverTold
<1>7. \A m \in DOMAIN sim.bots : \A id \in told(m) : Address(sim.bots[m], id) \in addrs
  OBVIOUS
<1>8. DOMAIN bots = DOMAIN sim.bots
  OBVIOUS
<1> HIDE DEF bots, told, addrs
<1>9. sim'.bots = bots
  BY <1>3, <1>4 DEF IsSim, SimRecords
<1>10. \A m \in DOMAIN sim.bots :
          /\ sim'.bots[m].model_id = sim.bots[m].model_id
          /\ \A id \in BotIds(sim'.bots[m]) :
                /\ id \in BotIds(sim.bots[m])
                /\ sim'.bots[m].bots[id].inc = sim.bots[m].bots[id].inc
                /\ sim'.bots[m].bots[id].state = "Stopping" =>
                      \/ sim.bots[m].bots[id].state = "Stopping"
                      \/ Address(sim.bots[m], id) \in Live' =>
                            IsTold(actors'[Address(sim.bots[m], id)])
  BY <1>1, <1>5, <1>6, <1>7, <1>9
<1>11. \A a \in Live' : IsTold(actors[a]) => IsTold(actors'[a])
  BY <1>1, <1>6
<1>12. DOMAIN sim'.bots = DOMAIN sim.bots /\ Live' \subseteq Live
  BY <1>1, <1>8, <1>9
<1> QED
  BY <1>1, <1>2, <1>10, <1>11, <1>12, StepWithoutStarts

LEMMA InitUntoldInv == Init => UntoldInv
<1> SUFFICES ASSUME Init
             PROVE  UntoldInv
  OBVIOUS
<1>1. EntriesInv
  BY InitEntriesInv
<1>2. DOMAIN sim.bots = {} /\ mailbox = <<>>
  BY DEF Init, NoBots
<1> QED
  BY <1>1, <1>2 DEF UntoldInv, NoStoppingNotice, StoppingIsTold, FewUntold

LEMMA NextUntoldInv ==
    ASSUME UntoldInv, NobodyRequestsAnEnd, [Next]_vars
    PROVE  UntoldInv'
<1>1. EntriesInv'
  BY NextEntriesInv DEF UntoldInv, NobodyRequestsAnEnd, NobodyRequestsStopped
<1>2. CASE ClockPassesStart \/ ShapeMoves \/ UNCHANGED vars
  <2>1. sim'.bots = sim.bots
    BY <1>2 DEF ClockPassesStart, ShapeMoves, vars, UntoldInv, EntriesInv, TypeInv, IsSim, SimRecords
  <2>2. actors' = actors /\ Live' = Live /\ mailbox' = mailbox /\ reloaded' = reloaded
    BY <1>2 DEF ClockPassesStart, ShapeMoves, vars, history, Live
  <2>3. NoStoppingNotice'
    BY <2>2 DEF UntoldInv, NoStoppingNotice
  <2> QED
    BY <1>1, <2>1, <2>2, <2>3, UntoldQuiet
<1>3. CASE SendCommands \/ FacadeRequest
  BY <1>3, SendUntold
<1>4. CASE HandleCommands
  BY <1>4, CommandsUntold
<1>5. CASE HandleBotStateChange
  BY <1>5, BotStateChangeUntold
<1>6. CASE HandleInvokeHandler
  BY <1>1, <1>6, InvokeHandlerUntold
<1>7. CASE Tick
  BY <1>7, TickRunningUntold, TickStoppedUntold DEF Tick
<1>8. CASE \E addr \in Live : BotStep(addr)
  BY <1>8, BotStepUntold
<1> QED
  BY <1>2, <1>3, <1>4, <1>5, <1>6, <1>7, <1>8 DEF Next, HandleMail

(***************************************************************************)
(* If no extension announces ends of bots through the facade, max_running  *)
(* bounds the bot actors of a model that were not told to stop, for every  *)
(* shape, rate and number of agents: a tick counts the entries before it   *)
(* drops those of dead actors, so it never counts too few.                 *)
(***************************************************************************)
THEOREM MaxRunningIsKept ==
    ASSUME NobodyRequestsAnEnd
    PROVE  Spec => []UntoldWithinMaxRunning
<1>1. Init => UntoldInv
  BY InitUntoldInv
<1>2. UntoldInv /\ [Next]_vars => UntoldInv'
  BY NextUntoldInv
<1>3. UntoldInv => UntoldWithinMaxRunning
  BY DEF UntoldInv, FewUntold, UntoldWithinMaxRunning
<1> QED
  BY <1>1, <1>2, <1>3, PTL DEF Spec

-----------------------------------------------------------------------------
(***************************************************************************)
(* How a bot stops.  It is told once, since its entry is active no longer; *)
(* it then sends itself one StopHook, which runs the hook once; and only   *)
(* then it may end.                                                        *)
(***************************************************************************)
NotStopping(b) ==
    /\ b.stop = "no" /\ b.hooks = 0
    /\ b.run # "StopHook" /\ ~Has(b.mbox, "StopHook")
    /\ ~Has(b.mbox, "StopBot") \/ Once(b.mbox, "StopBot")

HookAwaited(b) ==
    /\ b.stop = "waiting" /\ b.hooks = 0
    /\ ~Has(b.mbox, "StopBot")
    /\ IF b.run = "StopHook" THEN ~Has(b.mbox, "StopHook") ELSE Once(b.mbox, "StopHook")

HookRan(b) ==
    /\ b.stop = "done" /\ b.hooks = 1
    /\ b.run # "StopHook" /\ ~Has(b.mbox, "StopHook") /\ ~Has(b.mbox, "StopBot")

StopsInOrder(b) ==
    /\ b.run \notin {"StopBot", "StoppingHook"} /\ ~Has(b.mbox, "StoppingHook")
    /\ NotStopping(b) \/ HookAwaited(b) \/ HookRan(b)

ActiveIsUntold ==
    \A m \in DOMAIN sim.bots : \A id \in Active(sim.bots[m]) :
        is_connected(sim.bots[m], id) => ~IsTold(actors[Address(sim.bots[m], id)])

OnlyEndsNoticed ==
    \A i \in 1 .. Len(mailbox) :
        mailbox[i].type = "BotStateChange" => mailbox[i].state = "Stopped"

StoppingInv ==
    /\ EntriesInv
    /\ OnlyEndsNoticed
    /\ ~reloaded => ActiveIsUntold /\ \A a \in Live : StopsInOrder(actors[a])

(* No extension requests states of bots through the facade. *)
NobodyRequestsStates == FacadeStates = {}

LEMMA NewActorStopsInOrder == StopsInOrder(NewBotActor) /\ ~IsTold(NewBotActor)
BY DEF StopsInOrder, NotStopping, NewBotActor, Has, IsTold

(* A message that has nothing to do with a stop changes nothing about it. *)
LEMMA OtherMessageInOrder ==
    ASSUME NEW b \in BotActor, StopsInOrder(b), NEW msg \in {"DoAction", "Handler"},
           NEW after, after.mbox = Append(b.mbox, msg), after.stop = b.stop,
           after.run = b.run, after.hooks = b.hooks
    PROVE  StopsInOrder(after)
<1>1. b.mbox \in Seq(BotMessages) /\ msg \in BotMessages
  BY DEF BotActor, BotMessages
<1>2. /\ \A m \in {"StopBot", "StopHook", "StoppingHook"} : Has(after.mbox, m) <=> Has(b.mbox, m)
      /\ \A m \in {"StopBot", "StopHook", "StoppingHook"} : Once(b.mbox, m) => Once(after.mbox, m)
  <2>1. \A m \in {"StopBot", "StopHook", "StoppingHook"} : m # msg
    OBVIOUS
  <2> QED
    BY <1>1, <2>1, HasAfterAppend
<1> QED
  BY <1>2 DEF StopsInOrder, NotStopping, HookAwaited, HookRan

(* An actor that was not told yet is. *)
LEMMA StopBotInOrder ==
    ASSUME NEW b \in BotActor, StopsInOrder(b), ~IsTold(b)
    PROVE  StopsInOrder([b EXCEPT !.mbox = Append(@, "StopBot")])
<1> DEFINE after == [b EXCEPT !.mbox = Append(@, "StopBot")]
<1>1. /\ b.mbox \in Seq(BotMessages) /\ "StopBot" \in BotMessages
      /\ after.mbox = Append(b.mbox, "StopBot") /\ after.stop = b.stop
      /\ after.run = b.run /\ after.hooks = b.hooks
  BY DEF BotActor, BotMessages
<1>2. NotStopping(b) /\ ~Has(b.mbox, "StopBot")
  BY DEF StopsInOrder, HookAwaited, HookRan, IsTold
<1>3. /\ \A m \in {"StopHook", "StoppingHook"} : Has(after.mbox, m) <=> Has(b.mbox, m)
      /\ Once(after.mbox, "StopBot")
  <2>1. \A m \in {"StopHook", "StoppingHook"} : m # "StopBot"
    OBVIOUS
  <2> QED
    BY <1>1, <1>2, <2>1, HasAfterAppend
<1> HIDE DEF after
<1>4. StopsInOrder(after)
  BY <1>1, <1>2, <1>3 DEF StopsInOrder, NotStopping
<1> QED
  BY <1>4 DEF after

(* The steps of a bot actor's own follow the order of a stop. *)
LEMMA HandleMessageInOrder ==
    ASSUME TypeInv, NEW addr \in Live, StopsInOrder(actors[addr]), HandleMessage(addr)
    PROVE  StopsInOrder(actors'[addr]) /\ (IsTold(actors'[addr]) => IsTold(actors[addr]))
<1> DEFINE b == actors[addr]
           msg == Head(b.mbox)
           rest == Tail(b.mbox)
           asked == Append(rest, "StopHook")
           told == [b EXCEPT !.mbox = asked, !.stop = IF @ = "done" THEN @ ELSE "waiting"]
           begun == [b EXCEPT !.mbox = rest, !.run = msg]
<1>1. /\ actors \in [Live -> BotActor] /\ b \in BotActor /\ b.mbox \in Seq(BotMessages)
      /\ b.mbox # <<>> /\ b.run = "none"
  BY DEF TypeInv, ActorsTyped, BotActor, HandleMessage
<1>2. actors'[addr] = IF msg = "StopBot" THEN told ELSE begun
  BY <1>1 DEF HandleMessage, Become
<1>3. /\ rest \in Seq(BotMessages) /\ msg \in BotMessages /\ "StopHook" \in BotMessages
      /\ \A m : Has(b.mbox, m) <=> msg = m \/ Has(rest, m)
      /\ \A m : Once(b.mbox, m) => IF msg = m THEN ~Has(rest, m) ELSE Once(rest, m)
  BY <1>1, HasAfterTail DEF BotMessages
<1>4. /\ \A m : Has(asked, m) <=> Has(rest, m) \/ m = "StopHook"
      /\ ~Has(rest, "StopHook") => Once(asked, "StopHook")
  BY <1>3, HasAfterAppend
<1>5. /\ told.mbox = asked /\ told.run = b.run /\ told.hooks = b.hooks
      /\ told.stop = IF b.stop = "done" THEN b.stop ELSE "waiting"
      /\ begun.mbox = rest /\ begun.run = msg /\ begun.hooks = b.hooks /\ begun.stop = b.stop
  BY <1>1 DEF BotActor
<1>6. StopsInOrder(b)
  OBVIOUS
<1> HIDE DEF b, msg, rest, asked, told, begun
<1>7. CASE msg = "StopBot"
  <2>1. Has(b.mbox, "StopBot") /\ NotStopping(b) /\ ~Has(rest, "StopBot")
    BY <1>3, <1>6, <1>7 DEF StopsInOrder, NotStopping, HookAwaited, HookRan
  <2>2. /\ told.stop = "waiting" /\ told.hooks = 0 /\ told.run = "none"
        /\ ~Has(told.mbox, "StopBot") /\ Once(told.mbox, "StopHook")
        /\ ~Has(told.mbox, "StoppingHook")
    BY <1>1, <1>3, <1>4, <1>5, <1>6, <2>1 DEF NotStopping, StopsInOrder
  <2>3. StopsInOrder(told) /\ IsTold(b)
    BY <2>1, <2>2 DEF StopsInOrder, HookAwaited, IsTold
  <2> QED
    BY <1>2, <1>7, <2>3 DEF b
<1>8. CASE msg # "StopBot"
  <2>1. begun.run \notin {"StopBot", "StoppingHook"} /\ ~Has(begun.mbox, "StoppingHook")
    BY <1>3, <1>5, <1>6, <1>8 DEF StopsInOrder
  <2>2. NotStopping(b) => NotStopping(begun)
    BY <1>3, <1>5, <1>8 DEF NotStopping
  <2>3. HookAwaited(b) => HookAwaited(begun)
    BY <1>1, <1>3, <1>5, <1>8 DEF HookAwaited
  <2>4. HookRan(b) => HookRan(begun)
    BY <1>3, <1>5, <1>8 DEF HookRan
  <2>5. IsTold(begun) => IsTold(b)
    BY <1>3, <1>5 DEF IsTold
  <2>6. StopsInOrder(begun)
    BY <1>6, <2>1, <2>2, <2>3, <2>4 DEF StopsInOrder
  <2> QED
    BY <1>2, <1>8, <2>5, <2>6 DEF b
<1> QED
  BY <1>7, <1>8

LEMMA FinishRunInOrder ==
    ASSUME TypeInv, NEW addr \in Live, StopsInOrder(actors[addr]), FinishRun(addr)
    PROVE  StopsInOrder(actors'[addr]) /\ (IsTold(actors'[addr]) => IsTold(actors[addr]))
<1> DEFINE b == actors[addr]
           after == [b EXCEPT !.run = "none",
                       !.task = IF b.run = "DoAction" THEN FALSE ELSE @,
                       !.stop = IF b.run = "StopHook" THEN "done" ELSE @,
                       !.hooks = IF b.run \in {"StopHook", "StoppingHook"} /\ @ < 2
                                 THEN @ + 1 ELSE @]
<1>1. actors \in [Live -> BotActor] /\ b \in BotActor
  BY DEF TypeInv, ActorsTyped
<1>2. actors'[addr] = after
  BY <1>1 DEF FinishRun, Become
<1>3. /\ after.mbox = b.mbox /\ after.run = "none"
      /\ after.stop = IF b.run = "StopHook" THEN "done" ELSE b.stop
      /\ after.hooks = IF b.run \in {"StopHook", "StoppingHook"} /\ b.hooks < 2
                       THEN b.hooks + 1 ELSE b.hooks
  BY <1>1 DEF BotActor
<1>4. StopsInOrder(b)
  OBVIOUS
<1> HIDE DEF b, after
<1>5. CASE b.run = "StopHook"
  <2>1. HookAwaited(b)
    BY <1>4, <1>5 DEF StopsInOrder, NotStopping, HookRan
  <2>2. after.hooks = 1 /\ after.stop = "done"
    BY <1>3, <1>5, <2>1 DEF HookAwaited
  <2>3. HookRan(after) /\ IsTold(b)
    BY <1>3, <1>5, <2>1, <2>2 DEF HookAwaited, HookRan, IsTold
  <2> QED
    BY <1>2, <1>3, <1>4, <2>3 DEF StopsInOrder, b
<1>6. CASE b.run # "StopHook"
  <2>1. after.hooks = b.hooks /\ after.stop = b.stop
    BY <1>3, <1>4, <1>6 DEF StopsInOrder
  <2>2. StopsInOrder(after)
    BY <1>3, <1>4, <1>6, <2>1 DEF StopsInOrder, NotStopping, HookAwaited, HookRan
  <2>3. IsTold(after) => IsTold(b)
    BY <1>3, <2>1 DEF IsTold
  <2> QED
    BY <1>2, <2>2, <2>3 DEF b
<1> QED
  BY <1>5, <1>6

LEMMA BotStepInOrder ==
    ASSUME TypeInv, NEW addr \in Live, BotStep(addr), \A a \in Live : StopsInOrder(actors[a])
    PROVE  \A a \in Live' : /\ StopsInOrder(actors'[a])
                            /\ IsTold(actors'[a]) => IsTold(actors[a])
<1>1. /\ actors \in [Live -> BotActor] /\ actors[addr] \in BotActor
      /\ actors[addr].mbox \in Seq(BotMessages)
  BY DEF TypeInv, ActorsTyped, BotActor
<1>2. CASE StopAfterHook(addr) \/ StopWhenDropped(addr) \/ PanicInAction(addr)
  <2>1. Live' \subseteq Live /\ \A a \in Live' : actors'[a] = actors[a]
    BY <1>2 DEF StopAfterHook, StopWhenDropped, PanicInAction, Without, Live
  <2> QED
    BY <2>1
<1>3. ASSUME NEW bot, Become(addr, bot), StopsInOrder(bot), IsTold(bot) => IsTold(actors[addr])
      PROVE  \A a \in Live' : /\ StopsInOrder(actors'[a])
                              /\ IsTold(actors'[a]) => IsTold(actors[a])
  BY <1>1, <1>3 DEF Become, Live
<1>4. CASE StartInterval(addr)
  <2> DEFINE after == [actors[addr] EXCEPT !.delay = FALSE]
  <2>1. /\ after.mbox = actors[addr].mbox /\ after.stop = actors[addr].stop
        /\ after.run = actors[addr].run /\ after.hooks = actors[addr].hooks
    BY <1>1 DEF BotActor
  <2>2. Become(addr, after)
    BY <1>4 DEF StartInterval
  <2> HIDE DEF after
  <2>3. StopsInOrder(after) /\ (IsTold(after) => IsTold(actors[addr]))
    BY <2>1 DEF StopsInOrder, NotStopping, HookAwaited, HookRan, IsTold
  <2> QED
    BY <1>3, <2>2, <2>3
<1>5. CASE SendDoAction(addr)
  <2> DEFINE after == [actors[addr] EXCEPT !.task = TRUE, !.mbox = Append(@, "DoAction")]
  <2>1. /\ after.mbox = Append(actors[addr].mbox, "DoAction") /\ after.stop = actors[addr].stop
        /\ after.run = actors[addr].run /\ after.hooks = actors[addr].hooks
    BY <1>1 DEF BotActor
  <2>2. Become(addr, after)
    BY <1>5 DEF SendDoAction
  <2> HIDE DEF after
  <2>3. Has(after.mbox, "StopBot") => Has(actors[addr].mbox, "StopBot")
    BY <1>1, <2>1, HasAfterAppend DEF BotMessages
  <2>4. StopsInOrder(after) /\ (IsTold(after) => IsTold(actors[addr]))
    BY <1>1, <2>1, <2>3, OtherMessageInOrder DEF IsTold
  <2> QED
    BY <1>3, <2>2, <2>4
<1>6. CASE HandleMessage(addr) \/ FinishRun(addr)
  <2>1. PICK bot : Become(addr, bot)
    BY <1>6 DEF HandleMessage, FinishRun
  <2>2. actors'[addr] = bot
    BY <1>1, <2>1 DEF Become
  <2> QED
    BY <1>3, <1>6, <2>1, <2>2, HandleMessageInOrder, FinishRunInOrder
<1> QED
  BY <1>2, <1>4, <1>5, <1>6 DEF BotStep

(* Messages that ask for no state other than Stopped come and go. *)
LEMMA EndAppended ==
    ASSUME mailbox \in Seq(SimMessages), OnlyEndsNoticed, NEW msg \in SimMessages,
           mailbox' = Append(mailbox, msg),
           msg.type = "BotStateChange" => msg.state = "Stopped"
    PROVE  OnlyEndsNoticed'
<1>1. /\ Len(mailbox') = Len(mailbox) + 1
      /\ Len(mailbox) \in Nat
      /\ mailbox'[Len(mailbox) + 1] = msg
      /\ \A i \in 1 .. Len(mailbox) : mailbox'[i] = mailbox[i]
  OBVIOUS
<1> QED
  BY <1>1 DEF OnlyEndsNoticed

LEMMA EndHandled ==
    ASSUME mailbox \in Seq(SimMessages), OnlyEndsNoticed, mailbox # <<>>,
           mailbox' = Tail(mailbox)
    PROVE  /\ OnlyEndsNoticed'
           /\ Head(mailbox).type = "BotStateChange" => Head(mailbox).state = "Stopped"
<1>1. /\ Len(mailbox') = Len(mailbox) - 1
      /\ Len(mailbox) \in Nat /\ Len(mailbox) > 0
      /\ \A i \in 1 .. (Len(mailbox) - 1) : mailbox'[i] = mailbox[i + 1]
      /\ Head(mailbox) = mailbox[1]
  OBVIOUS
<1> QED
  BY <1>1 DEF OnlyEndsNoticed

(* What keeps the invariant: no active entry is new, and nobody told is active. *)
LEMMA StepKeepsStoppingInv ==
    ASSUME StoppingInv, EntriesInv', OnlyEndsNoticed', ~reloaded' => ~reloaded,
           ~reloaded =>
              /\ DOMAIN sim'.bots = DOMAIN sim.bots
              /\ \A m \in DOMAIN sim.bots : \A id \in Active(sim'.bots[m]) :
                    /\ id \in Active(sim.bots[m])
                    /\ Address(sim'.bots[m], id) = Address(sim.bots[m], id)
              /\ Live' \subseteq Live
              /\ \A a \in Live' : IsTold(actors'[a]) => IsTold(actors[a])
              /\ \A a \in Live' : StopsInOrder(actors'[a])
    PROVE  StoppingInv'
<1> SUFFICES ASSUME ~reloaded'
             PROVE  ActiveIsUntold' /\ \A a \in Live' : StopsInOrder(actors'[a])
  BY DEF StoppingInv, StopsInOrder, NotStopping, HookAwaited, HookRan, Has, Once
<1>1. ~reloaded /\ ActiveIsUntold
  BY DEF StoppingInv
<1>2. ActiveIsUntold'
  <2> SUFFICES ASSUME NEW m \in DOMAIN sim'.bots, NEW id \in Active(sim'.bots[m]),
                      Address(sim'.bots[m], id) \in Live',
                      IsTold(actors'[Address(sim'.bots[m], id)])
               PROVE  FALSE
    BY Zenon DEF ActiveIsUntold, is_connected
  <2>1. /\ m \in DOMAIN sim.bots /\ id \in Active(sim.bots[m])
        /\ Address(sim.bots[m], id) \in Live /\ IsTold(actors[Address(sim.bots[m], id)])
    BY <1>1
  <2> QED
    BY <1>1, <2>1 DEF ActiveIsUntold, is_connected
<1> QED
  BY <1>1, <1>2

LEMMA SendStopping ==
    ASSUME StoppingInv, NobodyRequestsStates, SendCommands \/ FacadeRequest
    PROVE  StoppingInv'
<1>1. SendCommands
  BY DEF FacadeRequest, NobodyRequestsStates
<1>2. EntriesInv' /\ mailbox \in Seq(SimMessages)
  BY SendEntries DEF StoppingInv, EntriesInv, TypeInv, NobodyRequestsStates, NobodyRequestsStopped
<1>3. sim' = sim /\ actors' = actors /\ Live' = Live /\ reloaded' = reloaded
  BY <1>1 DEF SendCommands, Live
<1>4. PICK list \in CommandLists : mailbox' = Append(mailbox, list)
  BY <1>1 DEF SendCommands
<1>5. list.type # "BotStateChange" /\ list \in SimMessages
  BY <1>4, CommandListTypes DEF SimMessages
<1>6. OnlyEndsNoticed'
  BY <1>2, <1>4, <1>5, EndAppended DEF StoppingInv
<1> QED
  BY <1>2, <1>3, <1>6, StepKeepsStoppingInv DEF StoppingInv

LEMMA CommandsStopping ==
    ASSUME StoppingInv, HandleCommands
    PROVE  StoppingInv'
<1>1. EntriesInv'
  BY CommandsEntries DEF StoppingInv
<1>2. /\ Live' = Live /\ actors' = actors
      /\ mailbox # <<>> /\ mailbox' = Tail(mailbox) /\ mailbox \in Seq(SimMessages)
  BY DEF HandleCommands, Live, StoppingInv, EntriesInv, TypeInv
<1>3. OnlyEndsNoticed'
  BY <1>2, EndHandled DEF StoppingInv
<1>4. ~reloaded' => ~reloaded /\ (Live = {} \/ Head(mailbox).type \notin {"Ready", "Launched"})
  BY DEF HandleCommands
<1>5. sim'.bots = sim.bots \/ Head(mailbox).type \in {"Ready", "Launched"}
  BY HandleCommandsTypes DEF StoppingInv, EntriesInv
<1>6. CASE reloaded'
  BY <1>1, <1>3, <1>6 DEF StoppingInv
<1>7. CASE ~reloaded' /\ Live = {}
  <2>1. ActiveIsUntold'
    BY <1>2, <1>7 DEF ActiveIsUntold, is_connected
  <2> QED
    BY <1>1, <1>2, <1>3, <1>7, <2>1 DEF StoppingInv
<1>8. CASE ~reloaded' /\ sim'.bots = sim.bots
  BY <1>1, <1>2, <1>3, <1>4, <1>8, StepKeepsStoppingInv DEF StoppingInv
<1> QED
  BY <1>4, <1>5, <1>6, <1>7, <1>8

(* The notice of an end is all there is: it takes an entry, and tells nobody. *)
LEMMA BotStateChangeStopping ==
    ASSUME StoppingInv, HandleBotStateChange
    PROVE  StoppingInv'
<1>1. EntriesInv'
  BY BotStateChangeEntries DEF StoppingInv
<1>2. /\ Live' = Live
      /\ DOMAIN sim'.bots = DOMAIN sim.bots
      /\ \A m \in DOMAIN sim.bots :
            /\ sim'.bots[m].model_id = sim.bots[m].model_id
            /\ \A id \in BotIds(sim'.bots[m]) :
                  /\ id \in BotIds(sim.bots[m])
                  /\ sim'.bots[m].bots[id].inc = sim.bots[m].bots[id].inc
                  /\ Head(mailbox).state = "Stopped" =>
                        sim'.bots[m].bots[id].state = sim.bots[m].bots[id].state
  BY HandleBotStateChangeTypes DEF StoppingInv, EntriesInv
<1>3. /\ mailbox # <<>> /\ mailbox' = Tail(mailbox) /\ mailbox \in Seq(SimMessages)
      /\ Head(mailbox).type = "BotStateChange" /\ reloaded' = reloaded
  BY DEF HandleBotStateChange, history, StoppingInv, EntriesInv, TypeInv
<1>4. OnlyEndsNoticed' /\ Head(mailbox).state = "Stopped"
  BY <1>3, EndHandled DEF StoppingInv
<1>5. actors' = actors
  BY <1>4 DEF HandleBotStateChange
<1>6. \A m \in DOMAIN sim.bots : \A id \in Active(sim'.bots[m]) :
         /\ id \in Active(sim.bots[m])
         /\ Address(sim'.bots[m], id) = Address(sim.bots[m], id)
  BY <1>2, <1>4 DEF Active, Address
<1> QED
  BY <1>1, <1>2, <1>3, <1>4, <1>5, <1>6, StepKeepsStoppingInv DEF StoppingInv

LEMMA InvokeHandlerStopping ==
    ASSUME StoppingInv, EntriesInv', HandleInvokeHandler
    PROVE  StoppingInv'
<1>1. /\ Live' = Live /\ sim' = sim /\ reloaded' = reloaded /\ ActorsTyped
      /\ mailbox # <<>> /\ mailbox' = Tail(mailbox) /\ mailbox \in Seq(SimMessages)
  BY HandleInvokeHandlerTypes DEF HandleInvokeHandler, history, StoppingInv, EntriesInv, TypeInv
<1>2. OnlyEndsNoticed'
  BY <1>1, EndHandled DEF StoppingInv
<1>3. PICK addrs : Deliver(addrs, "Handler")
  BY DEF HandleInvokeHandler
<1>4. \A a \in Live : IsTold(actors'[a]) => IsTold(actors[a])
  BY <1>1, <1>3, DeliverTold DEF BotMessages
<1>5. ASSUME ~reloaded, NEW a \in Live
      PROVE  StopsInOrder(actors'[a])
  <2> DEFINE b == actors[a]
             after == [b EXCEPT !.mbox = Append(@, "Handler")]
  <2>1. b \in BotActor /\ StopsInOrder(b)
    BY <1>1, <1>5 DEF ActorsTyped, StoppingInv
  <2>2. /\ after.mbox = Append(b.mbox, "Handler") /\ after.stop = b.stop
        /\ after.run = b.run /\ after.hooks = b.hooks
    BY <2>1 DEF BotActor
  <2>3. actors'[a] = after \/ actors'[a] = b
    BY <1>3 DEF Deliver
  <2> HIDE DEF b, after
  <2> QED
    BY <2>1, <2>2, <2>3, OtherMessageInOrder
<1> QED
  BY <1>1, <1>2, <1>4, <1>5, StepKeepsStoppingInv

(* A tick tells active bots only; those it starts are told nothing yet. *)
LEMMA TickRunningStopping ==
    ASSUME StoppingInv, TickRunning
    PROVE  StoppingInv'
<1>1. /\ EntriesInv'
      /\ mailbox' = <<>> /\ reloaded' = reloaded
      /\ \A m \in DOMAIN sim.bots : sim'.bots[m].model_id = sim.bots[m].model_id
  BY TickEntries, TickRunningTypes
  DEF Tick, TickRunning, KeepsLiveEntries, history, StoppingInv, EntriesInv
<1>2. OnlyEndsNoticed'
  BY <1>1 DEF OnlyEndsNoticed
<1> SUFFICES ASSUME ~reloaded
             PROVE  ActiveIsUntold' /\ \A a \in Live' : StopsInOrder(actors'[a])
  BY <1>1, <1>2, Zenon DEF StoppingInv, StopsInOrder, NotStopping, HookAwaited, HookRan, Has, Once
<1>3. /\ ActiveIsUntold /\ EntriesInv /\ TypeInv /\ ModelIdsDiffer
      /\ \A a \in Live : StopsInOrder(actors[a])
  BY DEF StoppingInv, EntriesInv
<1>4. PICK visited \in SUBSET DOMAIN sim.bots :
      \E out \in [visited -> UNION {TickOutcomes(m) : m \in visited}] :
          /\ \A m \in visited : out[m] \in TickOutcomes(m)
          /\ DOMAIN sim'.bots = DOMAIN sim.bots
          /\ \A m \in DOMAIN sim.bots :
                sim'.bots[m] = IF m \in visited THEN out[m].model ELSE sim.bots[m]
          /\ actors' = [a \in Live \cup UNION {out[m].started : m \in visited} |->
                IF a \in UNION {out[m].started : m \in visited} THEN NewBotActor
                ELSE IF a \in UNION {out[m].stopped : m \in visited}
                     THEN [actors[a] EXCEPT !.mbox = Append(@, "StopBot")]
                     ELSE actors[a]]
  BY <1>3, TickRunningOutcomes, Zenon
<1>5. PICK out \in [visited -> UNION {TickOutcomes(m) : m \in visited}] :
          /\ \A m \in visited : out[m] \in TickOutcomes(m)
          /\ DOMAIN sim'.bots = DOMAIN sim.bots
          /\ \A m \in DOMAIN sim.bots :
                sim'.bots[m] = IF m \in visited THEN out[m].model ELSE sim.bots[m]
          /\ actors' = [a \in Live \cup UNION {out[m].started : m \in visited} |->
                IF a \in UNION {out[m].started : m \in visited} THEN NewBotActor
                ELSE IF a \in UNION {out[m].stopped : m \in visited}
                     THEN [actors[a] EXCEPT !.mbox = Append(@, "StopBot")]
                     ELSE actors[a]]
  BY <1>4, Zenon
<1> DEFINE started == UNION {out[m].started : m \in visited}
           stopped == UNION {out[m].stopped : m \in visited}
<1>6. /\ actors' = [a \in Live \cup started |->
            IF a \in started THEN NewBotActor
            ELSE IF a \in stopped THEN [actors[a] EXCEPT !.mbox = Append(@, "StopBot")]
                 ELSE actors[a]]
      /\ Live' = Live \cup started
  BY <1>5 DEF Live
<1>7. \A m \in visited :
         /\ sim'.bots[m] = out[m].model
         /\ TellsOrStarts(sim.bots[m], out[m])
  <2> TAKE m \in visited
  <2>1. IsModel(sim.bots[m])
    BY <1>3, SimFields DEF TypeInv
  <2>2. Wanted(m) \in Int /\ count_active(sim.bots[m]) \in Nat
    BY <1>3, WantedIsLimited, ActiveAreCounted
  <2>3. out[m] \in TickOutcomes(m) /\ sim'.bots[m] = out[m].model
    BY <1>5
  <2> QED
    BY <2>1, <2>2, <2>3, TickOutcomesTellOrStart
<1>8. \A a \in started : \E m \in visited : a \in out[m].started /\ a[1] = sim.bots[m].model_id
  BY <1>7 DEF TellsOrStarts
<1>9. \A m \in visited : out[m].started \subseteq started /\ out[m].stopped \subseteq stopped
  OBVIOUS
<1>10. \A a \in stopped : \E m \in visited : a \in out[m].stopped
  OBVIOUS
<1> HIDE DEF started, stopped
<1>11. \A a \in Live : a \notin started
  BY <1>7, <1>8 DEF TellsOrStarts
<1>12. \A a \in stopped : ~IsTold(actors[a]) /\ a \in Live
  BY <1>3, <1>7, <1>10 DEF TellsOrStarts, ActiveIsUntold, Active, is_connected
<1>13. \A a \in Live' : StopsInOrder(actors'[a])
  <2> SUFFICES ASSUME NEW a \in Live'
               PROVE  StopsInOrder(actors'[a])
    OBVIOUS
  <2>1. CASE a \in started
    BY <1>6, <2>1, NewActorStopsInOrder
  <2>2. CASE a \notin started /\ a \in stopped
    <3>1. actors[a] \in BotActor /\ StopsInOrder(actors[a]) /\ ~IsTold(actors[a])
      BY <1>3, <1>12, <2>2 DEF TypeInv, ActorsTyped
    <3>2. actors'[a] = [actors[a] EXCEPT !.mbox = Append(@, "StopBot")]
      BY <1>6, <2>2
    <3> QED
      BY <3>1, <3>2, StopBotInOrder
  <2>3. CASE a \notin started /\ a \notin stopped
    BY <1>3, <1>6, <2>3
  <2> QED
    BY <2>1, <2>2, <2>3
<1>14. ActiveIsUntold'
  <2> SUFFICES ASSUME NEW m \in DOMAIN sim.bots, NEW id \in BotIds(sim'.bots[m]),
                      sim'.bots[m].bots[id].state # "Stopping",
                      Address(sim'.bots[m], id) \in Live'
               PROVE  ~IsTold(actors'[Address(sim'.bots[m], id)])
    BY <1>5, Zenon DEF ActiveIsUntold, Active, is_connected
  <2> DEFINE a == Address(sim'.bots[m], id)
  <2>1. ASSUME a \in Live, a \notin stopped, ~IsTold(actors[a])
        PROVE  ~IsTold(actors'[a])
    <3>1. actors'[a] = actors[a]
      BY <1>6, <1>11, <2>1
    <3> QED
      BY <2>1, <3>1
  <2>2. CASE m \in visited /\ a \in out[m].started
    BY <1>6, <1>9, <2>2, NewActorStopsInOrder
  <2>3. CASE m \in visited /\ a \notin out[m].started
    <3>1. /\ id \in BotIds(sim.bots[m]) /\ is_connected(sim.bots[m], id)
          /\ sim'.bots[m].bots[id].inc = sim.bots[m].bots[id].inc
          /\ Address(sim.bots[m], id) \notin out[m].stopped
          /\ sim.bots[m].bots[id].state # "Stopping"
      BY <1>7, <2>3 DEF TellsOrStarts
    <3>2. a = Address(sim.bots[m], id) /\ a \in Live
      BY <1>1, <3>1 DEF Address, is_connected
    <3>3. ~IsTold(actors[a])
      BY <1>3, <3>1, <3>2 DEF ActiveIsUntold, Active
    <3>4. a \notin stopped
      <4> SUFFICES ASSUME a \in stopped
                   PROVE  FALSE
        OBVIOUS
      <4>1. PICK n \in visited : a \in out[n].stopped
        BY <1>10
      <4>2. a[1] = sim.bots[n].model_id
        BY <1>7, <4>1 DEF TellsOrStarts, Address
      <4>3. n = m
        BY <1>3, <3>2, <4>2 DEF ModelIdsDiffer, Address
      <4> QED
        BY <3>1, <3>2, <4>1, <4>3
    <3> QED
      BY <2>1, <3>2, <3>3, <3>4
  <2>4. CASE m \notin visited
    <3>1. sim'.bots[m] = sim.bots[m] /\ a = Address(sim.bots[m], id) /\ id \in BotIds(sim.bots[m])
      BY <1>5, <2>4
    <3>2. a \in Live
      BY <1>3, <1>6, <1>8, <2>4, <3>1 DEF ModelIdsDiffer, Address
    <3>3. ~IsTold(actors[a])
      BY <1>3, <3>1, <3>2 DEF ActiveIsUntold, Active, is_connected
    <3>4. a \notin stopped
      <4> SUFFICES ASSUME a \in stopped
                   PROVE  FALSE
        OBVIOUS
      <4>1. PICK n \in visited : a \in out[n].stopped
        BY <1>10
      <4>2. a[1] = sim.bots[n].model_id
        BY <1>7, <4>1 DEF TellsOrStarts, Address
      <4> QED
        BY <1>3, <2>4, <3>1, <4>2 DEF ModelIdsDiffer, Address
    <3> QED
      BY <2>1, <3>2, <3>3, <3>4
  <2> QED
    BY <2>2, <2>3, <2>4
<1> QED
  BY <1>13, <1>14

LEMMA TickStoppedStopping ==
    ASSUME StoppingInv, TickStopped
    PROVE  StoppingInv'
<1> DEFINE told(m) == Told(sim.bots[m], Active(sim.bots[m]))
           bots == [m \in DOMAIN sim.bots |->
                      stop_bots(sim.bots[m], Active(sim.bots[m]), told(m))]
           addrs == UNION {{Address(sim.bots[m], id) : id \in told(m)} : m \in DOMAIN sim.bots}
<1>1. /\ EntriesInv' /\ mailbox' = <<>> /\ Live' = Live /\ reloaded' = reloaded
  BY TickEntries, TickStoppedTypes DEF Tick, TickStopped, history, StoppingInv, EntriesInv
<1>2. OnlyEndsNoticed'
  BY <1>1 DEF OnlyEndsNoticed
<1>3. sim' = [sim EXCEPT !.bots = bots] /\ Deliver(addrs, "StopBot")
  BY DEF TickStopped
<1>4. IsSim(sim) /\ ActorsTyped /\ ModelIdsDiffer /\ "StopBot" \in BotMessages
  BY DEF StoppingInv, EntriesInv, TypeInv, BotMessages
<1> SUFFICES ASSUME ~reloaded
             PROVE  ActiveIsUntold' /\ \A a \in Live' : StopsInOrder(actors'[a])
  BY <1>1, <1>2, Zenon DEF StoppingInv, StopsInOrder, NotStopping, HookAwaited, HookRan, Has, Once
<1>5. \A m \in DOMAIN sim.bots :
         /\ bots[m].model_id = sim.bots[m].model_id
         /\ \A id \in Active(bots[m]) :
               /\ id \in Active(sim.bots[m]) /\ id \notin told(m)
               /\ bots[m].bots[id].inc = sim.bots[m].bots[id].inc
  <2> SUFFICES ASSUME NEW m \in DOMAIN sim.bots
               PROVE  LET after == stop_bots(sim.bots[m], Active(sim.bots[m]), told(m)) IN
                      /\ after.model_id = sim.bots[m].model_id
                      /\ \A id \in Active(after) :
                            /\ id \in Active(sim.bots[m]) /\ id \notin told(m)
                            /\ after.bots[id].inc = sim.bots[m].bots[id].inc
    OBVIOUS
  <2> DEFINE after == stop_bots(sim.bots[m], Active(sim.bots[m]), told(m))
  <2>1. told(m) \subseteq Active(sim.bots[m]) /\ IsModel(sim.bots[m])
    BY <1>4, SimFields DEF Told
  <2>2. \A id : id \in Active(sim.bots[m]) \cap told(m) <=> id \in told(m)
    BY <2>1
  <2> HIDE DEF told
  <2>3. /\ BotIds(after) = BotIds(sim.bots[m])
        /\ after.model_id = sim.bots[m].model_id
        /\ \A id \in BotIds(sim.bots[m]) :
              /\ after.bots[id].inc = sim.bots[m].bots[id].inc
              /\ after.bots[id].state =
                    IF id \in told(m) THEN "Stopping" ELSE sim.bots[m].bots[id].state
    BY <2>1, <2>2, StopBotsIsModel
  <2> HIDE DEF after
  <2>4. \A id \in Active(after) :
           /\ id \in Active(sim.bots[m]) /\ id \notin told(m)
           /\ after.bots[id].inc = sim.bots[m].bots[id].inc
    BY <2>3 DEF Active
  <2> QED
    BY <2>3, <2>4 DEF after
<1>6. /\ \A a \in Live : IsTold(actors'[a]) <=> IsTold(actors[a]) \/ a \in addrs
      /\ \A a \in Live : actors'[a] = IF a \in addrs
                                     THEN [actors[a] EXCEPT !.mbox = Append(@, "StopBot")]
                                     ELSE actors[a]
  BY <1>3, <1>4, DeliverTold DEF Deliver
<1>7. \A a \in addrs : \E m \in DOMAIN sim.bots : \E id \in told(m) : a = Address(sim.bots[m], id)
  OBVIOUS
<1>8. \A m \in DOMAIN sim.bots : \A id \in told(m) :
         id \in Active(sim.bots[m]) /\ is_connected(sim.bots[m], id)
  BY DEF Told
<1>9. DOMAIN bots = DOMAIN sim.bots
  OBVIOUS
<1> HIDE DEF bots, told, addrs
<1>10. sim'.bots = bots
  BY <1>3, <1>4 DEF IsSim, SimRecords
<1>11. ActiveIsUntold /\ \A a \in Live : StopsInOrder(actors[a]) /\ actors[a] \in BotActor
  BY <1>4 DEF StoppingInv, ActorsTyped
<1>12. \A a \in Live' : StopsInOrder(actors'[a])
  <2> SUFFICES ASSUME NEW a \in Live
               PROVE  StopsInOrder(actors'[a])
    BY <1>1
  <2>1. CASE a \in addrs
    <3>1. ~IsTold(actors[a])
      BY <1>7, <1>8, <1>11, <2>1 DEF ActiveIsUntold
    <3>2. actors'[a] = [actors[a] EXCEPT !.mbox = Append(@, "StopBot")]
      BY <1>6, <2>1
    <3> QED
      BY <1>11, <3>1, <3>2, StopBotInOrder
  <2>2. CASE a \notin addrs
    BY <1>6, <1>11, <2>2
  <2> QED
    BY <2>1, <2>2
<1>13. ActiveIsUntold'
  <2> SUFFICES ASSUME NEW m \in DOMAIN sim'.bots, NEW id \in Active(sim'.bots[m]),
                      Address(sim'.bots[m], id) \in Live'
               PROVE  ~IsTold(actors'[Address(sim'.bots[m], id)])
    BY Zenon DEF ActiveIsUntold, is_connected
  <2> DEFINE a == Address(sim.bots[m], id)
  <2>1. /\ m \in DOMAIN sim.bots /\ id \in Active(sim.bots[m]) /\ id \notin told(m)
        /\ Address(sim'.bots[m], id) = a /\ a \in Live
    BY <1>1, <1>5, <1>9, <1>10 DEF Address
  <2>2. ~IsTold(actors[a])
    BY <1>11, <2>1 DEF ActiveIsUntold, is_connected
  <2>3. a \notin addrs
    BY <1>4, <1>7, <2>1 DEF ModelIdsDiffer, Address
  <2> QED
    BY <1>6, <2>1, <2>2, <2>3
<1> QED
  BY <1>12, <1>13

LEMMA BotStepStopping ==
    ASSUME StoppingInv, NEW addr \in Live, BotStep(addr)
    PROVE  StoppingInv'
<1>1. EntriesInv' /\ TypeInv
  BY BotStepEntries DEF StoppingInv, EntriesInv
<1>2. /\ sim' = sim
      /\ Live' \subseteq Live
      /\ \/ mailbox' = mailbox
         \/ mailbox' = Append(mailbox, StateChange(InternalId(addr), "Stopped"))
  BY BotStepTypes DEF StoppingInv, EntriesInv
<1>3. reloaded' = reloaded /\ mailbox \in Seq(SimMessages)
  BY DEF BotStep, StartInterval, SendDoAction, HandleMessage, FinishRun, StopAfterHook,
         StopWhenDropped, PanicInAction, history, StoppingInv, EntriesInv, TypeInv
<1>4. OnlyEndsNoticed'
  <2>1. CASE mailbox' = mailbox
    BY <2>1 DEF StoppingInv, OnlyEndsNoticed
  <2>2. CASE mailbox' = Append(mailbox, StateChange(InternalId(addr), "Stopped"))
    <3>1. StateChange(InternalId(addr), "Stopped") \in SimMessages
      BY DEF StoppingInv, EntriesInv, TypeInv, ActorsTyped, Addresses, InternalId, InternalIds,
             SimMessages, BotState
    <3>2. StateChange(InternalId(addr), "Stopped").state = "Stopped"
      BY DEF StateChange
    <3> QED
      BY <1>3, <2>2, <3>1, <3>2, EndAppended DEF StoppingInv
  <2> QED
    BY <1>2, <2>1, <2>2
<1>5. ~reloaded => \A a \in Live' : /\ StopsInOrder(actors'[a])
                                    /\ IsTold(actors'[a]) => IsTold(actors[a])
  BY <1>1, BotStepInOrder DEF StoppingInv
<1> QED
  BY <1>1, <1>2, <1>3, <1>4, <1>5, StepKeepsStoppingInv

LEMMA InitStoppingInv == Init => StoppingInv
<1> SUFFICES ASSUME Init
             PROVE  StoppingInv
  OBVIOUS
<1>1. EntriesInv
  BY InitEntriesInv
<1>2. DOMAIN sim.bots = {} /\ mailbox = <<>> /\ Live = {}
  BY DEF Init, NoBots, Live
<1> QED
  BY <1>1, <1>2 DEF StoppingInv, OnlyEndsNoticed, ActiveIsUntold

LEMMA NextStoppingInv ==
    ASSUME StoppingInv, NobodyRequestsStates, [Next]_vars
    PROVE  StoppingInv'
<1>1. EntriesInv'
  BY NextEntriesInv DEF StoppingInv, NobodyRequestsStates, NobodyRequestsStopped
<1>2. CASE ClockPassesStart \/ ShapeMoves \/ UNCHANGED vars
  <2>1. sim'.bots = sim.bots
    BY <1>2 DEF ClockPassesStart, ShapeMoves, vars, StoppingInv, EntriesInv, TypeInv, IsSim, SimRecords
  <2>2. actors' = actors /\ Live' = Live /\ mailbox' = mailbox /\ reloaded' = reloaded
    BY <1>2 DEF ClockPassesStart, ShapeMoves, vars, history, Live
  <2>3. OnlyEndsNoticed'
    BY <2>2 DEF StoppingInv, OnlyEndsNoticed
  <2> QED
    BY <1>1, <2>1, <2>2, <2>3, StepKeepsStoppingInv DEF StoppingInv
<1>3. CASE SendCommands \/ FacadeRequest
  BY <1>3, SendStopping
<1>4. CASE HandleCommands
  BY <1>4, CommandsStopping
<1>5. CASE HandleBotStateChange
  BY <1>5, BotStateChangeStopping
<1>6. CASE HandleInvokeHandler
  BY <1>1, <1>6, InvokeHandlerStopping
<1>7. CASE Tick
  BY <1>7, TickRunningStopping, TickStoppedStopping DEF Tick
<1>8. CASE \E addr \in Live : BotStep(addr)
  BY <1>8, BotStepStopping
<1> QED
  BY <1>2, <1>3, <1>4, <1>5, <1>6, <1>7, <1>8 DEF Next, HandleMail

(* Only an actor's own step ends it, and it has run its hook or panics. *)
LEMMA EndsInOrder ==
    ASSUME StoppingInv, [Next]_vars, ~reloaded', NEW a \in Live, a \notin Live',
           actors[a].run = "none"
    PROVE  actors[a].hooks = 1
<1>1. TypeInv /\ ActorsTyped
  BY DEF StoppingInv, EntriesInv, TypeInv
<1>2. PICK addr \in Live : BotStep(addr)
  <2>1. ~(ClockPassesStart \/ ShapeMoves \/ SendCommands \/ FacadeRequest \/ HandleCommands
          \/ UNCHANGED vars)
    BY DEF ClockPassesStart, ShapeMoves, SendCommands, FacadeRequest, HandleCommands, vars, Live
  <2>2. ~HandleBotStateChange
    BY <1>1, HandleBotStateChangeTypes
  <2>3. ~HandleInvokeHandler
    BY DEF HandleInvokeHandler, Deliver, Live
  <2>4. ~TickStopped
    BY <1>1, TickStoppedTypes
  <2>5. ~TickRunning
    BY DEF TickRunning, Live
  <2> QED
    BY <2>1, <2>2, <2>3, <2>4, <2>5 DEF Next, HandleMail, Tick
<1>3. ~reloaded
  BY <1>2 DEF BotStep, StartInterval, SendDoAction, HandleMessage, FinishRun, StopAfterHook,
              StopWhenDropped, PanicInAction, history
<1>4. StopsInOrder(actors[a]) /\ Live \subseteq Held(sim.bots)
  BY <1>3 DEF StoppingInv, EntriesInv
<1>5. ~\E bot : Become(addr, bot)
  BY <1>1 DEF Become, ActorsTyped, Live
<1>6. StopAfterHook(addr) \/ StopWhenDropped(addr) \/ PanicInAction(addr)
  BY <1>2, <1>5 DEF BotStep, StartInterval, SendDoAction, HandleMessage, FinishRun
<1>7. a = addr
  BY <1>6 DEF StopAfterHook, StopWhenDropped, PanicInAction, Without, Live
<1>8. actors[a].stop = "done"
  BY <1>4, <1>6, <1>7 DEF StopAfterHook, StopWhenDropped, PanicInAction
<1> QED
  BY <1>4, <1>8 DEF StopsInOrder, NotStopping, HookAwaited, HookRan

(***************************************************************************)
(* If no extension requests states of bots through the facade, then a bot  *)
(* that ends other than by a panic has run its Stopping hook, and once,    *)
(* until some load finds bots of an earlier simulation alive.              *)
(***************************************************************************)
THEOREM BotsEndAfterTheirHook ==
    ASSUME NobodyRequestsStates
    PROVE  Spec => EndsAfterOneStoppingHook
<1>1. Init => StoppingInv
  BY InitStoppingInv
<1>2. StoppingInv /\ [Next]_vars => StoppingInv'
  BY NextStoppingInv
<1>3. StoppingInv /\ [Next]_vars =>
         [~reloaded' => \A a \in Live \ Live' :
             actors[a].run = "none" => actors[a].hooks = 1]_vars
  BY EndsInOrder
<1> QED
  BY <1>1, <1>2, <1>3, PTL DEF Spec, EndsAfterOneStoppingHook
=============================================================================
