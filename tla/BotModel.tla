------------------------------ MODULE BotModel ------------------------------
(***************************************************************************)
(* The structure `BotModel' of src/simulation/bot_model.rs: the bots of    *)
(* one model (a script type) as the simulation actor knows them.  An entry *)
(* of the map holds the state the simulation believes the bot in and the   *)
(* address of its actor.                                                   *)
(*                                                                         *)
(* A CompoundId is the pair <<model id, bot id>> (the agent id is the same *)
(* for all of an agent); its 64-bit internal id is a one-to-one encoding   *)
(* of that pair (InternalIdDecodes of CompoundId).  Ids are reused, so     *)
(* several actors may have been given one id: the address is the id with   *)
(* an incarnation number.                                                  *)
(***************************************************************************)
EXTENDS IdGenerator

(* BotState, the custom states of a script folded into one. *)
BotState == {"Idle", "Initializing", "Running", "Stopping", "Stopped", "Custom"}

BotModelOf(Incs) ==
    [model_id : Nat, id_generator : Generator,
     bots : UNION {[ids -> [state : BotState, inc : Incs]] : ids \in SUBSET Nat}]

NewBotModel(idx) ==
    [model_id |-> idx, id_generator |-> NewGenerator, bots |-> [id \in {} |-> {}]]

BotIds(model) == DOMAIN model.bots

Address(model, id) == <<model.model_id, id, model.bots[id].inc>>

(* The bots the simulation has not asked to stop. *)
Active(model) == {id \in BotIds(model) : model.bots[id].state # "Stopping"}

count_active(model) == Cardinality(Active(model))

(***************************************************************************)
(* spawn_bot for each id of `ids', the next ones of the generator: a       *)
(* Running entry with the address of a new actor.  A construction that     *)
(* fails releases the id it took, which leaves the generator as it was.    *)
(***************************************************************************)
spawn_bots(model, ids, inc) ==
    [model EXCEPT
        !.id_generator = AfterNextIds(@, ids),
        !.bots = [id \in BotIds(model) \cup ids |->
                     IF id \in ids THEN [state |-> "Running", inc |-> inc[id]]
                     ELSE @[id]]]

(* retain that forgets to release the ids of the bots it drops. *)
RetainWithoutRelease(model, kept) ==
    [model EXCEPT !.bots = [id \in kept |-> @[id]]]

(* retain: the entries outside `kept' are dropped and their ids released. *)
retain(model, kept) ==
    [model EXCEPT
        !.id_generator =
            IF BotIds(model) \subseteq kept THEN @
            ELSE AfterReleases(@, BotIds(model) \ kept),
        !.bots = [id \in kept |-> @[id]]]

(* stop_bot that notes the bot as Stopping even when the message failed. *)
StopWithoutOutcome(model, asked, told) ==
    [model EXCEPT !.bots = [id \in BotIds(model) |->
                               IF id \in asked THEN [@[id] EXCEPT !.state = "Stopping"]
                               ELSE @[id]]]

(* stop_bot that also takes the entry out and frees the id at once. *)
StopAndForget(model, asked, told) == retain(model, BotIds(model) \ told)

(***************************************************************************)
(* stop_bot for the bots `asked', where the mailbox of those `told' took   *)
(* the message: only these are noted as Stopping, the others stay active   *)
(* and are asked again by a later tick.                                    *)
(***************************************************************************)
stop_bots(model, asked, told) ==
    [model EXCEPT !.bots = [id \in BotIds(model) |->
                               IF id \in asked \cap told THEN [@[id] EXCEPT !.state = "Stopping"]
                               ELSE @[id]]]

(* contains_id *)
contains_id(model, internal_id) ==
    internal_id[1] = model.model_id /\ internal_id[2] \in BotIds(model)

(* remove_bot, called when contains_id holds. *)
remove_bot(model, id) ==
    [model EXCEPT !.id_generator = AfterRelease(@, id),
                  !.bots = [k \in BotIds(model) \ {id} |-> @[k]]]

change_state(model, id, state) == [model EXCEPT !.bots[id].state = state]

(***************************************************************************)
(* The generator of a model is exact for the bots in its map.              *)
(***************************************************************************)
ModelExact(model) == Exact(model.id_generator, BotIds(model))
=============================================================================
