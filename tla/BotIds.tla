------------------------------- MODULE BotIds -------------------------------
(***************************************************************************)
(* The ids of the bots of a model on their way from the generator into the *)
(* compound ids: spawn_bot of bot_model.rs takes an id from its generator, *)
(* keys the bot's entry with the internal id, and hands the global id to   *)
(* the script; retain and remove_bot read the bot's id back from the key   *)
(* before they release it.                                                 *)
(***************************************************************************)
EXTENDS SequentialIdGenerator, CompoundId

CONSTANT WideIds        \* ids that use more bytes, beyond those reached

(* All of them are u32. *)
ASSUME BotIdsAssumption == MaxId \in Words /\ WideIds \subseteq Words

(* Ids the bots of a model have, and would have were there many more of them. *)
BotIds == inUse \cup WideIds

(***************************************************************************)
(* Whatever the index of the model and of the bot, the key of the bot's    *)
(* entry exists and gives back both: contains_id finds the model,          *)
(* remove_bot and retain release the id of that bot and never panic.       *)
(***************************************************************************)
InternalIdDecodes ==
    \A model_id \in ModelIds, bot_id \in BotIds :
        from_internal_id(internal_id(model_id, bot_id)) = <<model_id, bot_id>>

(* Each part fits in some groups of bits, and eight of them are enough for all. *)
FitTogether(agent_id, model_id, bot_id) ==
    \E a, m, b \in 1 .. 5 :
        /\ a + m + b <= 8
        /\ agent_id < Pow2[a * Group] /\ model_id < Pow2[m * Group] /\ bot_id < Pow2[b * Group]

(***************************************************************************)
(* A global id exists for the three parts that fit together in eight       *)
(* groups, at each boundary of their widths, and for no others, where      *)
(* global_id panics; and it gives its parts back, so that no two bots of   *)
(* all agents have the same.                                               *)
(***************************************************************************)
GlobalIdDecodes ==
    \A agent_id \in AgentIds, model_id \in ModelIds, bot_id \in BotIds :
        LET id == global_id(agent_id, model_id, bot_id) IN
        /\ id # Panic <=> FitTogether(agent_id, model_id, bot_id)
        /\ id # Panic => from_varints(id) = <<agent_id, model_id, bot_id>>

(***************************************************************************)
(* global_id: "combines the agent, model, and bot IDs into a single 64-bit *)
(* unsigned integer".  Every bot that is spawned has a global id: so it    *)
(* is where ids are short (ShortIdsAreGlobal), not with any agent ids.     *)
(***************************************************************************)
EveryBotHasAGlobalId ==
    \A agent_id \in AgentIds, model_id \in ModelIds, bot_id \in inUse :
        global_id(agent_id, model_id, bot_id) # Panic
=============================================================================
