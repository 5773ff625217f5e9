----------------------------- MODULE LoadShare -----------------------------
(***************************************************************************)
(* How agents divide the bots that a shape asks for, each by itself, from  *)
(* its id and the number of agents it was told (normalize_count of         *)
(* simulation/actor/simulation.rs).  Counts are whole here; the code       *)
(* divides numbers of 64 bits, which is exact enough for them.             *)
(***************************************************************************)
EXTENDS Integers

(* Everyone rounds down. *)
normalize_countDown(global_count, agent_id, agents_count) == global_count \div agents_count

(* Agents round at points of their own, shifted by the ids. *)
normalize_count(global_count, agent_id, agents_count) ==
    (global_count + (agent_id % agents_count)) \div agents_count
=============================================================================
