----------------------------- MODULE MCCluster -----------------------------
(* Two agents, and the order in which the server goes through them. *)
EXTENDS Cluster

CONSTANTS a1, a2, s1, s2, s3

(* Ids that differ modulo 2. *)
AgentIds == [a \in Agents |-> IF a = a1 THEN 6 ELSE 11]

AgentOrder == <<a1, a2>>
OneAgentOrder == <<a1>>
=============================================================================
