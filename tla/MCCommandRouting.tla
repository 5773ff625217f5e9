-------------------------- MODULE MCCommandRouting --------------------------
(* Two agents, the second behind the first; lists for all, one and both. *)
EXTENDS CommandRouting

SomeTargets == {All, [agents |-> {N}], [agents |-> Agents]}
=============================================================================
