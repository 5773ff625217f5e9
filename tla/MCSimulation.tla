---------------------------- MODULE MCSimulation ----------------------------
(* Instances of Simulation for TLC. *)
EXTENDS Simulation

CONSTANTS m1, m2

(* One model, in a script that is good or does not compile. *)
OneModelLoads ==
    {[valid |-> TRUE, script |-> {m1}, shapes |-> {m1}], [valid |-> FALSE, script |-> {}, shapes |-> {m1}]}

OneGoodLoad == {[valid |-> TRUE, script |-> {m1}, shapes |-> {m1}]}
=============================================================================
