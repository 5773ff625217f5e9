-------------------------- MODULE MCMetricsManager --------------------------
(* Two models with an action of the same name; a quick success, a slow failure. *)
EXTENDS MetricsManager, TLC

CONSTANTS m1, m2

TwoActions == [model : {m1, m2}, action : {"browse"}]

TwoExecutions == {[outcome |-> 200, elapsed |-> 2], [outcome |-> 500, elapsed |-> 600000]}

(* Nothing tells the models apart. *)
Symmetry == Permutations({m1, m2})
=============================================================================
