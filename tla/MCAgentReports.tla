--------------------------- MODULE MCAgentReports ---------------------------
(* A small instance of AgentReports: one snapshot, of one model. *)
EXTENDS AgentReports

CONSTANTS m, running

OneSnapshot == {1}
OfModel == [p \in OneSnapshot |-> m]
=============================================================================
