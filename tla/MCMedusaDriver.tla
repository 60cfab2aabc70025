--------------------------- MODULE MCMedusaDriver ---------------------------
(* Instances of MedusaDriver for TLC; the other bounds are in the cfg files. *)
EXTENDS MedusaDriver

\* Two agents in turn, for the same game or for different ones; either agent's own
\* process may also be the target of an operation.
TwoAgents == {<<"game1", "agent1">>, <<"game1", "agent2">>, <<"game2", "agent2">>}
OneAgent  == {<<"game1", "agent1">>}
=============================================================================
