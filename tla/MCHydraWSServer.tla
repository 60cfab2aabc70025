-------------------------- MODULE MCHydraWSServer --------------------------
(* Instances of HydraWSServer for TLC; the bounds are in the cfg files. *)
EXTENDS HydraWSServer, TLC

\* Connections are interchangeable.
Symmetry == Permutations(Conn)
=============================================================================
