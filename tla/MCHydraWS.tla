----------------------------- MODULE MCHydraWS -----------------------------
(* Instances of HydraWS for TLC; the bounds are in the cfg files. *)
EXTENDS HydraWS
=============================================================================
